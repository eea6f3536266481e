------------------------- MODULE StateManager_proofs -------------------------
(***************************************************************************)
(* Proofs about StateManager for every scenario: any answers of the        *)
(* reasoner, any number of inputs, faults, sessions and messages.  First   *)
(* the shape of its state and the invariant of its recoveries; then, from  *)
(* those, that every task that is over reports and every turn is sound.    *)
(***************************************************************************)
EXTENDS StateManager, FiniteSetTheorems, TLAPS

-----------------------------------------------------------------------------
(* Sequences: what is taken from the inbox and what is put into it.        *)

\* What is left of a sequence when its head is taken.
LEMMA Taken ==
    ASSUME NEW S, NEW s \in Seq(S), s # <<>>
    PROVE  /\ Head(s) \in S /\ Tail(s) \in Seq(S)
           /\ 1 \in DOMAIN s /\ Head(s) = s[1]
           /\ \A i \in DOMAIN Tail(s) : i + 1 \in DOMAIN s /\ Tail(s)[i] = s[i + 1]
           /\ \A i \in DOMAIN s : i = 1 \/ (i - 1 \in DOMAIN Tail(s) /\ s[i] = Tail(s)[i - 1])
  <1>1. Len(s) \in Nat /\ Len(s) > 0 /\ DOMAIN s = 1 .. Len(s)
    OBVIOUS
  <1>2. Tail(s) \in Seq(S) /\ DOMAIN Tail(s) = 1 .. (Len(s) - 1)
    BY <1>1
  <1>3. \A i \in DOMAIN Tail(s) : Tail(s)[i] = s[i + 1]
    BY <1>1, <1>2
  <1>4. QED
    BY <1>1, <1>2, <1>3

\* What two sequences hold together.
LEMMA Joined ==
    ASSUME NEW S, NEW s \in Seq(S), NEW t \in Seq(S)
    PROVE  /\ s \o t \in Seq(S)
           /\ \A i \in DOMAIN (s \o t) : \/ i \in DOMAIN s /\ (s \o t)[i] = s[i]
                                         \/ \E j \in DOMAIN t : /\ (s \o t)[i] = t[j]
                                                                /\ i = j + Len(s)
           /\ \A i \in DOMAIN s : i \in DOMAIN (s \o t) /\ (s \o t)[i] = s[i]
           /\ \A j \in DOMAIN t : /\ j + Len(s) \in DOMAIN (s \o t)
                                  /\ (s \o t)[j + Len(s)] = t[j]
  <1>1. Len(s) \in Nat /\ DOMAIN s = 1 .. Len(s) /\ Len(t) \in Nat /\ DOMAIN t = 1 .. Len(t)
    OBVIOUS
  <1>2. s \o t \in Seq(S) /\ DOMAIN (s \o t) = 1 .. (Len(s) + Len(t))
    BY <1>1
  <1>3. \A i \in 1 .. (Len(s) + Len(t)) :
            (s \o t)[i] = IF i <= Len(s) THEN s[i] ELSE t[i - Len(s)]
    BY <1>1
  <1>4. ASSUME NEW i \in DOMAIN (s \o t), ~(i <= Len(s))
        PROVE  i - Len(s) \in DOMAIN t /\ (s \o t)[i] = t[i - Len(s)]
               /\ i = (i - Len(s)) + Len(s)
    BY <1>1, <1>2, <1>3, <1>4
  <1>5. \A i \in DOMAIN s : i \in DOMAIN (s \o t) /\ (s \o t)[i] = s[i]
    BY <1>1, <1>2, <1>3
  <1>6. \A j \in DOMAIN t : j + Len(s) \in DOMAIN (s \o t)
    BY <1>1, <1>2
  <1>7. \A j \in DOMAIN t : (s \o t)[j + Len(s)] = t[j]
    <2> TAKE j \in DOMAIN t
    <2>1. j + Len(s) \in 1 .. (Len(s) + Len(t)) /\ ~(j + Len(s) <= Len(s))
      BY <1>1
    <2>2. (s \o t)[j + Len(s)] = t[(j + Len(s)) - Len(s)]
      BY <2>1, <1>3
    <2>3. (j + Len(s)) - Len(s) = j
      BY <1>1
    <2>4. QED
      BY <2>2, <2>3
  <1>8. \A i \in DOMAIN (s \o t) : \/ i \in DOMAIN s /\ (s \o t)[i] = s[i]
                                   \/ \E j \in DOMAIN t : /\ (s \o t)[i] = t[j]
                                                          /\ i = j + Len(s)
    BY <1>1, <1>2, <1>3, <1>4
  <1>9. QED
    BY <1>2, <1>5, <1>6, <1>7, <1>8

-----------------------------------------------------------------------------
(* InOrder lists every number of a finite set once.                        *)

\* Every number of the set has a place in the list, every place a number.
LEMMA InOrderLists ==
    ASSUME NEW S, S \subseteq Nat, IsFiniteSet(S)
    PROVE  /\ Cardinality(S) \in Nat /\ InOrder(S) \in Seq(S)
           /\ DOMAIN InOrder(S) = 1 .. Cardinality(S)
           /\ \A x \in S : \E i \in DOMAIN InOrder(S) : InOrder(S)[i] = x
  <1> DEFINE below(x) == {y \in S : y < x}
             n == Cardinality(S)
             rank == [x \in S |-> Cardinality(below(x))]
  <1>1. n \in Nat /\ \A x \in S : IsFiniteSet(below(x)) /\ Cardinality(below(x)) \in Nat
    BY FS_CardinalityType, FS_Subset
  <1>2. \A x \in S : Cardinality(below(x)) < n
    <2> TAKE x \in S
    <2>1. below(x) \subseteq S \ {x}
      OBVIOUS
    <2>2. Cardinality(S \ {x}) = n - 1 /\ IsFiniteSet(S \ {x})
      BY FS_RemoveElement
    <2>3. Cardinality(below(x)) <= n - 1
      BY <2>1, <2>2, FS_Subset
    <2>4. QED
      BY <2>3, <1>1
  <1>3. ASSUME NEW x \in S, NEW y \in S, x < y
        PROVE  Cardinality(below(x)) < Cardinality(below(y))
    <2>0. x \in Nat /\ y \in Nat /\ \A z \in S : z \in Nat
      OBVIOUS
    <2>1. below(x) \subseteq below(y) \ {x} /\ x \in below(y)
      <3>1. \A z \in S : z < x => z < y /\ z # x
        BY <1>3, <2>0
      <3>2. \A z \in below(x) : z \in S /\ z < x
        OBVIOUS
      <3>3. \A z \in below(x) : z \in below(y)
        BY <3>1
      <3>4. x \in below(y)
        BY <1>3
      <3> HIDE DEF below
      <3>5. QED
        BY <3>1, <3>2, <3>3, <3>4
    <2>2. Cardinality(below(y) \ {x}) = Cardinality(below(y)) - 1
          /\ IsFiniteSet(below(y) \ {x})
      BY <2>1, <1>1, FS_RemoveElement
    <2>3. Cardinality(below(x)) <= Cardinality(below(y)) - 1
      BY <2>1, <2>2, FS_Subset
    <2>4. QED
      BY <2>3, <1>1
  <1>4. \A x, y \in S : Cardinality(below(x)) = Cardinality(below(y)) => x = y
    <2> SUFFICES ASSUME NEW x \in S, NEW y \in S, x # y
                 PROVE  Cardinality(below(x)) # Cardinality(below(y))
      OBVIOUS
    <2>1. x < y \/ y < x
      OBVIOUS
    <2>2. QED
      BY <2>1, <1>3, <1>1
  <1>5. rank \in Injection(S, 0 .. (n - 1))
    <2>1. \A x \in S : Cardinality(below(x)) \in 0 .. (n - 1)
      BY <1>1, <1>2
    <2>2. rank \in [S -> 0 .. (n - 1)]
      BY <2>1
    <2>3. \A x, y \in S : rank[x] = rank[y] => x = y
      BY <1>4
    <2> HIDE DEF rank
    <2>4. QED
      BY <2>2, <2>3 DEF Injection, IsInjective
  <1>6. IsFiniteSet(0 .. (n - 1)) /\ Cardinality(0 .. (n - 1)) = n
    <2> HIDE DEF n
    <2>1. n \in Nat /\ n - 1 \in Int /\ (IF 0 > n - 1 THEN 0 ELSE (n - 1) - 0 + 1) = n
      BY <1>1
    <2>2. QED
      BY <2>1, FS_Interval
  <1>7. rank \in Surjection(S, 0 .. (n - 1))
    <2> HIDE DEF rank, n
    <2>1. n = Cardinality(S)
      BY DEF n
    <2>2. QED
      BY <1>5, <1>6, <2>1, FS_Injection
  <1>8. \A k \in 0 .. (n - 1) : \E x \in S : Cardinality(below(x)) = k
    BY <1>7 DEF Surjection
  <1>9. \A i \in 1 .. n : InOrder(S)[i] \in S /\ Cardinality(below(InOrder(S)[i])) = i - 1
    <2> TAKE i \in 1 .. n
    <2>1. i - 1 \in 0 .. (n - 1)
      BY <1>1
    <2>2. InOrder(S)[i] = CHOOSE x \in S : Cardinality(below(x)) = i - 1
      BY DEF InOrder
    <2>3. QED
      BY <1>8, <2>1, <2>2
  <1>10. \A x \in S : Cardinality(below(x)) + 1 \in 1 .. n
                      /\ InOrder(S)[Cardinality(below(x)) + 1] = x
    <2> TAKE x \in S
    <2> DEFINE i == Cardinality(below(x)) + 1
    <2>1. i \in 1 .. n /\ i - 1 = Cardinality(below(x))
      BY <1>1, <1>2
    <2>2. InOrder(S)[i] \in S /\ Cardinality(below(InOrder(S)[i])) = Cardinality(below(x))
      BY <2>1, <1>9
    <2>3. InOrder(S)[i] = x
      BY <2>2, <1>4
    <2>4. QED
      BY <2>1, <2>3
  <1>11. DOMAIN InOrder(S) = 1 .. n /\ InOrder(S) = [i \in 1 .. n |-> InOrder(S)[i]]
    <2> DEFINE pick(i) == CHOOSE x \in S : Cardinality(below(x)) = i - 1
    <2>1. InOrder(S) = [i \in 1 .. n |-> pick(i)]
      BY DEF InOrder
    <2> HIDE DEF pick
    <2>2. QED
      BY <2>1
  <1>12. InOrder(S) \in Seq(S)
    <2>1. InOrder(S) \in [1 .. n -> S]
      BY <1>9, <1>11
    <2>2. QED
      BY <2>1, <1>1
  <1>13. QED
    BY <1>1, <1>10, <1>11, <1>12

-----------------------------------------------------------------------------
(* The shape of the state: what the fields of each record range over.      *)

States == {"IDLE", "WAKE", "PERCEPTION", "THINK", "ACTION", "ERROR"}
Heards == {"words", "silent", "several", "text"}
Outcomes == {"ok", "error"}
Context == [id : Nat, turn : Nat, sel : SUBSET PerceptionKinds,
            results : SUBSET (PerceptionKinds \X Heards),
            resp : Response \cup {NoResponse}, done : Outcomes \cup {"none"}, gen : Nat,
            conv : {"none", "opening", "ready", "closing"}, ack : BOOLEAN,
            blocked : BOOLEAN, route : Routes \cup {"none"}, next : SUBSET PerceptionKinds,
            aphase : {"none", "primary", "post_action_rest"}, streak : Nat]
Triggers == {"rest", "interrupt", "error", "shutdown"}
Pending == [trigger : Triggers \cup {"none"}, policy : {"none", "flush_to_wake", "discard"},
            ticket : Nat, phase : {"none", "workers", "conversation_close", "recovery"},
            proof : BOOLEAN, planned : BOOLEAN, asr : BOOLEAN, noticed : BOOLEAN]
InFlight == [cid : Nat, phase : Phases, kind : Kinds, sid : Nat, turn : Nat,
             task : TaskStates, fact : BOOLEAN, cancel : BOOLEAN, proven : BOOLEAN]
Resources == [keys : SUBSET Keys, ticket : Nat, ready : BOOLEAN]
Adapter == [alive : BOOLEAN, conv : Nat \X Nat, recycle : BOOLEAN]
Microphone == [held : BOOLEAN, released : BOOLEAN, failed : BOOLEAN]
Methods == {"perception", "think", "action", "converge", "e1", "finish"}
Places == Methods \cup {"receive", "progress", "stopped", "dead"}
Causes == {"contract", "invariant", "microphone", "ownership", "not_found", "recovery",
           "assertion", "level3", "rejected", "unproven"}
Whys == Triggers \cup Causes \cup {"none", "stop"}

\* What is in the inbox.
Calls == [type : {"button", "wake", "interrupt", "shutdown"}]
Arrivals == [type : {"message"}, id : Nat]
Acks == [type : {"ack"}, id : Nat]
Facts == [type : {"fact"}, cid : Nat, value : Heards \cup Response \cup Outcomes]
Notices == [type : {"done", "lifecycle"}, cid : Nat]
Errors == [type : {"error"}, keys : SUBSET Keys, asr : BOOLEAN]
Recoveries == [type : {"recovered", "planned"}, waiter : Nat,
               how : {"ok", "failed", "cancelled"}]
Items == Calls \cup Arrivals \cup Acks \cup Facts \cup Notices \cup Errors \cup Recoveries

\* What a task of a phase works with, and what it may publish.
KindsOf(phase) ==
    CASE phase = "perception" -> PerceptionKinds [] phase = "think" -> {"reasoner"}
      [] phase \in {"open", "close"} -> {"conversation"} [] OTHER -> ActionKinds
ValuesOf(phase) ==
    CASE phase = "perception" -> Heards [] phase = "think" -> Response [] OTHER -> Outcomes

ManagerShape == state \in States /\ session \in Context /\ pending \in Pending
FlowShape ==
    /\ flow \in [at : Places, why : Whys, back : Places \cup {"none"}]
    /\ flow.at \in Methods => flow.back \in {"receive", "progress"}
    /\ flow.at = "converge" => flow.why \in Triggers
    /\ flow.at = "action" => session.resp \in Response
TasksShape == inflight \subseteq InFlight /\ IsFiniteSet(inflight) /\ cids \in Nat
InboxShape == inbox \in Seq(Items)
FlagsShape ==
    /\ timer \in Nat /\ readOpen \in Nat /\ faultKeys \subseteq Keys
    /\ asrNotice \in BOOLEAN /\ shutting \in BOOLEAN /\ waiter \in Nat /\ begun \in Nat
    /\ scenario \in Scenarios
WorldShape == engine \in Adapter /\ rm \in Resources /\ mic \in Microphone
              /\ budget \in [Inputs -> Nat] /\ accepted \in Nat
Shape == /\ ManagerShape /\ FlowShape /\ TasksShape
         /\ InboxShape /\ FlagsShape /\ WorldShape

\* Numbers are given to one task, the task is of its phase, and the facts of a task
\* are of its kind.
Numbered ==
    /\ \A r \in inflight : r.cid \in 1 .. cids /\ r.kind \in KindsOf(r.phase)
    /\ \A r, q \in inflight : r.cid = q.cid => r = q
    /\ \A i \in DOMAIN inbox : inbox[i].type \in {"fact", "done", "lifecycle"}
                                  => inbox[i].cid \in 1 .. cids
    /\ \A i \in DOMAIN inbox : inbox[i].type = "fact" =>
           \A r \in inflight : r.cid = inbox[i].cid => inbox[i].value \in ValuesOf(r.phase)

-----------------------------------------------------------------------------
(* What the pieces of a step keep of the shape.                            *)

\* What a step leaves alone keeps its shape.
LEMMA Frames ==
    ASSUME Shape
    PROVE  /\ UNCHANGED manager => ManagerShape'
           /\ UNCHANGED tasks => TasksShape'
           /\ UNCHANGED flags => FlagsShape'
           /\ UNCHANGED world => WorldShape'
           /\ UNCHANGED inbox => InboxShape'
           /\ UNCHANGED <<flow, session>> => FlowShape'
  <1> USE DEF Shape
  <1>1. UNCHANGED manager => ManagerShape'
    BY DEF ManagerShape, manager
  <1>2. UNCHANGED tasks => TasksShape'
    BY DEF TasksShape, tasks
  <1>3. UNCHANGED flags => FlagsShape'
    BY DEF FlagsShape, flags
  <1>4. UNCHANGED world => WorldShape'
    BY DEF WorldShape, world
  <1>5. UNCHANGED inbox => InboxShape'
    BY DEF InboxShape
  <1>6. UNCHANGED <<flow, session>> => FlowShape'
    BY DEF FlowShape
  <1>7. QED
    BY <1>1, <1>2, <1>3, <1>4, <1>5, <1>6

\* A method that is over returns to the dispatch loop.
LEMMA Returns ==
    ASSUME FlowShape, flow.at \notin {"stopped", "dead"}, Return
    PROVE  FlowShape' /\ flow'.at \in {"receive", "progress"} /\ flow'.why = "none"
  <1>1. Back \in {"receive", "progress"}
    BY DEF FlowShape, Back, Methods, Places
  <1>2. flow' = [at |-> Back, why |-> "none", back |-> "none"]
    BY DEF Return
  <1>3. flow'.at = Back /\ flow'.why = "none" /\ flow'.back = "none"
    BY <1>2
  <1>4. flow' \in [at : Places, why : Whys, back : Places \cup {"none"}]
    BY <1>1, <1>2 DEF Places, Whys
  <1>5. QED
    BY <1>1, <1>3, <1>4 DEF FlowShape, Methods

\* A method that calls another one.
LEMMA Calling ==
    ASSUME FlowShape, flow.at \notin {"stopped", "dead"},
           NEW method \in Methods, NEW why \in Triggers \cup {"none"}, Call(method, why),
           method = "converge" => why \in Triggers,
           method = "action" => (session').resp \in Response
    PROVE  FlowShape' /\ flow'.at = method /\ flow'.why = why
  <1>1. Back \in {"receive", "progress"}
    BY DEF FlowShape, Back, Methods, Places
  <1>2. QED
    BY <1>1 DEF FlowShape, Call, Methods, Places, Whys

\* An exception ends the dispatch loop and changes nothing else.
LEMMA Raising ==
    ASSUME Shape, NEW cause \in Causes, Raise(cause), InboxShape'
    PROVE  Shape'
  <1>1. FlowShape'
    BY DEF Raise, FlowShape, Places, Methods, Whys
  <1>2. QED
    BY <1>1, Frames DEF Raise, Shape

\* An item is of the set of its type.
LEMMA ItemIs ==
    ASSUME NEW x \in Items
    PROVE  /\ x.type = "message" => x \in Arrivals
           /\ x.type = "ack" => x \in Acks
           /\ x.type = "fact" => x \in Facts
           /\ x.type \in {"done", "lifecycle"} => x \in Notices
           /\ x.type = "error" => x \in Errors
           /\ x.type \in {"recovered", "planned"} => x \in Recoveries
  BY DEF Items, Calls, Arrivals, Acks, Facts, Notices, Errors, Recoveries

\* What the handling of an item may rely on: the item was not ignored.
LEMMA Admitted ==
    ASSUME NEW i, ~Ignored(i)
    PROVE  /\ i.type = "button" => /\ ~shutting /\ ~(state = "ERROR" /\ Converging)
                                   /\ state = "IDLE" => begun + 1 \in Sessions
           /\ i.type = "wake" => state = "IDLE" /\ ~shutting /\ begun + 1 \in Sessions
           /\ i.type = "message" => /\ state # "ERROR" /\ ~shutting
                                    /\ state = "IDLE" => begun + 1 \in Sessions
           /\ i.type = "interrupt" => state \notin {"IDLE", "ERROR"}
           /\ i.type = "shutdown" => ~shutting
           /\ i.type = "ack" => state = "WAKE" /\ i.id = session.id
           /\ i.type = "fact" => /\ Has(i.cid) /\ StateOf(The(i.cid).phase) = state
                                 /\ ~The(i.cid).fact /\ The(i.cid).sid = session.id
                                 /\ The(i.cid).turn = session.turn
           /\ i.type \in {"done", "lifecycle"} => Has(i.cid)
           /\ i.type = "recovered" => /\ Converging /\ state = "ERROR"
                                      /\ pending.ticket = i.waiter /\ waiter = i.waiter
           /\ i.type = "planned" => Converging /\ pending.planned /\ waiter = i.waiter
  <1>1. CASE i.type = "button"
    BY <1>1 DEF Ignored
  <1>2. CASE i.type = "wake"
    BY <1>2 DEF Ignored
  <1>3. CASE i.type = "message"
    BY <1>3 DEF Ignored
  <1>4. CASE i.type = "interrupt"
    BY <1>4 DEF Ignored
  <1>5. CASE i.type = "shutdown"
    BY <1>5 DEF Ignored
  <1>6. CASE i.type = "ack"
    BY <1>6 DEF Ignored
  <1>7. CASE i.type = "fact"
    BY <1>7 DEF Ignored
  <1>8. CASE i.type \in {"done", "lifecycle"}
    BY <1>8 DEF Ignored
  <1>9. CASE i.type = "recovered"
    BY <1>9 DEF Ignored
  <1>10. CASE i.type = "planned"
    BY <1>10 DEF Ignored
  <1>11. QED
    BY <1>1, <1>2, <1>3, <1>4, <1>5, <1>6, <1>7, <1>8, <1>9, <1>10

\* The item that is taken.
LEMMA Receiving ==
    ASSUME InboxShape, flow.at = "receive", inbox # <<>>
    PROVE  /\ Entry \in Items /\ Tail(inbox) \in Seq(Items)
           /\ flow.at \notin {"stopped", "dead"}
  BY Taken DEF InboxShape, Entry

\* A record that is found by its number.
LEMMA Found ==
    ASSUME NEW c, Has(c)
    PROVE  The(c) \in inflight /\ The(c).cid = c
  BY DEF Has, The

\* One more record, of a phase and of the session there is.
LEMMA Launched ==
    ASSUME Shape, NEW rest, rest \subseteq inflight, NEW phase \in Phases, NEW kind \in Kinds,
           Launch(rest, phase, kind)
    PROVE  TasksShape' /\ Record(cids + 1, phase, kind) \in InFlight
  <1>1. cids \in Nat /\ session.id \in Nat /\ session.turn \in Nat
    BY DEF Shape, TasksShape, ManagerShape, Context
  <1>2. Record(cids + 1, phase, kind) \in InFlight
    BY <1>1 DEF Record, InFlight, TaskStates
  <1>3. IsFiniteSet(rest) /\ IsFiniteSet(rest \cup {Record(cids + 1, phase, kind)})
    BY FS_Subset, FS_AddElement DEF Shape, TasksShape
  <1>4. QED
    BY <1>1, <1>2, <1>3 DEF Shape, TasksShape, Launch

\* A record that changes, or leaves.
LEMMA Updated ==
    ASSUME TasksShape, NEW r \in inflight, NEW s \in InFlight
    PROVE  /\ Update(r, s) \subseteq InFlight /\ IsFiniteSet(Update(r, s))
           /\ inflight \ {r} \subseteq InFlight /\ IsFiniteSet(inflight \ {r})
  <1>1. IsFiniteSet(inflight \ {r})
    BY FS_RemoveElement DEF TasksShape
  <1>2. QED
    BY <1>1, FS_AddElement DEF TasksShape, Update

-----------------------------------------------------------------------------
(* The handlers of the dispatch loop keep the shape.                       *)

\* A session that begins, and the request to open its conversation.
LEMMA BeginShape ==
    ASSUME Shape, flow.at = "receive", NEW selected \in SUBSET PerceptionKinds,
           BeginSession(selected)
    PROVE  ManagerShape' /\ FlowShape' /\ TasksShape' /\ FlagsShape'
  <1> DEFINE new == [NoContext EXCEPT !.id = begun + 1, !.gen = 1, !.conv = "opening",
                                      !.sel = selected]
             record == Record(cids + 1, "open", "conversation")
             opens == [record EXCEPT !.sid = begun + 1, !.turn = 0]
  <1>1. begun + 1 \in Nat /\ cids \in Nat /\ session.id \in Nat /\ session.turn \in Nat
    BY DEF Shape, FlagsShape, TasksShape, ManagerShape, Context
  <1>2. new \in Context
    BY <1>1 DEF NoContext, NoResponse, Context, Outcomes, Routes, Response
  <1>3. NotPending \in Pending
    BY DEF NotPending, Pending, Triggers
  <1>4. ManagerShape'
    BY <1>2, <1>3 DEF BeginSession, ManagerShape, States
  <1>5. FlowShape'
    BY Returns DEF BeginSession, Shape
  <1>6. opens \in InFlight
    <2>1. record \in InFlight
      BY <1>1 DEF Record, InFlight, TaskStates, Phases, Kinds
    <2> HIDE DEF record
    <2>2. QED
      BY <1>1, <2>1 DEF InFlight
  <1>7. TasksShape'
    BY <1>1, <1>6, FS_AddElement DEF BeginSession, Shape, TasksShape
  <1>8. FlagsShape'
    BY <1>1 DEF BeginSession, Shape, FlagsShape
  <1>9. QED
    BY <1>4, <1>5, <1>7, <1>8

\* Items that begin a session or are given to the session there is.
LEMMA InputsShape ==
    ASSUME Shape,
           IgnoreItem \/ HandleWake \/ HandleMessage \/ HandleUnknownMessage
              \/ HandleInterrupt \/ HandleAck
    PROVE  Shape'
  <1> USE DEF Shape
  <1>1. InboxShape' /\ flow.at = "receive"
    BY Receiving DEF IgnoreItem, HandleWake, HandleMessage, HandleUnknownMessage,
                     HandleInterrupt, HandleAck, Receive, InboxShape
  <1>2. CASE IgnoreItem
    BY <1>1, <1>2, Frames, Returns DEF IgnoreItem
  <1>3. CASE HandleWake
    <2>1. CASE Raise("microphone")
      BY <1>1, <2>1, Raising DEF Causes
    <2>2. CASE BeginSession({"listen"}) /\ mic' = Suspended
               /\ UNCHANGED <<buf, accepted, engine, rm, budget>>
      <3>1. WorldShape'
        BY <2>2 DEF WorldShape, Suspended, Microphone
      <3>2. QED
        BY <1>1, <2>2, <3>1, BeginShape DEF PerceptionKinds
    <2>3. QED
      BY <1>3, <2>1, <2>2 DEF HandleWake
  <1>4. CASE HandleMessage
    <2>1. CASE Raise(Refused(Entry.id))
      BY <1>1, <2>1, Raising DEF Causes, Refused
    <2>2. CASE BeginSession({"read"}) /\ UNCHANGED <<accepted, engine, rm, mic, budget>>
      <3>1. WorldShape'
        BY <2>2 DEF WorldShape
      <3>2. QED
        BY <1>1, <2>2, <3>1, BeginShape DEF PerceptionKinds
    <2>3. CASE Return /\ UNCHANGED <<manager, tasks, flags, accepted, engine, rm, mic, budget>>
      <3>1. WorldShape'
        BY <2>3 DEF WorldShape
      <3>2. QED
        BY <1>1, <2>3, <3>1, Frames, Returns
    <2>4. QED
      BY <1>4, <2>1, <2>2, <2>3 DEF HandleMessage
  <1>5. CASE HandleUnknownMessage
    BY <1>1, <1>5, Raising DEF HandleUnknownMessage, Causes, Refused
  <1>6. CASE HandleInterrupt
    BY <1>1, <1>6, Frames, Calling DEF HandleInterrupt, Triggers, Methods
  <1>7. CASE HandleAck
    <2>1. ManagerShape'
      BY <1>7 DEF HandleAck, ManagerShape, Context
    <2>2. QED
      BY <1>1, <1>7, <2>1, Frames, Returns DEF HandleAck
  <1>8. QED
    BY <1>2, <1>3, <1>4, <1>5, <1>6, <1>7

\* What a worker published, and that it is over.
LEMMA WorkerItemsShape ==
    ASSUME Shape, Numbered, HandleFact \/ HandleDone
    PROVE  Shape'
  <1> USE DEF Shape
  <1> DEFINE r == The(Entry.cid)
  <1>1. InboxShape' /\ flow.at = "receive" /\ Entry \in Items /\ flow.at \notin {"stopped", "dead"}
    BY Receiving DEF HandleFact, HandleDone, Receive, InboxShape
  <1>2. Has(Entry.cid)
    BY Admitted DEF HandleFact, HandleDone, Receive, Entry
  <1>3. r \in inflight /\ r.cid = Entry.cid /\ r \in InFlight
    BY <1>2, Found DEF TasksShape
  <1>4. CASE HandleFact
    <2>1. Entry.type = "fact" /\ inbox # <<>>
      BY <1>4 DEF HandleFact, Receive, Entry
    <2>2. Entry.value \in ValuesOf(r.phase) /\ r.kind \in KindsOf(r.phase)
      BY <1>3, <2>1, Taken DEF Numbered, Entry, InboxShape
    <2>3. session' \in Context
      <3>1. CASE r.phase = "perception"
        BY <1>4, <2>2, <3>1 DEF HandleFact, ManagerShape, Context, ValuesOf, KindsOf
      <3>2. CASE r.phase = "think"
        BY <1>4, <2>2, <3>2 DEF HandleFact, ManagerShape, Context, ValuesOf
      <3>3. CASE r.phase = "error_notice"
        BY <1>4, <3>3 DEF HandleFact, ManagerShape
      <3>4. CASE r.phase \notin {"perception", "think", "error_notice"}
        BY <1>4, <2>2, <3>4 DEF HandleFact, ManagerShape, Context, ValuesOf
      <3>5. QED
        BY <3>1, <3>2, <3>3, <3>4
    <2>4. ManagerShape'
      BY <1>4, <2>3 DEF HandleFact, ManagerShape
    <2>5. [r EXCEPT !.fact = TRUE] \in InFlight
      BY <1>3 DEF InFlight
    <2>6. TasksShape'
      BY <1>3, <1>4, <2>5, Updated DEF HandleFact, TasksShape
    <2>7. QED
      BY <1>1, <1>4, <2>4, <2>6, Frames, Returns DEF HandleFact
  <1>5. CASE HandleDone
    <2>1. CASE \E cause \in Causes : Raise(cause)
      BY <1>1, <2>1, Raising
    <2>2. CASE inflight' = inflight \ {r} /\ Return
               /\ UNCHANGED <<manager, cids, flags, world>>
      <3>1. TasksShape'
        BY <1>3, <2>2, FS_RemoveElement DEF TasksShape
      <3>2. QED
        BY <1>1, <2>2, <3>1, Frames, Returns
    <2>3. QED
      BY <1>5, <2>1, <2>2 DEF HandleDone, Causes
  <1>6. QED
    BY <1>4, <1>5

\* What a lifecycle operation leaves behind, and the next conversation.
LEMMA NextConversationShape ==
    ASSUME Shape, InboxShape', flow.at \notin {"stopped", "dead"},
           NEW rest, rest \subseteq inflight, NEW ctx \in Context, NextConversation(rest, ctx)
    PROVE  Shape'
  <1> USE DEF Shape
  <1>1. CASE Raise("invariant")
    BY <1>1, Raising DEF Causes
  <1>2. CASE ~Clash(rest)
    <2>1. /\ session' = [ctx EXCEPT !.gen = @ + 1, !.conv = "opening", !.blocked = TRUE]
          /\ Launch(rest, "open", "conversation") /\ Return
          /\ UNCHANGED <<state, pending, flags, world>>
      BY <1>2 DEF NextConversation
    <2>2. session' \in Context
      <3> DEFINE next == [ctx EXCEPT !.gen = @ + 1]
      <3>1. next \in Context
        BY DEF Context
      <3>2. session' = [next EXCEPT !.conv = "opening", !.blocked = TRUE]
        BY <2>1
      <3> HIDE DEF next
      <3>3. QED
        BY <3>1, <3>2 DEF Context
    <2>3. ManagerShape'
      BY <2>1, <2>2 DEF ManagerShape
    <2>4. TasksShape'
      BY <2>1, Launched DEF Phases, Kinds
    <2>5. QED
      BY <2>1, <2>3, <2>4, Frames, Returns
  <1>3. QED
    BY <1>1, <1>2 DEF NextConversation

\* The handling of a notice about the conversation keeps the shape.
LEMMA LifecycleItemsShape ==
    ASSUME Shape, HandleOpened \/ HandleRejected \/ HandleClosed \/ HandleLifecycleFailed
    PROVE  Shape'
  <1> USE DEF Shape
  <1> DEFINE r == The(Entry.cid)
             rest == inflight \ {r}
  <1>1. InboxShape' /\ flow.at = "receive" /\ flow.at \notin {"stopped", "dead"}
    BY Receiving DEF HandleOpened, HandleRejected, HandleClosed, HandleLifecycleFailed,
                     Receive, InboxShape
  <1>2. Has(Entry.cid)
    BY Admitted DEF HandleOpened, HandleRejected, HandleClosed, HandleLifecycleFailed,
                    Receive, Entry
  <1>3. r \in inflight /\ r \in InFlight /\ rest \subseteq inflight
        /\ rest \subseteq InFlight /\ IsFiniteSet(rest)
    BY <1>2, Found, FS_RemoveElement DEF TasksShape
  <1>4. CASE HandleOpened
    <2>1. ManagerShape'
      BY <1>4 DEF HandleOpened, Opened, ManagerShape, Context
    <2>2. TasksShape'
      BY <1>3, <1>4 DEF HandleOpened, TasksShape
    <2>3. QED
      BY <1>1, <1>4, <2>1, <2>2, Frames, Returns DEF HandleOpened
  <1>5. CASE HandleRejected
    <2>1. CASE Converging
      BY <1>1, <1>5, <2>1, Frames, Calling DEF HandleRejected, Methods
    <2>2. CASE NextConversation(inflight \ {r}, session)
      BY <1>1, <1>3, <2>2, NextConversationShape DEF ManagerShape
    <2>3. QED
      BY <1>5, <2>1, <2>2 DEF HandleRejected
  <1>6. CASE HandleClosed
    <2> DEFINE closed == [session EXCEPT !.conv = "none"]
    <2>1. closed \in Context
      BY DEF ManagerShape, Context
    <2>2. CASE NextConversation(rest, closed)
      BY <1>1, <1>3, <2>1, <2>2, NextConversationShape
    <2>3. CASE /\ inflight' = rest /\ session' = closed
               /\ pending' = IF Converging THEN Proved ELSE pending
               /\ Return /\ UNCHANGED <<state, cids, flags, world>>
      <3>1. pending' \in Pending
        BY <2>3 DEF ManagerShape, Proved, Pending
      <3>2. ManagerShape'
        BY <2>1, <2>3, <3>1 DEF ManagerShape
      <3>3. TasksShape'
        BY <1>3, <2>3 DEF TasksShape
      <3>4. QED
        BY <1>1, <2>3, <3>2, <3>3, Frames, Returns
    <2>4. QED
      BY <1>6, <2>2, <2>3 DEF HandleClosed
  <1>7. CASE HandleLifecycleFailed
    <2>1. TasksShape'
      BY <1>3, <1>7 DEF HandleLifecycleFailed, TasksShape
    <2>2. FlowShape'
      BY <1>1, <1>7, Returns, Calling DEF HandleLifecycleFailed, Methods
    <2>3. QED
      BY <1>1, <1>7, <2>1, <2>2, Frames DEF HandleLifecycleFailed
  <1>8. QED
    BY <1>4, <1>5, <1>6, <1>7

\* Recoveries, errors and the shutdown.
LEMMA NoticesShape ==
    ASSUME Shape, HandleRecovered \/ HandlePlannedRecovery \/ HandleError
                     \/ HandleShutdown \/ ShutdownCleanupFails
    PROVE  Shape'
  <1> USE DEF Shape
  <1>1. flow.at = "receive" /\ flow.at \notin {"stopped", "dead"} /\ inbox # <<>>
        /\ Entry \in Items /\ Tail(inbox) \in Seq(Items)
    BY Receiving DEF HandleRecovered, HandlePlannedRecovery, HandleError,
                     HandleShutdown, ShutdownCleanupFails, Receive
  <1>2. CASE HandleRecovered
    <2>1. InboxShape'
      BY <1>1, <1>2 DEF HandleRecovered, Receive, InboxShape
    <2>2. CASE Raise("recovery")
      BY <2>1, <2>2, Raising DEF Causes
    <2>3. CASE Entry.how = "ok"
      <3>1. ManagerShape'
        BY <1>2, <2>3 DEF HandleRecovered, ManagerShape, Pending
      <3>2. FlagsShape'
        BY <1>2, <2>3 DEF HandleRecovered, FlagsShape
      <3>3. QED
        BY <1>1, <1>2, <2>1, <2>3, <3>1, <3>2, Frames, Returns DEF HandleRecovered
    <2>4. QED
      BY <1>2, <2>2, <2>3 DEF HandleRecovered
  <1>3. CASE HandlePlannedRecovery
    <2>1. InboxShape'
      BY <1>1, <1>3 DEF HandlePlannedRecovery, Receive, InboxShape
    <2>2. CASE Raise("recovery")
      BY <2>1, <2>2, Raising DEF Causes
    <2>3. CASE waiter' = 0 /\ Return
               /\ UNCHANGED <<manager, tasks, timer, readOpen, faultKeys, asrNotice,
                              shutting, begun, scenario, world>>
      <3>1. FlagsShape'
        BY <2>3 DEF FlagsShape
      <3>2. QED
        BY <1>1, <2>1, <2>3, <3>1, Frames, Returns
    <2>4. QED
      BY <1>3, <2>2, <2>3 DEF HandlePlannedRecovery
  <1>4. CASE HandleError
    <2>1. InboxShape'
      BY <1>1, <1>4 DEF HandleError, Receive, InboxShape
    <2>2. Entry \in Errors
      BY <1>1, <1>4, ItemIs DEF HandleError, Receive, Entry
    <2>3. FlagsShape'
      BY <1>4, <2>2 DEF HandleError, FlagsShape, Errors
    <2>4. CASE state = "ERROR"
      <3>1. ManagerShape'
        BY <1>4, <2>4 DEF HandleError, ManagerShape, Pending
      <3>2. FlowShape'
        BY <1>1, <1>4, <2>4, Returns, Calling DEF HandleError, Methods
      <3>3. QED
        BY <1>4, <2>1, <2>3, <3>1, <3>2, Frames DEF HandleError
    <2>5. CASE state # "ERROR"
      <3>1. ManagerShape'
        BY <1>4, <2>5 DEF HandleError, ManagerShape, States
      <3>2. FlowShape'
        BY <1>1, <1>4, <2>5, Calling DEF HandleError, Methods, Triggers
      <3>3. QED
        BY <1>4, <2>1, <2>3, <3>1, <3>2, Frames DEF HandleError
    <2>6. QED
      BY <2>4, <2>5
  <1>5. CASE HandleShutdown
    <2> DEFINE report == [type |-> IF pending.planned THEN "planned" ELSE "recovered",
                          waiter |-> rm.ticket, how |-> "cancelled"]
    <2>1. report \in Items
      BY DEF WorldShape, Resources, Items, Recoveries
    <2>2. InboxShape'
      <3> HIDE DEF report
      <3>1. inbox' \in {Tail(inbox), Append(Tail(inbox), report)}
        BY <1>5 DEF HandleShutdown, report
      <3>2. QED
        BY <1>1, <2>1, <3>1 DEF InboxShape
    <2>3. FlowShape'
      BY <1>1, <1>5, Calling DEF HandleShutdown, Methods, Triggers
    <2>4. FlagsShape'
      BY <1>5 DEF HandleShutdown, FlagsShape
    <2>5. WorldShape'
      <3>1. rm' \in Resources
        BY <1>5 DEF HandleShutdown, WorldShape, Resources
      <3>2. NoConversation \in Nat \X Nat
        BY DEF NoConversation
      <3>3. engine' \in Adapter
        BY <1>5, <3>2 DEF HandleShutdown, WorldShape, Adapter
      <3>4. QED
        BY <1>5, <3>1, <3>3 DEF HandleShutdown, WorldShape
    <2>6. QED
      BY <1>5, <2>2, <2>3, <2>4, <2>5, Frames DEF HandleShutdown
  <1>6. CASE ShutdownCleanupFails
    <2>1. InboxShape'
      BY <1>1, <1>6 DEF ShutdownCleanupFails, Receive, InboxShape
    <2>2. QED
      BY <1>6, <2>1, Raising DEF ShutdownCleanupFails, Causes
  <1>7. QED
    BY <1>2, <1>3, <1>4, <1>5, <1>6

\* _try_progress: a wait, a change of state or one more task.
LEMMA ProgressWaitingShape ==
    ASSUME Shape, ProgressConverging \/ ProgressWaits \/ ProgressStop
    PROVE  Shape'
  <1> USE DEF Shape
  <1>1. flow.at \notin {"stopped", "dead"} /\ InboxShape'
    BY Frames DEF ProgressConverging, ProgressWaits, ProgressStop, Progress
  <1>2. CASE ProgressConverging
    BY <1>1, <1>2, Frames, Calling DEF ProgressConverging, Methods
  <1>3. CASE ProgressWaits
    BY <1>1, <1>3, Frames, Returns DEF ProgressWaits
  <1>4. CASE ProgressStop
    <2>1. CASE Raise("assertion")
      BY <1>1, <2>1, Raising DEF Causes
    <2>2. CASE flow' = [at |-> "stopped", why |-> "none", back |-> "none"]
               /\ UNCHANGED <<manager, tasks, flags, world>>
      <3>1. FlowShape'
        BY <2>2 DEF FlowShape, Places, Methods, Whys
      <3>2. QED
        BY <1>1, <2>2, <3>1, Frames
    <2>3. QED
      BY <1>4, <2>1, <2>2 DEF ProgressStop
  <1>5. QED
    BY <1>2, <1>3, <1>4

\* Progress up to the answer of the reasoner keeps the shape.
LEMMA ProgressThinkingShape ==
    ASSUME Shape, ProgressToPerception \/ ProgressHeard \/ ProgressThought
    PROVE  Shape'
  <1> USE DEF Shape
  <1>1. flow.at \notin {"stopped", "dead"} /\ InboxShape' /\ TasksShape' /\ Progress
    BY Frames DEF ProgressToPerception, ProgressHeard, ProgressThought, MayProgress,
                  Progress
  <1>2. CASE ProgressToPerception
    <2>1. session' \in Context
      BY <1>2 DEF ProgressToPerception, ManagerShape, Context
    <2>2. ManagerShape'
      BY <1>2, <2>1 DEF ProgressToPerception, ManagerShape, States
    <2>3. QED
      BY <1>1, <1>2, <2>2, Frames, Calling DEF ProgressToPerception, Methods
  <1>3. CASE ProgressHeard
    <2> DEFINE silent == <<"listen", "silent">> \in session.results
               answer == LocalAnswer(IF silent THEN "silent" ELSE "several", session.streak)
    <2>1. answer \in Response
      BY DEF LocalAnswer, Response, ActionKinds, Routes, PerceptionKinds
    <2>2. FlagsShape' /\ WorldShape'
      BY <1>3 DEF ProgressHeard, FlagsShape, WorldShape
    <2>3. CASE Locally
      <3>1. /\ session' = [session EXCEPT !.resp = answer, !.route = answer.route,
                               !.next = answer.next,
                               !.streak = IF silent THEN @ + 1 ELSE @]
            /\ state' = "ACTION" /\ Call("action", "none") /\ UNCHANGED pending
        BY <1>3, <2>3 DEF ProgressHeard
      <3> HIDE DEF answer, silent
      <3>2. answer.route \in Routes /\ answer.next \subseteq PerceptionKinds
        BY <2>1 DEF Response
      <3>3. (IF silent THEN session.streak + 1 ELSE session.streak) \in Nat
        BY DEF ManagerShape, Context
      <3>4. session' \in Context /\ (session').resp = answer
        BY <2>1, <3>1, <3>2, <3>3 DEF ManagerShape, Context
      <3>5. ManagerShape'
        BY <3>1, <3>4 DEF ManagerShape, States
      <3>6. QED
        BY <1>1, <2>1, <2>2, <3>1, <3>4, <3>5, Calling DEF Methods
    <2>4. CASE ~Locally
      <3>1. session' \in Context
        BY <1>3, <2>4 DEF ProgressHeard, ManagerShape, Context
      <3>2. ManagerShape'
        BY <1>3, <2>4, <3>1 DEF ProgressHeard, ManagerShape, States
      <3>3. QED
        BY <1>1, <1>3, <2>2, <2>4, <3>2, Calling DEF ProgressHeard, Methods
    <2>5. QED
      BY <2>3, <2>4
  <1>4. CASE ProgressThought
    <2>1. session.resp \in Response
      BY <1>4 DEF ProgressThought, ManagerShape, Context
    <2>2. session.resp.route \in Routes /\ session.resp.next \subseteq PerceptionKinds
      BY <2>1 DEF Response
    <2>3. session' \in Context /\ (session').resp = session.resp
      BY ZenonT(60), <1>4, <2>2 DEF ProgressThought, ManagerShape, Context
    <2>4. ManagerShape'
      BY <1>4, <2>3 DEF ProgressThought, ManagerShape, States
    <2>5. FlowShape'
      BY <1>1, <1>4, <2>1, <2>3, Calling DEF ProgressThought, Methods, Triggers
    <2>6. QED
      BY <1>1, <1>4, <2>4, <2>5, Frames DEF ProgressThought
  <1>5. QED
    BY <1>2, <1>3, <1>4

LEMMA ProgressActingShape ==
    ASSUME Shape, ProgressRest \/ ProgressEnd \/ ProgressReplace \/ ProgressKeep
    PROVE  Shape'
  <1> USE DEF Shape
  <1>1. flow.at \notin {"stopped", "dead"} /\ InboxShape'
    BY Frames DEF ProgressRest, ProgressEnd, ProgressReplace, ProgressKeep, Acted,
                  MayProgress, Progress
  <1>2. AfterAction \in Context /\ Selected \in SUBSET PerceptionKinds
    BY DEF AfterAction, Selected, ManagerShape, Context, PerceptionKinds
  <1>3. CASE ProgressRest
    <2>1. ManagerShape'
      BY <1>2, <1>3 DEF ProgressRest, ManagerShape
    <2>2. QED
      BY <1>1, <1>3, <2>1, Frames, Calling DEF ProgressRest, Methods, Triggers
  <1>4. CASE ProgressEnd
    <2>1. [kind |-> "rest", route |-> "END_SESSION", next |-> {}] \in Response
      BY DEF Response, ActionKinds, Routes
    <2>2. session' \in Context
      BY <1>2, <1>4, <2>1 DEF ProgressEnd, Context
    <2>3. ManagerShape'
      BY <1>4, <2>2 DEF ProgressEnd, ManagerShape
    <2>4. TasksShape'
      BY <1>4, Launched DEF ProgressEnd, Phases, Kinds
    <2>5. QED
      BY <1>1, <1>4, <2>3, <2>4, Frames, Returns DEF ProgressEnd
  <1>5. CASE ProgressReplace
    <2>1. session' \in Context
      BY <1>2, <1>5 DEF ProgressReplace, Context
    <2>2. ManagerShape'
      BY <1>5, <2>1 DEF ProgressReplace, ManagerShape
    <2>3. TasksShape'
      BY <1>5, Launched DEF ProgressReplace, Phases, Kinds
    <2>4. QED
      BY <1>1, <1>5, <2>2, <2>3, Frames, Returns DEF ProgressReplace
  <1>6. CASE ProgressKeep
    <2>1. session' \in Context
      BY <1>2, <1>6 DEF ProgressKeep, Context
    <2>2. ManagerShape'
      BY <1>6, <2>1 DEF ProgressKeep, ManagerShape, States
    <2>3. QED
      BY <1>1, <1>6, <2>2, Frames, Calling DEF ProgressKeep, Methods
  <1>7. QED
    BY <1>3, <1>4, <1>5, <1>6

\* The tasks of a turn, and the next one.
Starts == {[Record(cids + n, "perception", kind) EXCEPT !.turn = NextTurn] :
               n \in {1, 2}, kind \in PerceptionKinds}

\* The workers a turn of perception may start are records, and finitely many.
LEMMA StartsAreInFlight ==
    ASSUME Shape
    PROVE  Starts \subseteq InFlight /\ IsFiniteSet(Starts)
  <1>1. cids \in Nat /\ session.id \in Nat /\ session.turn \in Nat /\ NextTurn \in Nat
    BY DEF Shape, TasksShape, ManagerShape, Context, NextTurn
  <1>2. \A n \in {1, 2}, kind \in PerceptionKinds :
            [Record(cids + n, "perception", kind) EXCEPT !.turn = NextTurn] \in InFlight
    <2> TAKE n \in {1, 2}, kind \in PerceptionKinds
    <2> DEFINE record == Record(cids + n, "perception", kind)
    <2>1. record \in InFlight
      BY <1>1 DEF Record, InFlight, TaskStates, Phases, Kinds, PerceptionKinds
    <2> HIDE DEF record
    <2>2. [record EXCEPT !.turn = NextTurn] \in InFlight
      BY <1>1, <2>1 DEF InFlight
    <2>3. QED
      BY <2>2 DEF record
  <1> DEFINE S(n, kind) == [Record(cids + n, "perception", kind) EXCEPT !.turn = NextTurn]
  <1>3. Starts = {S(1, "listen"), S(1, "read"), S(2, "listen"), S(2, "read")}
    <2>1. Starts = {S(n, kind) : n \in {1, 2}, kind \in {"listen", "read"}}
      BY DEF Starts, PerceptionKinds
    <2> HIDE DEF S
    <2>2. QED
      BY <2>1
  <1>4. IsFiniteSet({S(1, "listen"), S(1, "read"), S(2, "listen"), S(2, "read")})
    <2> HIDE DEF S
    <2>1. IsFiniteSet({S(1, "listen")})
      BY FS_Singleton
    <2>2. IsFiniteSet({S(1, "listen")} \cup {S(1, "read")})
      BY <2>1, FS_AddElement
    <2>3. IsFiniteSet({S(1, "listen")} \cup {S(1, "read")} \cup {S(2, "listen")})
      BY <2>2, FS_AddElement
    <2>4. IsFiniteSet({S(1, "listen")} \cup {S(1, "read")} \cup {S(2, "listen")}
                        \cup {S(2, "read")})
      BY <2>3, FS_AddElement
    <2>5. {S(1, "listen")} \cup {S(1, "read")} \cup {S(2, "listen")} \cup {S(2, "read")}
            = {S(1, "listen"), S(1, "read"), S(2, "listen"), S(2, "read")}
      OBVIOUS
    <2>6. QED
      BY <2>4, <2>5
  <1>5. QED
    BY <1>2, <1>3, <1>4 DEF Starts

\* How many senses a turn has.
LEMMA SensesCounted ==
    ASSUME NEW sel \in SUBSET PerceptionKinds
    PROVE  /\ IsFiniteSet(sel) /\ Cardinality(sel) \in 0 .. 2
           /\ sel = PerceptionKinds => Cardinality(sel) = 2
           /\ sel # {} => Cardinality(sel) >= 1
  <1>1. IsFiniteSet({"listen"}) /\ Cardinality({"listen"}) = 1
    BY FS_Singleton
  <1>2. IsFiniteSet({"listen"} \cup {"read"}) /\ Cardinality({"listen"} \cup {"read"}) = 2
    BY <1>1, FS_AddElement
  <1>3. PerceptionKinds = {"listen"} \cup {"read"}
    BY DEF PerceptionKinds
  <1>4. IsFiniteSet(PerceptionKinds) /\ Cardinality(PerceptionKinds) = 2
    BY <1>2, <1>3
  <1>5. IsFiniteSet(sel) /\ Cardinality(sel) \in Nat /\ Cardinality(sel) <= 2
        /\ (Cardinality(sel) = 0 => sel = {})
    BY <1>4, FS_Subset, FS_CardinalityType, FS_EmptySet
  <1>6. QED
    BY <1>4, <1>5

\* The entry of a state keeps the shape.
LEMMA EnterShape ==
    ASSUME Shape, EnterPerception \/ EnterThink \/ EnterAction
    PROVE  Shape'
  <1> USE DEF Shape
  <1>1. flow.at \notin {"stopped", "dead"} /\ InboxShape'
    BY Frames DEF EnterPerception, EnterThink, EnterAction
  <1>2. CASE EnterPerception
    <2>1. NextTurn \in Nat
      BY DEF ManagerShape, Context, NextTurn
    <2>2. session' \in Context
      BY <1>2, <2>1 DEF EnterPerception, ManagerShape, Context, NoResponse
    <2>3. ManagerShape' /\ FlagsShape' /\ WorldShape'
      BY <1>2, <2>1, <2>2 DEF EnterPerception, ManagerShape, States, FlagsShape, WorldShape
    <2>4. FlowShape'
      BY <1>1, <1>2, Returns, Calling DEF EnterPerception, Methods, Triggers
    <2>5. TasksShape'
      <3>1. CASE UNCHANGED tasks
        BY <3>1, Frames
      <3>2. CASE /\ \E new \in SUBSET Starts : inflight' = inflight \cup new
                 /\ cids' = cids + Cardinality(session.sel)
        <4>1. cids' \in Nat
          BY <3>2, SensesCounted DEF ManagerShape, Context, TasksShape
        <4>2. inflight' \subseteq InFlight /\ IsFiniteSet(inflight')
          BY <3>2, StartsAreInFlight, FS_Subset, FS_Union DEF TasksShape
        <4>3. QED
          BY <4>1, <4>2 DEF TasksShape
      <3>3. session.sel \subseteq PerceptionKinds
        BY DEF ManagerShape, Context
      <3> DEFINE Start(kind, cid) == [Record(cid, "perception", kind) EXCEPT !.turn = NextTurn]
                 new == IF session.sel = PerceptionKinds
                        THEN {Start("listen", cids + 1), Start("read", cids + 2)}
                        ELSE {Start(kind, cids + 1) : kind \in session.sel}
      <3>4. new \subseteq Starts
        <4>1. \A n \in {1, 2}, kind \in PerceptionKinds : Start(kind, cids + n) \in Starts
          BY DEF Starts
        <4> HIDE DEF Start
        <4>2. QED
          BY <3>3, <4>1 DEF PerceptionKinds
      <3>5. \/ UNCHANGED tasks
            \/ inflight' = inflight \cup new /\ cids' = cids + Cardinality(session.sel)
        BY <1>2 DEF EnterPerception
      <3> HIDE DEF new
      <3>6. QED
        BY <3>1, <3>2, <3>4, <3>5
    <2>6. QED
      BY <1>1, <2>3, <2>4, <2>5
  <1>3. CASE EnterThink
    <2>1. CASE Raise("invariant")
      BY <1>1, <2>1, Raising DEF Causes
    <2>2. CASE ~(session.conv # "ready" \/ session.blocked)
      <3>1. ManagerShape'
        BY <1>3, <2>2 DEF EnterThink, ManagerShape, Context
      <3>2. TasksShape'
        BY <1>3, <2>2, Launched DEF EnterThink, Phases, Kinds
      <3>3. QED
        BY <1>1, <1>3, <2>2, <3>1, <3>2, Frames, Returns DEF EnterThink
    <2>3. QED
      BY <1>3, <2>1, <2>2 DEF EnterThink
  <1>4. CASE EnterAction
    <2>1. session.resp.kind \in Kinds
      BY <1>4 DEF EnterAction, FlowShape, Response, Kinds, ActionKinds
    <2>2. ManagerShape'
      BY <1>4 DEF EnterAction, ManagerShape, Context
    <2>3. TasksShape'
      BY <1>4, <2>1, Launched DEF EnterAction, Phases
    <2>4. QED
      BY <1>1, <1>4, <2>2, <2>3, Frames, Returns DEF EnterAction
  <1>5. QED
    BY <1>2, <1>3, <1>4

-----------------------------------------------------------------------------
(* The pieces of converge().                                               *)

\* The notices of a set of tasks are theirs, one for each.
LEMMA CompletionsAre ==
    ASSUME Shape, Numbered, NEW R, R \subseteq inflight
    PROVE  /\ Completions(R) \in Seq(Notices)
           /\ \A i \in DOMAIN Completions(R) : \E r \in R : Completions(R)[i] = Completed(r)
           /\ \A r \in R : \E i \in DOMAIN Completions(R) : Completions(R)[i] = Completed(r)
  <1> DEFINE C == {r.cid : r \in R}
             order == InOrder(C)
  <1>1. R \subseteq InFlight /\ IsFiniteSet(R)
    BY FS_Subset DEF Shape, TasksShape
  <1>2. C \subseteq Nat
    BY <1>1 DEF InFlight
  <1>3. IsFiniteSet(C)
    <2> DEFINE f == [r \in R |-> r.cid]
    <2>1. f \in Surjection(R, C)
      BY DEF Surjection
    <2> HIDE DEF C, f
    <2>2. QED
      BY <1>1, <2>1, FS_Surjection
  <1>4. \A r \in R : The(r.cid) = r
    BY Found DEF Numbered, Has
  <1>5. /\ order \in Seq(C) /\ DOMAIN order = 1 .. Cardinality(C) /\ Cardinality(C) \in Nat
        /\ \A c \in C : \E i \in DOMAIN order : order[i] = c
    <2> HIDE DEF C
    <2>1. QED
      BY <1>2, <1>3, InOrderLists
  <1>6. Completions(R) = [i \in DOMAIN order |-> Completed(The(order[i]))]
    BY DEF Completions
  <1>7. \A i \in DOMAIN order : order[i] \in C
    <2> HIDE DEF C, order
    <2>1. QED
      BY <1>5
  <1>8. \A i \in DOMAIN order : \E r \in R : order[i] = r.cid /\ The(order[i]) = r
    BY <1>4, <1>7
  <1> DEFINE list == Completions(R)
  <1>9. DOMAIN list = DOMAIN order
        /\ \A i \in DOMAIN list : \E r \in R : list[i] = Completed(r)
    <2> HIDE DEF order
    <2>1. QED
      BY <1>6, <1>8
  <1>10. \A r \in R : \E i \in DOMAIN list : list[i] = Completed(r)
    <2> TAKE r \in R
    <2>1. PICK i \in DOMAIN order : order[i] = r.cid
      BY <1>5
    <2>2. list[i] = Completed(r)
      <3> HIDE DEF order
      <3>1. QED
        BY <1>4, <1>6, <2>1
    <2>3. QED
      BY <1>9, <2>1, <2>2
  <1>11. list \in Seq(Notices)
    <2>1. \A r \in R : Completed(r) \in Notices
      BY <1>1 DEF Completed, Notices, InFlight
    <2>2. \A i \in DOMAIN list : list[i] \in Notices
      BY <1>9, <2>1
    <2>3. list = [i \in 1 .. Cardinality(C) |-> list[i]]
      <3> HIDE DEF order, C
      <3>1. QED
        BY <1>5, <1>6, <1>9
    <2>4. list \in [1 .. Cardinality(C) -> Notices]
      <3> HIDE DEF list, C, order
      <3>1. QED
        BY <1>5, <1>9, <2>2, <2>3
    <2> HIDE DEF list, C
    <2>5. QED
      BY <1>5, <2>4
  <1>12. QED
    BY <1>9, <1>10, <1>11

\* What may become of the tasks in flight, and what it costs.
LEMMA EnduredIs ==
    ASSUME Shape, NEW e \in Endured
    PROVE  /\ \A r \in Targets : e[r] \in Ending(r) /\ e[r] \in Endings
           /\ \A r \in inflight : Converged(r, e) \in InFlight
           /\ Spent(e) \in [Inputs -> Nat] /\ Destroyed(e) \subseteq Keys
           /\ RecordsAfter(e) \subseteq InFlight /\ IsFiniteSet(RecordsAfter(e))
           /\ Kept(e) \subseteq InFlight /\ IsFiniteSet(Kept(e))
           /\ ConversationAfter(e) \in Adapter
  <1> USE DEF Shape
  <1>1. e \in [Targets -> Endings] /\ \A r \in Targets : e[r] \in Ending(r)
    BY DEF Endured
  <1>2. \A r \in Targets : e[r] \in Ending(r) /\ e[r] \in Endings
    BY <1>1
  <1>3. \A r \in inflight : Converged(r, e) \in InFlight
    <2> TAKE r \in inflight
    <2>1. r \in InFlight
      BY DEF TasksShape
    <2>2. Ended(r, e) \in InFlight
      <3>1. CASE r \in Targets
        <4>1. TaskAfter(r, e[r]) \in TaskStates
          BY <1>2, <2>1, <3>1 DEF TaskAfter, TaskStates, Endings, InFlight
        <4>2. QED
          BY <2>1, <3>1, <4>1 DEF Ended, InFlight, Private
      <3>2. CASE r \notin Targets
        BY <2>1, <3>2 DEF Ended
      <3>3. QED
        BY <3>1, <3>2
    <2>3. QED
      BY <2>2 DEF Converged, InFlight
  <1>4. Spent(e) \in [Inputs -> Nat]
    <2> DEFINE cost == Cardinality({r \in Targets : Costs(r, e)})
    <2>1. cost \in Nat
      BY FS_CardinalityType, FS_Subset DEF TasksShape, Targets
    <2>2. cost <= budget["destroy"]
      BY DEF Endured
    <2>3. "destroy" \in Inputs
      BY DEF Inputs
    <2> HIDE DEF cost
    <2>4. budget["destroy"] - cost \in Nat
      BY <2>1, <2>2, <2>3 DEF WorldShape
    <2>5. Spent(e) = [budget EXCEPT !["destroy"] = @ - cost]
      BY DEF Spent, cost
    <2>6. QED
      BY <2>4, <2>5 DEF WorldShape
  <1>5. Destroyed(e) \subseteq Keys
    BY DEF Destroyed, Key, Keys
  <1>6. RecordsAfter(e) \subseteq InFlight
    BY <1>3 DEF RecordsAfter
  <1>7. IsFiniteSet(RecordsAfter(e))
    <2> DEFINE f == [r \in inflight |-> Converged(r, e)]
    <2>1. f \in Surjection(inflight, RecordsAfter(e))
      BY DEF Surjection, RecordsAfter
    <2> HIDE DEF f
    <2>2. QED
      BY <2>1, FS_Surjection DEF TasksShape
  <1>8. Kept(e) \subseteq InFlight /\ IsFiniteSet(Kept(e))
    BY <1>6, <1>7, FS_Subset DEF Kept
  <1>9. ConversationAfter(e) \in Adapter
    <2>1. NoConversation \in Nat \X Nat /\ Ours \in Nat \X Nat
      BY DEF NoConversation, Ours, ManagerShape, Context
    <2>2. QED
      BY <2>1 DEF ConversationAfter, WorldShape, Adapter
  <1>10. QED
    BY <1>2, <1>3, <1>4, <1>5, <1>6, <1>7, <1>8, <1>9

\* The session that converges admits no work.
LEMMA BlockedIsContext ==
    ASSUME Shape
    PROVE  /\ [session EXCEPT !.blocked = TRUE] \in Context
           /\ [session EXCEPT !.blocked = TRUE].blocked = TRUE
           /\ [session EXCEPT !.blocked = TRUE].resp = session.resp
  BY DEF Shape, ManagerShape, Context

\* A convergence begins, is taken over by a shutdown, or meets a second error.
LEMMA ConvergeShape ==
    ASSUME Shape, Numbered,
           ConvergeAgain \/ LifecycleError
              \/ \E e \in Endured : Converge(e) \/ ConvergeToShutdown(e)
                                       \/ LifecycleErrorConverging(e)
    PROVE  Shape'
  <1> USE DEF Shape
  <1>1. flow.at \notin {"stopped", "dead"}
    BY DEF ConvergeAgain, LifecycleError, Converge, ConvergeToShutdown,
           LifecycleErrorConverging
  <1>2. ASSUME NEW e \in Endured, inbox' = inbox \o NewCompletions(e)
        PROVE  InboxShape'
    <2>1. NewCompletions(e) \in Seq(Notices)
      BY CompletionsAre DEF NewCompletions, Targets
    <2>2. NewCompletions(e) \in Seq(Items)
      BY <2>1 DEF Items
    <2>3. QED
      BY <1>2, <2>2, Joined DEF InboxShape
  <1>3. CASE ConvergeAgain
    <2>1. ManagerShape'
      BY <1>3, BlockedIsContext DEF ConvergeAgain, ManagerShape
    <2>2. FlagsShape'
      BY <1>3 DEF ConvergeAgain, FlagsShape
    <2>3. QED
      BY <1>1, <1>3, <2>1, <2>2, Frames, Returns DEF ConvergeAgain
  <1>4. CASE LifecycleError
    <2>1. ManagerShape'
      BY <1>4 DEF LifecycleError, ManagerShape, States
    <2>2. FlowShape'
      BY SMTT(60), <1>1, <1>4, Returns, Calling DEF LifecycleError, Methods, Triggers
    <2>3. QED
      BY <1>4, <2>1, <2>2, Frames DEF LifecycleError
  <1>5. ASSUME NEW e \in Endured, Converge(e)
        PROVE  Shape'
    <2> DEFINE destroyed == Destroyed(e)
               declared == IF flow.why = "error" THEN faultKeys ELSE {}
               keys == destroyed \cup declared
               recover == keys # {} /\ flow.why # "shutdown"
    <2>1. CASE inbox' = inbox /\ \E cause \in Causes : Raise(cause)
      BY <2>1, Raising, Frames
    <2>2. CASE ~ (inbox' = inbox /\ \E cause \in Causes : Raise(cause))
      <3>1. /\ session' = IF session = NoContext THEN session
                          ELSE [session EXCEPT !.blocked = TRUE]
            /\ inflight' = Kept(e) /\ inbox' = inbox \o NewCompletions(e)
            /\ engine' = ConversationAfter(e) /\ budget' = Spent(e)
            /\ pending' = [NotPending EXCEPT
                    !.trigger = flow.why,
                    !.policy = IF flow.why = "rest" THEN "flush_to_wake" ELSE "discard",
                    !.asr = flow.why = "error" /\ asrNotice,
                    !.ticket = IF recover THEN rm.ticket + 1 ELSE 0,
                    !.phase = IF recover /\ "llm" \in keys THEN "recovery" ELSE "workers"]
            /\ IF recover
               THEN rm' = Recovery(keys) /\ waiter' = rm.ticket + 1 /\ state' = "ERROR"
               ELSE UNCHANGED <<rm, waiter, state>>
            /\ timer' = 0 /\ asrNotice' = FALSE /\ faultKeys' = {}
            /\ Call("finish", "none")
            /\ UNCHANGED <<cids, readOpen, shutting, begun, scenario, accepted, mic>>
        BY ZenonT(60), <1>5, <2>2 DEF Converge, Causes
      <3>2. flow.why \in Triggers /\ keys \subseteq Keys /\ rm.ticket + 1 \in Nat
        <4>1. flow.at = "converge"
          BY <1>5 DEF Converge
        <4>2. Destroyed(e) \subseteq Keys
          BY EnduredIs
        <4>3. QED
          BY <4>1, <4>2 DEF FlowShape, FlagsShape, WorldShape, Resources
      <3> DEFINE asks == flow.why = "error" /\ asrNotice
                 ticket == IF recover THEN rm.ticket + 1 ELSE 0
                 phase == IF recover /\ "llm" \in keys THEN "recovery" ELSE "workers"
      <3>3. asks \in BOOLEAN /\ ticket \in Nat /\ phase \in {"recovery", "workers"}
        BY <3>2
      <3>4. pending' \in Pending
        <4>1. pending' = [trigger |-> flow.why,
                          policy |-> IF flow.why = "rest" THEN "flush_to_wake" ELSE "discard",
                          ticket |-> ticket, phase |-> phase, proof |-> FALSE,
                          planned |-> FALSE, asr |-> asks, noticed |-> FALSE]
          <5> HIDE DEF asks, ticket, phase
          <5>1. pending' = [NotPending EXCEPT
                    !.trigger = flow.why,
                    !.policy = IF flow.why = "rest" THEN "flush_to_wake" ELSE "discard",
                    !.asr = asks, !.ticket = ticket, !.phase = phase]
            BY <3>1 DEF asks, ticket, phase
          <5>2. QED
            BY <5>1 DEF NotPending
        <4> HIDE DEF asks, ticket, phase
        <4>2. QED
          BY <3>2, <3>3, <4>1 DEF Pending
      <3> HIDE DEF keys, recover
      <3>5. ManagerShape'
        BY <3>1, <3>4, BlockedIsContext DEF ManagerShape, States
      <3>6. rm' \in Resources
        <4>1. Recovery(keys) \in Resources
          BY <3>2 DEF Recovery, Resources
        <4>2. rm' \in {rm, Recovery(keys)}
          BY <3>1
        <4>3. QED
          BY <4>1, <4>2 DEF WorldShape
      <3>7. WorldShape'
        BY <3>1, <3>6, EnduredIs DEF WorldShape
      <3>8. FlagsShape'
        BY <3>1, <3>2 DEF FlagsShape
      <3>9. TasksShape'
        BY <3>1, EnduredIs DEF TasksShape
      <3>10. FlowShape'
        BY <1>1, <3>1, Calling DEF Methods
      <3>11. QED
        BY SMTT(60), <1>2, <3>1, <3>5, <3>7, <3>8, <3>9, <3>10
    <2>3. QED
      BY <1>5, <2>1, <2>2 DEF Converge, Causes
  <1>6. ASSUME NEW e \in Endured, ConvergeToShutdown(e)
        PROVE  Shape'
    <2>1. CASE Lost(e)
      BY <1>6, <2>1, Raising, Frames DEF ConvergeToShutdown, Causes
    <2>2. CASE ~Lost(e)
      <3>1. ManagerShape'
        <4>1. pending' \in Pending
          <5>1. pending' = [pending EXCEPT !.trigger = "shutdown", !.policy = "discard",
                                           !.ticket = 0]
            BY <1>6, <2>2 DEF ConvergeToShutdown
          <5>2. QED
            BY <5>1 DEF ManagerShape, Pending, Triggers
        <4>2. session' \in {session, [session EXCEPT !.blocked = TRUE]} /\ state' = state
          BY <1>6, <2>2 DEF ConvergeToShutdown
        <4>3. QED
          BY <4>1, <4>2, BlockedIsContext DEF ManagerShape
      <3>2. WorldShape'
        BY <1>6, <2>2, EnduredIs DEF ConvergeToShutdown, WorldShape
      <3>3. FlagsShape'
        BY <1>6, <2>2 DEF ConvergeToShutdown, FlagsShape
      <3>4. TasksShape'
        BY <1>6, <2>2, EnduredIs DEF ConvergeToShutdown, TasksShape
      <3>5. FlowShape'
        BY <1>1, <1>6, <2>2, Returns DEF ConvergeToShutdown
      <3>6. InboxShape'
        BY SMTT(60), <1>2, <1>6, <2>2 DEF ConvergeToShutdown
      <3>7. QED
        BY <3>1, <3>2, <3>3, <3>4, <3>5, <3>6
    <2>3. QED
      BY <2>1, <2>2
  <1>7. ASSUME NEW e \in Endured, LifecycleErrorConverging(e)
        PROVE  Shape'
    <2>1. CASE inbox' = inbox /\ \E cause \in Causes : Raise(cause)
      BY <2>1, Raising, Frames
    <2>2. CASE ~ (inbox' = inbox /\ \E cause \in Causes : Raise(cause))
      <3> DEFINE toShutdown == pending.trigger = "shutdown"
                 recover == Destroyed(e) # {} /\ ~toShutdown
      <3>1. /\ pending' = [pending EXCEPT
                    !.trigger = IF toShutdown THEN @ ELSE "error",
                    !.policy = IF toShutdown THEN @ ELSE "discard",
                    !.phase = "recovery",
                    !.ticket = IF recover THEN rm.ticket + 1 ELSE @]
            /\ inflight' = Kept(e) /\ inbox' = inbox \o NewCompletions(e)
            /\ engine' = ConversationAfter(e) /\ budget' = Spent(e)
            /\ IF recover THEN rm' = Recovery(Destroyed(e)) /\ waiter' = rm.ticket + 1
               ELSE UNCHANGED <<rm, waiter>>
            /\ IF state = "ERROR" THEN UNCHANGED <<state, session, timer>>
               ELSE /\ state' = "ERROR" /\ timer' = 0
                    /\ session' = [session EXCEPT !.blocked = TRUE]
            /\ Return
            /\ UNCHANGED <<cids, readOpen, faultKeys, asrNotice, shutting, begun, scenario,
                           accepted, mic>>
        BY <1>7, <2>2 DEF LifecycleErrorConverging, Causes
      <3>2. Destroyed(e) \subseteq Keys /\ rm.ticket + 1 \in Nat
        BY EnduredIs DEF WorldShape, Resources
      <3> HIDE DEF toShutdown, recover
      <3>3. pending' \in Pending
        BY ZenonT(60), <3>1, <3>2 DEF ManagerShape, Pending, Triggers
      <3>4. ManagerShape'
        BY <3>1, <3>3, BlockedIsContext DEF ManagerShape, States
      <3>5. rm' \in Resources
        <4>1. Recovery(Destroyed(e)) \in Resources
          BY <3>2 DEF Recovery, Resources
        <4>2. rm' \in {rm, Recovery(Destroyed(e))}
          BY <3>1
        <4>3. QED
          BY <4>1, <4>2 DEF WorldShape
      <3>6. WorldShape'
        BY <3>1, <3>5, EnduredIs DEF WorldShape
      <3>7. FlagsShape'
        BY <3>1, <3>2 DEF FlagsShape
      <3>8. TasksShape'
        BY <3>1, EnduredIs DEF TasksShape
      <3>9. FlowShape'
        BY <1>1, <3>1, Returns
      <3>10. QED
        BY SMTT(60), <1>2, <3>1, <3>4, <3>6, <3>7, <3>8, <3>9
    <2>3. QED
      BY <1>7, <2>1, <2>2 DEF LifecycleErrorConverging, Causes
  <1>8. QED
    BY SMTT(60), <1>3, <1>4, <1>5, <1>6, <1>7

-----------------------------------------------------------------------------
(* The end of a convergence keeps the shape.                               *)

\* The signals of the messages of a buffer are signals, one for each.
LEMMA SignalsAre ==
    ASSUME NEW b
    PROVE  /\ Signals(Present(b)) \in Seq(Arrivals)
           /\ \A i \in DOMAIN Signals(Present(b)) :
                 \E m \in Present(b) : Signals(Present(b))[i] = MessageArrived(m)
           /\ \A m \in Present(b) :
                 \E i \in DOMAIN Signals(Present(b)) : Signals(Present(b))[i] = MessageArrived(m)
  <1> DEFINE S == Present(b)
             order == InOrder(S)
             list == Signals(S)
  <1>1. S \subseteq Nat /\ IsFiniteSet(S)
    <2>1. S \subseteq 1 .. MaxMessages
      BY DEF Present, Messages
    <2>2. IsFiniteSet(1 .. MaxMessages) /\ 1 .. MaxMessages \subseteq Nat
      BY OpsAssumption, FS_Interval
    <2> HIDE DEF S
    <2>3. QED
      BY <2>1, <2>2, FS_Subset
  <1> HIDE DEF S
  <1>2. /\ order \in Seq(S) /\ DOMAIN order = 1 .. Cardinality(S) /\ Cardinality(S) \in Nat
        /\ \A m \in S : \E i \in DOMAIN order : order[i] = m
    BY <1>1, InOrderLists
  <1>3. list = [i \in DOMAIN order |-> MessageArrived(order[i])]
    BY DEF Signals
  <1> HIDE DEF order, list
  <1>4. \A i \in DOMAIN order : order[i] \in S
    BY <1>2
  <1>5. DOMAIN list = 1 .. Cardinality(S)
        /\ \A i \in DOMAIN list : \E m \in S : list[i] = MessageArrived(m)
    BY <1>2, <1>3, <1>4
  <1>6. \A m \in S : \E i \in DOMAIN list : list[i] = MessageArrived(m)
    BY <1>2, <1>3
  <1>7. list \in Seq(Arrivals)
    <2>1. \A m \in S : MessageArrived(m) \in Arrivals
      BY <1>1 DEF MessageArrived, Arrivals
    <2>2. \A i \in DOMAIN list : list[i] \in Arrivals
      BY <1>5, <2>1
    <2>3. list = [i \in 1 .. Cardinality(S) |-> list[i]]
      BY <1>2, <1>3
    <2>4. list \in [1 .. Cardinality(S) -> Arrivals]
      BY <1>5, <2>2, <2>3
    <2>5. QED
      BY <1>2, <2>4
  <1>8. QED
    BY <1>5, <1>6, <1>7 DEF S, list

\* What is spent leaves a budget.
LEMMA Spending ==
    ASSUME WorldShape, NEW input \in Inputs, Spend(input)
    PROVE  budget' \in [Inputs -> Nat]
  <1>1. budget \in [Inputs -> Nat] /\ budget[input] - 1 \in Nat
    BY DEF WorldShape, Spend
  <1>2. budget' = [budget EXCEPT ![input] = budget[input] - 1]
    BY DEF Spend
  <1>3. QED
    BY <1>1, <1>2

\* What follows a convergence that is over keeps the shape.
LEMMA FinishShape ==
    ASSUME Shape,
           FinishLater \/ FinishClose \/ FinishRecycle \/ FinishAnnounce
              \/ FinishStop \/ FinishIdle
    PROVE  Shape'
  <1> USE DEF Shape
  <1>1. flow.at = "finish" /\ flow.at \notin {"stopped", "dead"}
    BY DEF FinishLater, FinishClose, FinishRecycle, FinishAnnounce, FinishStop,
           FinishIdle, FinishLast, FinishReady, Finishing
  <1>2. NoContext \in Context /\ NotPending \in Pending
    BY DEF NoContext, NoResponse, Context, Outcomes, NotPending, Pending
  <1>3. CASE FinishLater
    BY <1>1, <1>3, Frames, Returns DEF FinishLater
  <1>4. CASE FinishClose
    <2>1. session' \in Context
      BY <1>4 DEF FinishClose, ManagerShape, Context
    <2>2. pending' \in Pending
      BY <1>4 DEF FinishClose, ManagerShape, Pending
    <2>3. ManagerShape'
      BY <1>4, <2>1, <2>2 DEF FinishClose, ManagerShape
    <2>4. TasksShape'
      BY <1>4, Launched DEF FinishClose, Phases, Kinds
    <2>5. QED
      BY <1>1, <1>4, <2>3, <2>4, Frames, Returns DEF FinishClose
  <1>5. CASE FinishRecycle
    <2>1. CASE inbox' = inbox /\ \E cause \in Causes : Raise(cause)
      BY <2>1, Raising, Frames
    <2>2. CASE ~ (inbox' = inbox /\ \E cause \in Causes : Raise(cause))
      <3>1. /\ pending' = [pending EXCEPT !.planned = TRUE]
            /\ rm' = Recovery({"llm"}) /\ waiter' = rm.ticket + 1 /\ Return
            /\ UNCHANGED <<state, session, tasks, inbox, timer, readOpen, faultKeys,
                           asrNotice, shutting, begun, scenario, buf, accepted, engine, mic, budget>>
        BY <1>5, <2>2 DEF FinishRecycle, Causes
      <3>2. pending' \in Pending
        BY <3>1 DEF ManagerShape, Pending
      <3>3. rm.ticket + 1 \in Nat
        BY DEF WorldShape, Resources
      <3>4. Recovery({"llm"}) \in Resources
        BY <3>3 DEF Recovery, Resources, Keys
      <3>5. ManagerShape' /\ WorldShape' /\ FlagsShape'
        BY <3>1, <3>2, <3>3, <3>4 DEF ManagerShape, WorldShape, FlagsShape
      <3>6. QED
        BY <1>1, <3>1, <3>5, Frames, Returns
    <2>3. QED
      BY <2>1, <2>2
  <1>6. CASE FinishAnnounce
    <2>1. pending' \in Pending
      BY <1>6 DEF FinishAnnounce, ManagerShape, Pending
    <2>2. ManagerShape'
      BY <1>6, <2>1 DEF FinishAnnounce, ManagerShape
    <2>3. TasksShape'
      BY <1>6, Launched DEF FinishAnnounce, Phases, Kinds
    <2>4. QED
      BY <1>1, <1>6, <2>2, <2>3, Frames, Returns DEF FinishAnnounce
  <1>7. CASE FinishStop
    <2>1. CASE Raise("ownership")
      BY <1>7, <2>1, Raising, Frames DEF FinishStop, Causes
    <2>2. CASE ~CloseReadRaises
      <3>1. ManagerShape' /\ FlagsShape' /\ WorldShape'
        BY <1>2, <1>7, <2>2 DEF FinishStop, ManagerShape, FlagsShape, WorldShape
      <3>2. FlowShape'
        <4>1. flow' = [at |-> IF Back = "progress" THEN "progress" ELSE "stopped",
                       why |-> "stop", back |-> "none"]
          BY <1>7, <2>2 DEF FinishStop
        <4>2. QED
          BY <4>1 DEF FlowShape, Places, Methods, Whys
      <3>3. QED
        BY <1>7, <2>2, <3>1, <3>2, Frames DEF FinishStop
    <2>3. QED
      BY <1>7, <2>1, <2>2 DEF FinishStop
  <1>8. CASE FinishIdle
    <2>1. CASE Raise("ownership") /\ UNCHANGED inbox
      BY <2>1, Raising, Frames DEF Causes
    <2>2. CASE ~CloseReadRaises
      <3>1. ManagerShape' /\ FlagsShape'
        BY <1>2, <1>8, <2>2 DEF FinishIdle, ManagerShape, FlagsShape, States
      <3>2. mic' \in Microphone /\ budget' \in [Inputs -> Nat]
        <4>1. Resumed \in Microphone /\ [mic EXCEPT !.failed = TRUE] \in Microphone
          BY DEF Resumed, Microphone, WorldShape
        <4>2. mic' \in {mic, Resumed, [mic EXCEPT !.failed = TRUE]}
          BY <1>8, <2>2 DEF FinishIdle
        <4>3. UNCHANGED budget \/ Spend("mic")
          BY <1>8, <2>2 DEF FinishIdle
        <4>4. budget' \in [Inputs -> Nat]
          BY <4>3, Spending DEF WorldShape, Inputs
        <4>5. QED
          BY <4>1, <4>2, <4>4 DEF WorldShape
      <3>3. WorldShape'
        BY <1>8, <2>2, <3>2 DEF FinishIdle, WorldShape
      <3>4. InboxShape'
        <4>1. Signals(Present(ReadClosed)) \in Seq(Items)
          BY SignalsAre DEF Items
        <4>2. inbox' \in {inbox, inbox \o Signals(Present(ReadClosed))}
          BY <1>8, <2>2 DEF FinishIdle
        <4>3. QED
          BY <4>1, <4>2, Joined DEF InboxShape
      <3>5. FlowShape'
        BY <1>1, <1>8, <2>2, Returns DEF FinishIdle
      <3>6. QED
        BY <1>8, <2>2, <3>1, <3>3, <3>4, <3>5, Frames DEF FinishIdle
    <2>3. QED
      BY <1>8, <2>1, <2>2 DEF FinishIdle
  <1>9. QED
    BY <1>3, <1>4, <1>5, <1>6, <1>7, <1>8

-----------------------------------------------------------------------------
(* What happens while the dispatch loop waits keeps the shape.             *)

\* What is put into the inbox stays behind what is there.
LEMMA Putting ==
    ASSUME InboxShape, NEW x \in Items
    PROVE  /\ Put(<<x>>) => InboxShape'
           /\ \A y \in Items : Put(<<x, y>>) => InboxShape'
  <1>1. <<x>> \in Seq(Items) /\ \A y \in Items : <<x, y>> \in Seq(Items)
    OBVIOUS
  <1>2. QED
    BY <1>1, Joined DEF InboxShape, Put

\* The dispatch loop itself stands still.
LEMMA KeepShape ==
    ASSUME Shape, Keep
    PROVE  /\ ManagerShape' /\ FlowShape'
           /\ (timer = timer' \/ timer' = 0) => FlagsShape'
           /\ UNCHANGED inflight => TasksShape'
  <1> USE DEF Shape
  <1>1. ManagerShape' /\ UNCHANGED session
    BY Frames DEF Keep, manager
  <1>2. FlowShape'
    BY <1>1, Frames DEF Keep
  <1>3. (timer = timer' \/ timer' = 0) => FlagsShape'
    BY DEF Keep, FlagsShape
  <1>4. UNCHANGED inflight => TasksShape'
    BY DEF Keep, TasksShape
  <1>5. QED
    BY <1>1, <1>2, <1>3, <1>4

\* The tasks of the world: inputs, messages, the wake timer, the engine, a recovery.
LEMMA WorldStepShape ==
    ASSUME Shape, Signalled \/ Ingest \/ AckElapses \/ EngineDies \/ Recover
    PROVE  Shape'
  <1> USE DEF Shape
  <1>1. CASE Signalled
    <2>1. PICK type \in {"button", "wake", "interrupt", "shutdown", "error"} : Input(type)
      BY <1>1 DEF Signalled
    <2> DEFINE item == IF type = "error" THEN ErrorOccurred({}, FALSE) ELSE Signal(type)
    <2>2. item \in Items
      BY <2>1 DEF ErrorOccurred, Signal, Items, Errors, Calls
    <2>3. /\ Put(<<item>>) /\ Keep /\ Spend(type)
          /\ UNCHANGED <<inflight, timer, accepted, engine, rm, mic>>
      BY <2>1 DEF Input
    <2> HIDE DEF item
    <2>4. budget' \in [Inputs -> Nat]
      BY <2>3, Spending DEF Inputs
    <2>5. QED
      BY <2>2, <2>3, <2>4, Putting, KeepShape DEF WorldShape
  <1>2. CASE Ingest
    <2>1. MessageArrived(accepted + 1) \in Items /\ WorldShape'
      BY <1>2 DEF Ingest, MessageArrived, Items, Arrivals, WorldShape
    <2>2. QED
      BY <1>2, <2>1, Putting, KeepShape DEF Ingest
  <1>3. CASE AckElapses
    <2>1. [type |-> "ack", id |-> timer] \in Items
      BY DEF FlagsShape, Items, Acks
    <2>2. WorldShape'
      BY <1>3 DEF AckElapses, WorldShape
    <2>3. QED
      BY <1>3, <2>1, <2>2, Putting, KeepShape DEF AckElapses
  <1>4. CASE EngineDies
    <2>1. Broken \in Adapter
      BY DEF Broken, WorldShape, Adapter, NoConversation
    <2>2. budget' \in [Inputs -> Nat]
      BY <1>4, Spending DEF EngineDies, Inputs
    <2>3. WorldShape'
      BY <1>4, <2>1, <2>2 DEF EngineDies, WorldShape
    <2>4. QED
      BY <1>4, <2>3, Frames, KeepShape DEF EngineDies
  <1>5. CASE Recover
    <2>1. PICK how \in {"ok", "failed"} : RecoveryEnds(how)
      BY <1>5 DEF Recover
    <2> DEFINE item == [type |-> IF pending.planned THEN "planned" ELSE "recovered",
                        waiter |-> rm.ticket, how |-> how]
    <2>2. item \in Items
      BY <2>1 DEF WorldShape, Resources, Items, Recoveries
    <2>3. budget' \in [Inputs -> Nat]
      BY <2>1, Spending DEF RecoveryEnds, WorldShape, Inputs
    <2>4. rm' \in Resources
      BY <2>1 DEF RecoveryEnds, WorldShape, Resources
    <2>5. engine' \in Adapter
      BY <2>1 DEF RecoveryEnds, WorldShape, Adapter, NoConversation, ManagerShape, Pending
    <2>6. WorldShape' /\ Put(<<item>>) /\ Keep /\ UNCHANGED <<inflight, timer>>
      BY <2>1, <2>3, <2>4, <2>5 DEF RecoveryEnds, WorldShape
    <2> HIDE DEF item
    <2>7. QED
      BY <2>2, <2>6, Putting, KeepShape
  <1>6. QED
    BY <1>1, <1>2, <1>3, <1>4, <1>5

\* A worker publishes, returns, fails; a lifecycle operation ends.
LEMMA WorkShape ==
    ASSUME Shape, Numbered, Work
    PROVE  Shape'
  <1> USE DEF Shape
  <1>1. PICK r \in inflight :
            \/ PublishHeard(r) \/ PublishRead(r) \/ PublishThought(r) \/ PublishDone(r)
            \/ ReturnWorker(r) \/ OpenEnds(r) \/ CloseEnds(r)
            \/ \E keys \in {{}, Key(r)} : FaultWorker(r, keys)
    BY DEF Work
  <1>2. r \in InFlight /\ r.kind \in KindsOf(r.phase) /\ r.cid \in Nat /\ r.phase \in Phases
    BY DEF TasksShape, Numbered, InFlight
  <1>3. ASSUME NEW task \in TaskStates, inflight' = Update(r, [r EXCEPT !.task = task]),
               UNCHANGED cids
        PROVE  TasksShape'
    <2>1. [r EXCEPT !.task = task] \in InFlight
      BY <1>2 DEF InFlight
    <2>2. QED
      BY <1>3, <2>1, Updated DEF TasksShape
  <1>4. ASSUME NEW value \in Heards \cup Response \cup Outcomes, Publish(r, value), WorldShape'
        PROVE  Shape'
    <2>1. Fact(r, value) \in Items
      BY <1>2 DEF Fact, Items, Facts
    <2>2. TasksShape'
      BY <1>3, <1>4 DEF Publish, TaskStates, Keep
    <2>3. QED
      BY <1>4, <2>1, <2>2, Putting, KeepShape DEF Publish
  <1>5. Completed(r) \in Items
    BY <1>2 DEF Completed, Items, Notices
  <1>6. NoConversation \in Nat \X Nat /\ Ours \in Nat \X Nat
    BY DEF NoConversation, Ours, ManagerShape, Context
  <1>7. CASE PublishHeard(r)
    <2>1. WorldShape'
      BY <1>7 DEF PublishHeard, Publish, WorldShape
    <2>2. QED
      BY <1>4, <1>7, <2>1 DEF PublishHeard, Heards
  <1>8. CASE PublishRead(r)
    <2>1. WorldShape'
      BY <1>8 DEF PublishRead, Publish, WorldShape
    <2>2. QED
      BY <1>4, <1>8, <2>1 DEF PublishRead, Heards
  <1>9. CASE PublishThought(r)
    <2>1. WorldShape'
      <3>1. CASE UNCHANGED <<engine, budget>>
        BY <1>9, <3>1 DEF PublishThought, Publish, WorldShape
      <3>2. CASE Spend("deny") /\ engine' = [engine EXCEPT !.recycle = TRUE]
        <4>1. budget' \in [Inputs -> Nat]
          BY <3>2, Spending DEF Inputs
        <4>2. engine' \in Adapter
          BY <3>2 DEF WorldShape, Adapter
        <4>3. UNCHANGED <<rm, mic, accepted>>
          BY <1>9 DEF PublishThought, Publish
        <4>4. QED
          BY <4>1, <4>2, <4>3 DEF WorldShape
      <3>3. QED
        BY <1>9, <3>1, <3>2 DEF PublishThought
    <2>2. \A resp \in scenario.answers : resp \in Response
      BY ManagerAssumption DEF FlagsShape
    <2>3. [kind |-> "rest", route |-> "END_SESSION", next |-> {}] \in Response
      BY DEF Response, ActionKinds, Routes
    <2>4. QED
      BY <1>4, <1>9, <2>1, <2>2, <2>3 DEF PublishThought
  <1>10. CASE PublishDone(r)
    <2>1. WorldShape'
      <3>1. budget' \in [Inputs -> Nat]
        BY <1>10, Spending DEF PublishDone, WorldShape, Inputs
      <3>2. QED
        BY <1>10, <3>1 DEF PublishDone, Publish, WorldShape
    <2>2. QED
      BY <1>4, <1>10, <2>1 DEF PublishDone, Outcomes
  <1>11. CASE ReturnWorker(r)
    BY <1>3, <1>5, <1>11, Putting, KeepShape, Frames DEF ReturnWorker, TaskStates, Keep
  <1>12. ASSUME NEW how \in TaskStates, NEW eng \in Adapter, EndLifecycle(r, how, eng),
                UNCHANGED budget \/ \E input \in Inputs : Spend(input)
         PROVE  Shape'
    <2>1. WorldShape'
      <3>1. budget' \in [Inputs -> Nat]
        BY <1>12, Spending DEF WorldShape
      <3>2. QED
        BY <1>12, <3>1 DEF EndLifecycle, WorldShape
    <2>2. TasksShape'
      BY <1>3, <1>12 DEF EndLifecycle, Keep
    <2>3. QED
      BY <1>5, <1>12, <2>1, <2>2, Putting, KeepShape DEF EndLifecycle
  <1>13. engine \in Adapter /\ Broken \in Adapter /\ [engine EXCEPT !.conv = Ours] \in Adapter
         /\ [engine EXCEPT !.conv = NoConversation] \in Adapter
    BY <1>6 DEF Broken, WorldShape, Adapter
  <1>14. CASE OpenEnds(r)
    BY <1>12, <1>13, <1>14 DEF OpenEnds, TaskStates, Inputs
  <1>15. CASE CloseEnds(r)
    BY <1>12, <1>13, <1>15 DEF CloseEnds, TaskStates, Inputs
  <1>16. CASE \E keys \in {{}, Key(r)} : FaultWorker(r, keys)
    <2>1. PICK keys \in {{}, Key(r)} : FaultWorker(r, keys)
      BY <1>16
    <2>2. ErrorOccurred(keys, r.kind = "listen") \in Items
      BY DEF ErrorOccurred, Items, Errors, Key, Keys
    <2>3. WorldShape'
      <3>1. budget' \in [Inputs -> Nat]
        BY <2>1, Spending DEF FaultWorker, WorldShape, Inputs
      <3>2. engine' \in {engine, Broken}
        BY <2>1 DEF FaultWorker, Broken
      <3>3. QED
        BY <1>13, <2>1, <3>1, <3>2 DEF FaultWorker, WorldShape
    <2>4. TasksShape'
      BY <1>3, <2>1 DEF FaultWorker, Keep, TaskStates
    <2>5. QED
      BY <1>5, <2>1, <2>2, <2>3, <2>4, Putting, KeepShape DEF FaultWorker
  <1>17. QED
    BY <1>1, <1>7, <1>8, <1>9, <1>10, <1>11, <1>14, <1>15, <1>16

-----------------------------------------------------------------------------
(* A task keeps its number, a number its task.                             *)

\* What a step may do to the records: change or drop some, launch some.
TasksStep ==
    /\ cids' \in Nat /\ cids <= cids'
    /\ \A r \in inflight' :
          \/ \E q \in inflight : q.cid = r.cid /\ q.phase = r.phase /\ q.kind = r.kind
          \/ r.cid \in (cids + 1) .. cids' /\ r.kind \in KindsOf(r.phase)
    /\ \A r, q \in inflight' : r.cid = q.cid => r = q

\* What it may do to the inbox: drop items, put in what a task in flight says or
\* what is no task's.
Said(x) == \/ x.type \notin {"fact", "done", "lifecycle"}
           \/ \E r \in inflight : /\ x.cid = r.cid
                                  /\ x.type = "fact" => x.value \in ValuesOf(r.phase)
InboxStep ==
    \A i \in DOMAIN inbox' : (\E j \in DOMAIN inbox : inbox'[i] = inbox[j]) \/ Said(inbox'[i])

\* A step that launches no more than it counts and says only what its records say keeps
\* the numbers.
LEMMA NumberedSteps ==
    ASSUME Shape, Numbered, TasksStep, InboxStep
    PROVE  Numbered'
  <1>1. cids \in Nat /\ cids' \in Nat /\ cids <= cids'
    BY DEF Shape, TasksShape, TasksStep
  <1>2. \A r \in inflight' : r.cid \in 1 .. cids' /\ r.kind \in KindsOf(r.phase)
    BY <1>1 DEF Numbered, TasksStep
  <1>3. \A r, q \in inflight' : r.cid = q.cid => r = q
    BY DEF TasksStep
  <1>4. ASSUME NEW i \in DOMAIN inbox', inbox'[i].type \in {"fact", "done", "lifecycle"}
        PROVE  inbox'[i].cid \in 1 .. cids
    BY <1>4 DEF Numbered, InboxStep, Said
  <1>5. ASSUME NEW i \in DOMAIN inbox', inbox'[i].type = "fact",
               NEW r \in inflight', r.cid = inbox'[i].cid
        PROVE  inbox'[i].value \in ValuesOf(r.phase)
    <2>1. inbox'[i].cid \in 1 .. cids
      BY <1>4, <1>5
    <2>2. PICK q \in inflight : q.cid = r.cid /\ q.phase = r.phase
      BY <1>1, <1>5, <2>1 DEF TasksStep
    <2>3. QED
      BY <1>5, <2>2 DEF Numbered, InboxStep, Said
  <1>6. QED
    BY <1>1, <1>2, <1>3, <1>4, <1>5 DEF Numbered

\* The changes of the records that the actions make.
LEMMA TasksSteps ==
    ASSUME Shape, Numbered
    PROVE  /\ inflight' \subseteq inflight /\ cids' = cids => TasksStep
           /\ \A rest \in SUBSET inflight, phase \in Phases, kind \in Kinds :
                 kind \in KindsOf(phase) /\ Launch(rest, phase, kind) => TasksStep
           /\ \A r \in inflight, s \in InFlight :
                 /\ s.cid = r.cid /\ s.phase = r.phase /\ s.kind = r.kind
                 /\ inflight' = Update(r, s) /\ cids' = cids
                 => TasksStep
  <1>1. cids \in Nat /\ inflight \subseteq InFlight
    BY DEF Shape, TasksShape
  <1>2. inflight' \subseteq inflight /\ cids' = cids => TasksStep
    BY <1>1 DEF TasksStep, Numbered
  <1>3. ASSUME NEW rest \in SUBSET inflight, NEW phase \in Phases, NEW kind \in Kinds,
               kind \in KindsOf(phase), Launch(rest, phase, kind)
        PROVE  TasksStep
    <2> DEFINE new == Record(cids + 1, phase, kind)
    <2>1. new.cid = cids + 1 /\ new.phase = phase /\ new.kind = kind
      BY DEF Record
    <2>2. inflight' = rest \cup {new} /\ cids' = cids + 1
      BY <1>3 DEF Launch
    <2> HIDE DEF new
    <2>3. cids' \in Nat /\ cids <= cids' /\ cids + 1 \in (cids + 1) .. cids'
      BY <1>1, <2>2
    <2>4. \A r \in rest : r.cid # cids + 1
      BY <1>1 DEF Numbered
    <2>5. QED
      BY <1>3, <2>1, <2>2, <2>3, <2>4 DEF TasksStep, Numbered
  <1>4. ASSUME NEW r \in inflight, NEW s \in InFlight,
               s.cid = r.cid, s.phase = r.phase, s.kind = r.kind,
               inflight' = Update(r, s), cids' = cids
        PROVE  TasksStep
    BY <1>1, <1>4 DEF TasksStep, Numbered, Update
  <1>5. QED
    BY <1>2, <1>3, <1>4

\* The records that converge() leaves are those there were.
LEMMA ConvergedTasks ==
    ASSUME Shape, Numbered, NEW e \in Endured, inflight' \subseteq RecordsAfter(e), cids' = cids
    PROVE  TasksStep
  <1>1. cids \in Nat /\ inflight \subseteq InFlight
    BY DEF Shape, TasksShape
  <1>2. \A r \in inflight : /\ Converged(r, e).cid = r.cid /\ Converged(r, e).phase = r.phase
                            /\ Converged(r, e).kind = r.kind
    BY <1>1 DEF Converged, Ended, InFlight
  <1>3. QED
    BY <1>1, <1>2 DEF TasksStep, Numbered, RecordsAfter

\* What comes into the inbox.
LEMMA InboxSteps ==
    ASSUME Shape, Numbered
    PROVE  /\ inbox' = inbox => InboxStep
           /\ inbox # <<>> /\ inbox' = Tail(inbox) => InboxStep
           /\ \A x \in Items : Said(x) /\ Put(<<x>>) => InboxStep
           /\ \A x, y \in Items : Said(x) /\ Said(y) /\ Put(<<x, y>>) => InboxStep
           /\ \A R \in SUBSET inflight : inbox' = inbox \o Completions(R) => InboxStep
           /\ \A b : inbox' = inbox \o Signals(Present(b)) => InboxStep
  <1>1. inbox \in Seq(Items)
    BY DEF Shape, InboxShape
  <1>2. ASSUME NEW t \in Seq(Items), \A j \in DOMAIN t : Said(t[j]), inbox' = inbox \o t
        PROVE  InboxStep
    BY <1>1, <1>2, Joined DEF InboxStep
  <1>3. inbox' = inbox => InboxStep
    BY DEF InboxStep
  <1>4. inbox # <<>> /\ inbox' = Tail(inbox) => InboxStep
    BY <1>1, Taken DEF InboxStep
  <1>5. ASSUME NEW x \in Items, Said(x), Put(<<x>>)
        PROVE  InboxStep
    <2>1. <<x>> \in Seq(Items) /\ \A j \in DOMAIN <<x>> : <<x>>[j] = x
      OBVIOUS
    <2>2. QED
      BY <1>2, <1>5, <2>1 DEF Put
  <1>6. ASSUME NEW x \in Items, NEW y \in Items, Said(x), Said(y), Put(<<x, y>>)
        PROVE  InboxStep
    <2>1. <<x, y>> \in Seq(Items) /\ \A j \in DOMAIN <<x, y>> : <<x, y>>[j] \in {x, y}
      OBVIOUS
    <2>2. QED
      BY <1>2, <1>6, <2>1 DEF Put
  <1>7. ASSUME NEW R \in SUBSET inflight, inbox' = inbox \o Completions(R)
        PROVE  InboxStep
    <2>1. Completions(R) \in Seq(Items)
      BY CompletionsAre DEF Items
    <2>2. \A r \in R : Said(Completed(r))
      BY DEF Completed, Said
    <2>3. \A j \in DOMAIN Completions(R) : Said(Completions(R)[j])
      BY <2>2, CompletionsAre
    <2>4. QED
      BY <1>2, <1>7, <2>1, <2>3
  <1>8. ASSUME NEW b, inbox' = inbox \o Signals(Present(b))
        PROVE  InboxStep
    <2>1. Signals(Present(b)) \in Seq(Items)
      BY SignalsAre DEF Items
    <2>2. \A m : Said(MessageArrived(m))
      BY DEF MessageArrived, Said
    <2>3. QED
      BY <1>2, <1>8, <2>1, <2>2, SignalsAre
  <1>9. QED
    BY <1>3, <1>4, <1>5, <1>6, <1>7, <1>8

\* The steps that leave the records alone.
LEMMA SameTasks ==
    /\ \/ IgnoreItem \/ HandleUnknownMessage \/ HandleInterrupt \/ HandleAck
       \/ HandleRecovered \/ HandlePlannedRecovery \/ HandleError
       \/ HandleShutdown \/ ShutdownCleanupFails
       => UNCHANGED tasks
    /\ \/ ProgressConverging \/ ProgressWaits \/ ProgressToPerception \/ ProgressHeard
       \/ ProgressThought \/ ProgressRest \/ ProgressKeep \/ ProgressStop
       => UNCHANGED tasks
    /\ \/ ConvergeAgain \/ LifecycleError \/ FinishLater \/ FinishRecycle
       \/ FinishStop \/ FinishIdle
       => UNCHANGED tasks
    /\ Signalled \/ Ingest \/ AckElapses \/ EngineDies \/ Recover => UNCHANGED tasks
  <1>1. ASSUME IgnoreItem \/ HandleUnknownMessage \/ HandleInterrupt \/ HandleAck
        PROVE  UNCHANGED tasks
    BY <1>1 DEF IgnoreItem, HandleUnknownMessage, HandleInterrupt, HandleAck, Raise
  <1>2. ASSUME \/ HandleRecovered \/ HandlePlannedRecovery \/ HandleError
               \/ HandleShutdown \/ ShutdownCleanupFails
        PROVE  UNCHANGED tasks
    BY <1>2 DEF HandleRecovered, HandlePlannedRecovery, HandleError, HandleShutdown,
                ShutdownCleanupFails, Raise, manager
  <1>3. ASSUME \/ ProgressConverging \/ ProgressWaits \/ ProgressToPerception \/ ProgressHeard
               \/ ProgressThought
        PROVE  UNCHANGED tasks
    BY <1>3 DEF ProgressConverging, ProgressWaits, ProgressToPerception, ProgressHeard,
                ProgressThought
  <1>4. ASSUME ProgressRest \/ ProgressKeep \/ ProgressStop
        PROVE  UNCHANGED tasks
    BY <1>4 DEF ProgressRest, ProgressKeep, ProgressStop, Raise
  <1>5. ASSUME \/ ConvergeAgain \/ LifecycleError \/ FinishLater \/ FinishRecycle
               \/ FinishStop \/ FinishIdle
        PROVE  UNCHANGED tasks
    BY <1>5 DEF ConvergeAgain, LifecycleError, FinishLater, FinishRecycle, FinishStop,
                FinishIdle, Raise
  <1>6. ASSUME Signalled \/ Ingest \/ AckElapses \/ EngineDies \/ Recover
        PROVE  UNCHANGED tasks
    BY <1>6 DEF Signalled, Input, Ingest, AckElapses, EngineDies, Recover, RecoveryEnds,
                Keep, tasks
  <1>7. QED
    BY <1>1, <1>2, <1>3, <1>4, <1>5, <1>6

\* Every step of the dispatch loop changes, drops or launches records.
LEMMA DispatchTasks ==
    ASSUME Shape, Numbered, Dispatch
    PROVE  TasksStep
  <1> USE DEF Shape
  <1>1. CASE UNCHANGED tasks
    BY <1>1, TasksSteps DEF tasks
  <1>2. ASSUME NEW r \in inflight, inflight' = inflight \ {r}, cids' = cids
        PROVE  TasksStep
    BY <1>2, TasksSteps
  <1>3. ASSUME NEW selected, BeginSession(selected)
        PROVE  TasksStep
    <2> DEFINE record == Record(cids + 1, "open", "conversation")
               opens == [record EXCEPT !.sid = begun + 1, !.turn = 0]
    <2>1. /\ opens.cid = cids + 1 /\ opens.phase = "open" /\ opens.kind = "conversation"
      <3>1. /\ record.cid = cids + 1 /\ record.phase = "open" /\ record.kind = "conversation"
            /\ record \in InFlight
        BY DEF Record, TasksShape, ManagerShape, Context, InFlight, Phases, Kinds, TaskStates
      <3> HIDE DEF record
      <3>2. QED
        BY <3>1 DEF InFlight
    <2>2. inflight' = inflight \cup {opens} /\ cids' = cids + 1 /\ cids \in Nat
      BY <1>3 DEF BeginSession, TasksShape
    <2> HIDE DEF opens
    <2>3. QED
      BY <2>1, <2>2 DEF TasksStep, Numbered, KindsOf
  <1>4. ASSUME NEW phase \in Phases, NEW kind \in KindsOf(phase),
               NEW rest \in SUBSET inflight, Launch(rest, phase, kind)
        PROVE  TasksStep
    <2>1. kind \in Kinds
      BY DEF KindsOf, Kinds, PerceptionKinds, ActionKinds, Phases
    <2>2. QED
      BY <1>4, <2>1, TasksSteps
  <1>5. CASE HandleWake \/ HandleMessage
    BY <1>1, <1>3, <1>5 DEF HandleWake, HandleMessage, Raise
  <1>6. CASE HandleFact
    <2> DEFINE r == The(Entry.cid)
    <2>1. r \in inflight
      BY <1>6, Admitted, Found DEF HandleFact, Receive, Entry
    <2>2. r \in InFlight
      BY <2>1 DEF TasksShape
    <2>3. /\ [r EXCEPT !.fact = TRUE] \in InFlight /\ [r EXCEPT !.fact = TRUE].cid = r.cid
          /\ [r EXCEPT !.fact = TRUE].phase = r.phase /\ [r EXCEPT !.fact = TRUE].kind = r.kind
      BY <2>2 DEF InFlight
    <2>4. QED
      BY <1>6, <2>1, <2>3, TasksSteps DEF HandleFact
  <1>7. CASE HandleDone \/ HandleOpened \/ HandleLifecycleFailed
    <2>1. Has(Entry.cid)
      BY <1>7, Admitted DEF HandleDone, HandleOpened, HandleLifecycleFailed, Receive, Entry
    <2>2. QED
      BY <1>1, <1>2, <1>7, <2>1, Found
      DEF HandleDone, HandleOpened, HandleLifecycleFailed, Raise, tasks
  <1>8. ASSUME NEW rest \in SUBSET inflight, NEW ctx, NextConversation(rest, ctx)
        PROVE  TasksStep
    BY <1>1, <1>4, <1>8 DEF NextConversation, Raise, KindsOf, Phases
  <1>9. CASE HandleRejected
    BY <1>1, <1>8, <1>9 DEF HandleRejected
  <1>10. CASE HandleClosed
    BY <1>8, <1>10, TasksSteps DEF HandleClosed
  <1>11. CASE ProgressEnd \/ ProgressReplace
    BY <1>4, <1>11 DEF ProgressEnd, ProgressReplace, KindsOf, Phases, ActionKinds
  <1>12. CASE EnterPerception
    <2> DEFINE Start(kind, cid) == [Record(cid, "perception", kind) EXCEPT !.turn = NextTurn]
               new == IF session.sel = PerceptionKinds
                      THEN {Start("listen", cids + 1), Start("read", cids + 2)}
                      ELSE {Start(kind, cids + 1) : kind \in session.sel}
    <2>1. session.sel \in SUBSET PerceptionKinds /\ cids \in Nat
      BY DEF ManagerShape, Context, TasksShape
    <2>2. \A kind \in PerceptionKinds, cid \in Nat :
             /\ Start(kind, cid).cid = cid /\ Start(kind, cid).phase = "perception"
             /\ Start(kind, cid).kind = kind
      <3> TAKE kind \in PerceptionKinds, cid \in Nat
      <3> DEFINE record == Record(cid, "perception", kind)
      <3>1. /\ record.cid = cid /\ record.phase = "perception" /\ record.kind = kind
            /\ record \in InFlight
        BY DEF Record, ManagerShape, Context, InFlight, Phases, Kinds, TaskStates,
               PerceptionKinds
      <3> HIDE DEF record
      <3>2. [record EXCEPT !.turn = NextTurn].cid = cid
            /\ [record EXCEPT !.turn = NextTurn].phase = "perception"
            /\ [record EXCEPT !.turn = NextTurn].kind = kind
        BY <3>1 DEF InFlight
      <3>3. QED
        BY <3>2 DEF record
    <2>3. \/ UNCHANGED tasks
          \/ inflight' = inflight \cup new /\ cids' = cids + Cardinality(session.sel)
      BY <1>12 DEF EnterPerception
    <2> HIDE DEF Start
    <2>4. cids + 1 \in Nat /\ cids + 2 \in Nat
      BY <2>1
    <2>5. CASE session.sel = PerceptionKinds /\ inflight' = inflight \cup new
               /\ cids' = cids + Cardinality(session.sel)
      <3>1. cids' = cids + 2
        BY <2>1, <2>5, SensesCounted
      <3>2. new = {Start("listen", cids + 1), Start("read", cids + 2)}
        BY <2>5
      <3>3. /\ Start("listen", cids + 1).cid = cids + 1
            /\ Start("listen", cids + 1).phase = "perception"
            /\ Start("listen", cids + 1).kind = "listen"
            /\ Start("read", cids + 2).cid = cids + 2
            /\ Start("read", cids + 2).phase = "perception"
            /\ Start("read", cids + 2).kind = "read"
        BY <2>2, <2>4 DEF PerceptionKinds
      <3>4. QED
        BY <2>1, <2>5, <3>1, <3>2, <3>3 DEF TasksStep, Numbered, KindsOf, PerceptionKinds
    <2>6. CASE session.sel # PerceptionKinds /\ inflight' = inflight \cup new
               /\ cids' = cids + Cardinality(session.sel)
      <3>1. new = {Start(kind, cids + 1) : kind \in session.sel}
        BY <2>6
      <3>2. session.sel = {} \/ \E kind \in PerceptionKinds : session.sel = {kind}
        BY <2>1, <2>6 DEF PerceptionKinds
      <3>3. CASE session.sel = {}
        <4>1. cids' = cids /\ new = {}
          BY <2>6, <3>1, <3>3, FS_EmptySet, <2>1
        <4>2. QED
          BY <2>6, <4>1, TasksSteps
      <3>4. CASE \E kind \in PerceptionKinds : session.sel = {kind}
        <4>1. PICK kind \in PerceptionKinds : session.sel = {kind}
          BY <3>4
        <4>2. cids' = cids + 1
          BY <2>6, <4>1, FS_Singleton
        <4>3. new = {Start(kind, cids + 1)}
          BY <3>1, <4>1
        <4>4. /\ Start(kind, cids + 1).cid = cids + 1
              /\ Start(kind, cids + 1).phase = "perception"
              /\ Start(kind, cids + 1).kind = kind
          BY <2>2, <2>4
        <4>5. QED
          BY <2>1, <2>6, <4>2, <4>3, <4>4 DEF TasksStep, Numbered, KindsOf
      <3>5. QED
        BY <3>2, <3>3, <3>4
    <2>7. QED
      BY <1>1, <2>3, <2>5, <2>6
  <1>13. CASE EnterThink
    BY <1>1, <1>4, <1>13 DEF EnterThink, Raise, KindsOf, Phases
  <1>14. CASE EnterAction
    <2>1. session.resp.kind \in KindsOf("action_primary")
      BY <1>14 DEF EnterAction, FlowShape, Response, KindsOf
    <2>2. QED
      BY <1>4, <1>14, <2>1 DEF EnterAction, Phases
  <1>15. ASSUME NEW e \in Endured,
                Converge(e) \/ ConvergeToShutdown(e) \/ LifecycleErrorConverging(e)
         PROVE  TasksStep
    <2>1. UNCHANGED tasks \/ (inflight' \in {Kept(e), RecordsAfter(e)} /\ cids' = cids)
      BY <1>15 DEF Converge, ConvergeToShutdown, LifecycleErrorConverging, Raise
    <2>2. Kept(e) \subseteq RecordsAfter(e)
      BY DEF Kept
    <2>3. QED
      BY <1>1, <2>1, <2>2, ConvergedTasks
  <1>16. CASE FinishClose \/ FinishAnnounce
    BY <1>4, <1>16 DEF FinishClose, FinishAnnounce, KindsOf, Phases, ActionKinds
  <1>17. QED
    BY <1>1, <1>5, <1>6, <1>7, <1>9, <1>10, <1>11, <1>12, <1>13, <1>14, <1>15, <1>16,
       SameTasks DEF Dispatch

\* Every step of the dispatch loop takes an item, leaves the inbox alone or puts in
\* the notices of tasks in flight, signals of messages or the end of a recovery.
LEMMA DispatchInbox ==
    ASSUME Shape, Numbered, Dispatch
    PROVE  InboxStep
  <1> USE DEF Shape
  <1>1. CASE inbox' = inbox
    BY <1>1, InboxSteps
  <1>2. CASE inbox # <<>> /\ inbox' = Tail(inbox)
    BY <1>2, InboxSteps
  <1>3. CASE HandleShutdown
    <2> DEFINE report == [type |-> IF pending.planned THEN "planned" ELSE "recovered",
                          waiter |-> rm.ticket, how |-> "cancelled"]
    <2>1. report \in Items /\ Said(report)
      BY DEF WorldShape, Resources, Items, Recoveries, Said
    <2> HIDE DEF report
    <2>2. inbox # <<>> /\ inbox' \in {Tail(inbox), Append(Tail(inbox), report)}
      BY <1>3 DEF HandleShutdown, report
    <2>3. inbox \in Seq(Items) /\ Tail(inbox) \in Seq(Items)
      BY <2>2, Taken DEF InboxShape
    <2>4. \A i \in DOMAIN Append(Tail(inbox), report) :
             \/ i \in DOMAIN Tail(inbox) /\ Append(Tail(inbox), report)[i] = Tail(inbox)[i]
             \/ Append(Tail(inbox), report)[i] = report
      BY <2>1, <2>3
    <2>5. \A i \in DOMAIN Tail(inbox) : \E j \in DOMAIN inbox : Tail(inbox)[i] = inbox[j]
      BY <2>2, <2>3, Taken
    <2>6. QED
      BY <2>1, <2>2, <2>4, <2>5 DEF InboxStep
  <1>4. CASE \/ IgnoreItem \/ HandleWake \/ HandleMessage \/ HandleUnknownMessage
             \/ HandleInterrupt \/ HandleAck \/ HandleFact \/ HandleDone
    BY <1>2, <1>4 DEF IgnoreItem, HandleWake, HandleMessage, HandleUnknownMessage,
                      HandleInterrupt, HandleAck, HandleFact, HandleDone, Receive
  <1>5. CASE \/ HandleOpened \/ HandleRejected \/ HandleClosed \/ HandleLifecycleFailed
             \/ HandleRecovered \/ HandlePlannedRecovery \/ HandleError \/ ShutdownCleanupFails
    BY <1>2, <1>5 DEF HandleOpened, HandleRejected, HandleClosed, HandleLifecycleFailed,
                      HandleRecovered, HandlePlannedRecovery, HandleError,
                      ShutdownCleanupFails, Receive
  <1>6. CASE \/ ProgressConverging \/ ProgressWaits \/ ProgressToPerception \/ ProgressHeard
             \/ ProgressThought
    BY <1>1, <1>6 DEF ProgressConverging, ProgressWaits, ProgressToPerception, ProgressHeard,
                      ProgressThought
  <1>7. CASE ProgressRest \/ ProgressEnd \/ ProgressReplace \/ ProgressKeep \/ ProgressStop
    BY <1>1, <1>7 DEF ProgressRest, ProgressEnd, ProgressReplace, ProgressKeep, ProgressStop
  <1>8. CASE EnterPerception \/ EnterThink \/ EnterAction \/ ConvergeAgain \/ LifecycleError
    BY <1>1, <1>8 DEF EnterPerception, EnterThink, EnterAction, ConvergeAgain, LifecycleError
  <1>9. ASSUME NEW e \in Endured,
               Converge(e) \/ ConvergeToShutdown(e) \/ LifecycleErrorConverging(e)
        PROVE  InboxStep
    <2>1. inbox' = inbox \/ inbox' = inbox \o NewCompletions(e)
      BY <1>9 DEF Converge, ConvergeToShutdown, LifecycleErrorConverging
    <2>2. {r \in Targets : Active(r)} \in SUBSET inflight
      BY DEF Targets
    <2>3. QED
      BY <1>1, <2>1, <2>2, InboxSteps DEF NewCompletions
  <1>10. CASE FinishLater \/ FinishClose \/ FinishRecycle \/ FinishAnnounce \/ FinishStop
    BY <1>1, <1>10 DEF FinishLater, FinishClose, FinishRecycle, FinishAnnounce, FinishStop
  <1>11. CASE FinishIdle
    <2>1. inbox' = inbox \/ inbox' = inbox \o Signals(Present(ReadClosed))
      BY <1>11 DEF FinishIdle
    <2>2. QED
      BY <1>1, <2>1, InboxSteps
  <1>12. QED
    BY <1>3, <1>4, <1>5, <1>6, <1>7, <1>8, <1>9, <1>10, <1>11 DEF Dispatch

\* The steps of the others: at most one record changes, and what is put into the
\* inbox is its fact or its notice.
LEMMA OutsideNumbers ==
    ASSUME Shape, Numbered, Work \/ Recover \/ AckElapses \/ World
    PROVE  TasksStep /\ InboxStep
  <1> USE DEF Shape
  <1>1. CASE Signalled \/ Ingest \/ AckElapses \/ EngineDies \/ Recover
    <2>1. TasksStep
      BY <1>1, SameTasks, TasksSteps DEF tasks
    <2>2. CASE Signalled
      <3>1. PICK type \in {"button", "wake", "interrupt", "shutdown", "error"} : Input(type)
        BY <2>2 DEF Signalled
      <3> DEFINE item == IF type = "error" THEN ErrorOccurred({}, FALSE) ELSE Signal(type)
      <3>2. item \in Items /\ Said(item)
        BY <3>1 DEF ErrorOccurred, Signal, Items, Errors, Calls, Said
      <3>3. Put(<<item>>)
        BY <3>1 DEF Input
      <3> HIDE DEF item
      <3>4. QED
        BY <2>1, <3>2, <3>3, InboxSteps
    <2>3. CASE Ingest
      BY <2>1, <2>3, InboxSteps
      DEF Ingest, MessageArrived, Items, Arrivals, WorldShape, Said
    <2>4. CASE AckElapses
      BY <2>1, <2>4, InboxSteps DEF AckElapses, FlagsShape, Items, Acks, Said
    <2>5. CASE EngineDies
      BY <2>1, <2>5, InboxSteps DEF EngineDies
    <2>6. CASE Recover
      <3>1. PICK how \in {"ok", "failed"} : RecoveryEnds(how)
        BY <2>6 DEF Recover
      <3> DEFINE item == [type |-> IF pending.planned THEN "planned" ELSE "recovered",
                          waiter |-> rm.ticket, how |-> how]
      <3>2. item \in Items /\ Said(item)
        BY <3>1 DEF WorldShape, Resources, Items, Recoveries, Said
      <3>3. Put(<<item>>)
        BY <3>1 DEF RecoveryEnds
      <3> HIDE DEF item
      <3>4. QED
        BY <2>1, <3>2, <3>3, InboxSteps
    <2>7. QED
      BY <1>1, <2>2, <2>3, <2>4, <2>5, <2>6
  <1>2. CASE Work
    <2>1. PICK r \in inflight :
              \/ PublishHeard(r) \/ PublishRead(r) \/ PublishThought(r) \/ PublishDone(r)
              \/ ReturnWorker(r) \/ OpenEnds(r) \/ CloseEnds(r)
              \/ \E keys \in {{}, Key(r)} : FaultWorker(r, keys)
      BY <1>2 DEF Work
    <2>2. r \in InFlight /\ r.kind \in KindsOf(r.phase) /\ r.cid \in Nat /\ r.phase \in Phases
      BY DEF TasksShape, Numbered, InFlight
    <2>3. ASSUME NEW task \in TaskStates, inflight' = Update(r, [r EXCEPT !.task = task]),
                 UNCHANGED cids
          PROVE  TasksStep
      <3>1. /\ [r EXCEPT !.task = task] \in InFlight /\ [r EXCEPT !.task = task].cid = r.cid
            /\ [r EXCEPT !.task = task].phase = r.phase
            /\ [r EXCEPT !.task = task].kind = r.kind
        BY <2>2 DEF InFlight
      <3>2. QED
        BY <2>3, <3>1, TasksSteps
    <2>4. Completed(r) \in Items /\ Said(Completed(r))
      BY <2>2 DEF Completed, Items, Notices, Said
    <2>5. ASSUME NEW value \in ValuesOf(r.phase), Publish(r, value)
          PROVE  TasksStep /\ InboxStep
      <3>1. Fact(r, value) \in Items
        BY <2>2 DEF Fact, Items, Facts, ValuesOf
      <3>2. Said(Fact(r, value))
        BY DEF Fact, Said
      <3>3. QED
        BY <2>3, <2>5, <3>1, <3>2, InboxSteps DEF Publish, Keep, TaskStates
    <2>6. CASE PublishHeard(r)
      <3>1. ValuesOf(r.phase) = Heards
        BY <2>2, <2>6 DEF PublishHeard, KindsOf, ValuesOf, ActionKinds
      <3>2. QED
        BY <2>5, <2>6, <3>1 DEF PublishHeard, Heards
    <2>7. CASE PublishRead(r)
      <3>1. ValuesOf(r.phase) = Heards
        BY <2>2, <2>7 DEF PublishRead, KindsOf, ValuesOf, ActionKinds
      <3>2. QED
        BY <2>5, <2>7, <3>1 DEF PublishRead, Heards
    <2>8. CASE PublishThought(r)
      <3>1. ValuesOf(r.phase) = Response
        BY <2>8 DEF PublishThought, ValuesOf
      <3>2. scenario.answers \subseteq Response
        BY ManagerAssumption DEF FlagsShape
      <3>3. [kind |-> "rest", route |-> "END_SESSION", next |-> {}] \in Response
        BY DEF Response, ActionKinds, Routes
      <3>4. QED
        BY <2>5, <2>8, <3>1, <3>2, <3>3 DEF PublishThought
    <2>9. CASE PublishDone(r)
      <3>1. ValuesOf(r.phase) = Outcomes
        BY <2>9 DEF PublishDone, ValuesOf
      <3>2. QED
        BY <2>5, <2>9, <3>1 DEF PublishDone, Outcomes
    <2>10. CASE ReturnWorker(r)
      BY <2>3, <2>4, <2>10, InboxSteps DEF ReturnWorker, Keep, TaskStates
    <2>11. ASSUME NEW how \in TaskStates, NEW eng, EndLifecycle(r, how, eng)
           PROVE  TasksStep /\ InboxStep
      BY <2>3, <2>4, <2>11, InboxSteps DEF EndLifecycle, Keep
    <2>12. CASE OpenEnds(r)
      BY <2>11, <2>12 DEF OpenEnds, TaskStates
    <2>13. CASE CloseEnds(r)
      BY <2>11, <2>13 DEF CloseEnds, TaskStates
    <2>14. CASE \E keys \in {{}, Key(r)} : FaultWorker(r, keys)
      <3>1. PICK keys \in {{}, Key(r)} : FaultWorker(r, keys)
        BY <2>14
      <3>2. ErrorOccurred(keys, r.kind = "listen") \in Items
            /\ Said(ErrorOccurred(keys, r.kind = "listen"))
        BY DEF ErrorOccurred, Items, Errors, Key, Keys, Said
      <3>3. QED
        BY <2>3, <2>4, <3>1, <3>2, InboxSteps DEF FaultWorker, Keep, TaskStates
    <2>15. QED
      BY <2>1, <2>6, <2>7, <2>8, <2>9, <2>10, <2>12, <2>13, <2>14
  <1>3. QED
    BY <1>1, <1>2 DEF World

-----------------------------------------------------------------------------
(* The shape of the state.                                                 *)

\* In every run the fields of the state stay in their ranges, no two tasks have one
\* number, and what a task publishes is of its kind.
THEOREM ShapeHolds == Spec => [](Shape /\ Numbered)
  <1>1. Init => Shape /\ Numbered
    <2> SUFFICES ASSUME Init PROVE Shape /\ Numbered
      OBVIOUS
    <2>1. ManagerShape
      BY DEF Init, ManagerShape, States, NoContext, NoResponse, Context, Outcomes, NotPending,
             Pending
    <2>2. FlowShape /\ FlagsShape
      BY DEF Init, FlowShape, Places, Methods, Whys, FlagsShape
    <2>3. TasksShape /\ InboxShape
      BY FS_EmptySet DEF Init, TasksShape, InboxShape
    <2>4. engine \in Adapter /\ rm \in Resources /\ mic \in Microphone
      BY DEF Init, Adapter, Resources, Microphone, NoConversation
    <2>5. budget \in [Inputs -> Nat]
      BY ManagerAssumption DEF Init
    <2>6. WorldShape
      BY <2>4, <2>5 DEF Init, WorldShape
    <2>7. Numbered
      BY DEF Init, Numbered
    <2>8. QED
      BY <2>1, <2>2, <2>3, <2>6, <2>7 DEF Shape
  <1>2. Shape /\ Numbered /\ [Next]_vars => Shape' /\ Numbered'
    <2> SUFFICES ASSUME Shape, Numbered, [Next]_vars PROVE Shape' /\ Numbered'
      OBVIOUS
    <2>1. CASE UNCHANGED vars
      <3>1. Shape'
        BY <2>1, Frames DEF vars, Shape, manager
      <3>2. QED
        BY <2>1, <3>1 DEF vars, tasks, Numbered
    <2>2. CASE Dispatch
      <3>1. Shape'
        BY <2>2, InputsShape, WorkerItemsShape, LifecycleItemsShape, NoticesShape,
           ProgressWaitingShape, ProgressThinkingShape, ProgressActingShape, EnterShape,
           ConvergeShape, FinishShape DEF Dispatch
      <3>2. QED
        BY <2>2, <3>1, DispatchTasks, DispatchInbox, NumberedSteps
    <2>3. CASE Work \/ Recover \/ AckElapses \/ World
      BY <2>3, WorldStepShape, WorkShape, OutsideNumbers, NumberedSteps DEF World
    <2>4. QED
      BY <2>1, <2>2, <2>3 DEF Next
  <1>3. QED
    BY <1>1, <1>2, PTL DEF Spec

-----------------------------------------------------------------------------
(* Recovery.  The inductive invariant: a recovery under way is the one the *)
(* convergence waits for, by its ticket or as the planned one; what ended  *)
(* before it has an older ticket, so no report in the inbox ends the wait; *)
(* and while the session converges nothing can open a conversation.        *)

Awaited ==
    rm.keys # {} =>
        /\ Converging /\ waiter = rm.ticket /\ rm.ticket > 0
        /\ pending.ticket = rm.ticket \/ pending.planned
        /\ ~rm.ready /\ state # "IDLE" /\ ~shutting
ConvergingIsBlocked ==
    Converging => /\ session.blocked
                  /\ \A r \in inflight : r.phase # "open"
                  /\ pending.trigger # "shutdown" => state # "IDLE"
WhyConverge ==
    flow.at = "converge" => IF flow.why = "shutdown" THEN shutting ELSE state # "IDLE"
ReportsInOrder ==
    \A i \in DOMAIN inbox : inbox[i].type \in {"recovered", "planned"} =>
        inbox[i].waiter <= rm.ticket /\ (inbox[i].waiter = rm.ticket => rm.keys = {})
FinishingConverges == flow.at = "finish" => Converging
\* How the task of a record may end.
Fits == \A r \in inflight : /\ r.task \in {"ready", "rejected", "cancelled"} => r.phase = "open"
                            /\ r.task = "closed" => r.phase = "close"
                            /\ r.task \in {"published", "returned"} => ~Private(r)
RecoveryInv == /\ Awaited /\ ConvergingIsBlocked /\ WhyConverge /\ ReportsInOrder
               /\ FinishingConverges /\ Fits

\* A step after which the inbox has no new report of a recovery.
NoReport ==
    \A i \in DOMAIN inbox' : \/ \E j \in DOMAIN inbox : inbox'[i] = inbox[j]
                             \/ inbox'[i].type \notin {"recovered", "planned"}

\* An item that is left or taken, and items of another kind that are put, report nothing.
LEMMA NoReportTaken ==
    ASSUME Shape, inbox' = inbox \/ (inbox # <<>> /\ inbox' = Tail(inbox))
    PROVE  NoReport
  <1>1. inbox \in Seq(Items)
    BY DEF Shape, InboxShape
  <1>2. QED
    BY <1>1, Taken DEF NoReport

\* Items of another kind that are put report nothing.
LEMMA NoReportPut ==
    ASSUME Shape, NEW t \in Seq(Items), inbox' = inbox \o t,
           \A j \in DOMAIN t : t[j].type \notin {"recovered", "planned"}
    PROVE  NoReport
  <1>1. inbox \in Seq(Items)
    BY DEF Shape, InboxShape
  <1>2. QED
    BY <1>1, Joined DEF NoReport

\* One such item.
LEMMA NoReportOne ==
    ASSUME Shape, NEW x \in Items, inbox' = inbox \o <<x>>,
           x.type \notin {"recovered", "planned"}
    PROVE  NoReport
  <1>1. <<x>> \in Seq(Items) /\ \A k \in DOMAIN <<x>> : <<x>>[k] = x
    OBVIOUS
  <1>2. QED
    BY <1>1, NoReportPut

\* Two such items.
LEMMA NoReportTwo ==
    ASSUME Shape, NEW x \in Items, NEW y \in Items, inbox' = inbox \o <<x, y>>,
           x.type \notin {"recovered", "planned"}, y.type \notin {"recovered", "planned"}
    PROVE  NoReport
  <1>1. <<x, y>> \in Seq(Items) /\ \A k \in DOMAIN <<x, y>> : <<x, y>>[k] \in {x, y}
    OBVIOUS
  <1>2. QED
    BY <1>1, NoReportPut

\* The notices of tasks.
LEMMA NoReportDone ==
    ASSUME Shape, Numbered, NEW R, R \subseteq inflight, inbox' = inbox \o Completions(R)
    PROVE  NoReport
  <1>1. /\ Completions(R) \in Seq(Items)
        /\ \A i \in DOMAIN Completions(R) : \E r \in R : Completions(R)[i] = Completed(r)
    BY CompletionsAre DEF Items
  <1>2. \A r \in R : Completed(r).type \notin {"recovered", "planned"}
    BY DEF Completed
  <1> DEFINE list == Completions(R)
  <1> HIDE DEF list
  <1>3. list \in Seq(Items) /\ \A i \in DOMAIN list : list[i].type \notin {"recovered", "planned"}
    BY <1>1, <1>2 DEF list
  <1>4. inbox' = inbox \o list
    BY DEF list
  <1>5. QED
    BY <1>3, <1>4, NoReportPut

\* The signals of messages.
LEMMA NoReportSignals ==
    ASSUME Shape, NEW b, inbox' = inbox \o Signals(Present(b))
    PROVE  NoReport
  <1>1. Signals(Present(b)) \in Seq(Items)
        /\ \A i \in DOMAIN Signals(Present(b)) :
              \E m \in Present(b) : Signals(Present(b))[i] = MessageArrived(m)
    BY SignalsAre DEF Items
  <1>2. \A m : MessageArrived(m).type \notin {"recovered", "planned"}
    BY DEF MessageArrived
  <1> DEFINE list == Signals(Present(b))
  <1> HIDE DEF list
  <1>3. list \in Seq(Items) /\ \A i \in DOMAIN list : list[i].type \notin {"recovered", "planned"}
    BY <1>1, <1>2 DEF list
  <1>4. inbox' = inbox \o list
    BY DEF list
  <1>5. QED
    BY <1>3, <1>4, NoReportPut

\* The reports that there are stay old when a recovery ends or a new one begins.
LEMMA ReportsKept ==
    ASSUME Shape, Shape', ReportsInOrder, NoReport,
           \/ rm' = rm
           \/ rm'.ticket = rm.ticket /\ rm'.keys = {}
           \/ rm'.ticket = rm.ticket + 1
    PROVE  ReportsInOrder'
  <1>1. rm.ticket \in Nat /\ rm'.ticket \in Nat
    BY DEF Shape, WorldShape, Resources
  <1>2. inbox \in Seq(Items) /\ inbox' \in Seq(Items)
    BY DEF Shape, InboxShape
  <1>3. ASSUME NEW i \in DOMAIN inbox', inbox'[i].type \in {"recovered", "planned"}
        PROVE  /\ inbox'[i].waiter <= rm'.ticket
               /\ inbox'[i].waiter = rm'.ticket => rm'.keys = {}
    <2>1. PICK j \in DOMAIN inbox : inbox'[i] = inbox[j]
      BY <1>3 DEF NoReport
    <2>2. inbox[j] \in Items
      BY <1>2
    <2>3. inbox[j].waiter \in Nat
      BY <1>3, <2>1, <2>2, ItemIs DEF Recoveries
    <2>4. inbox[j].waiter <= rm.ticket /\ (inbox[j].waiter = rm.ticket => rm.keys = {})
      BY <1>3, <2>1 DEF ReportsInOrder
    <2>5. QED
      BY <1>1, <2>1, <2>3, <2>4
  <1>4. QED
    BY <1>3 DEF ReportsInOrder

\* A step that goes on with the recovery there is, or finds none and begins none.
LEMMA RecoveryKept ==
    ASSUME Shape, Shape', RecoveryInv, NoReport, UNCHANGED rm,
           WhyConverge', FinishingConverges', Fits', ConvergingIsBlocked',
           rm.keys # {} => /\ waiter' = waiter /\ shutting' = shutting /\ state' # "IDLE"
                           /\ pending' # NotPending /\ pending'.ticket = pending.ticket
                           /\ pending'.planned = pending.planned
    PROVE  RecoveryInv'
  <1>1. Awaited'
    BY DEF RecoveryInv, Awaited, Converging
  <1>2. ReportsInOrder'
    BY ReportsKept DEF RecoveryInv
  <1>3. QED
    BY <1>1, <1>2 DEF RecoveryInv

\* A step that begins the recovery the convergence waits for.
LEMMA RecoveryBegun ==
    ASSUME Shape, Shape', RecoveryInv, NoReport, NEW keys, rm' = Recovery(keys), CanRecover,
           WhyConverge', FinishingConverges', Fits', ConvergingIsBlocked',
           waiter' = rm.ticket + 1, shutting' = shutting, state' # "IDLE",
           pending' # NotPending, pending'.ticket = rm.ticket + 1 \/ pending'.planned
    PROVE  RecoveryInv'
  <1>1. rm.ticket \in Nat
    BY DEF Shape, WorldShape, Resources
  <1>2. rm'.ticket = rm.ticket + 1 /\ rm'.ready = FALSE
    BY DEF Recovery
  <1>3. Awaited'
    BY <1>1, <1>2 DEF Awaited, Converging, CanRecover
  <1>4. ReportsInOrder'
    BY <1>2, ReportsKept DEF RecoveryInv
  <1>5. QED
    BY <1>3, <1>4 DEF RecoveryInv

\* A step of a session that does not converge: there is no recovery to lose.
LEMMA RecoveryFree ==
    ASSUME Shape, Shape', RecoveryInv, NoReport, WhyConverge', FinishingConverges', Fits',
           ~Converging \/ rm.keys = {}, pending' = NotPending, UNCHANGED rm
    PROVE  RecoveryInv'
  <1>1. rm.keys = {}
    BY DEF RecoveryInv, Awaited
  <1>2. ConvergingIsBlocked'
    BY DEF ConvergingIsBlocked, Converging
  <1>3. QED
    BY <1>1, <1>2, RecoveryKept

-----------------------------------------------------------------------------
(* What a step of the dispatch loop does to the records.                   *)

\* A record of work that has just been launched.
Fresh(r) == /\ r.task = "running" /\ ~r.fact /\ ~r.cancel /\ ~r.proven
            /\ r.cid > cids

\* The records of the next state: those there were, one whose fact is noted and those
\* of new work; or those that converge() leaves.
Worked(r) ==
    \/ r \in inflight
    \/ \E q \in inflight : ~Private(q) /\ r = [q EXCEPT !.fact = TRUE]
    \/ Fresh(r)
Recorded(r) == Worked(r) \/ \E e \in Endured, q \in inflight : r = Converged(q, e)

\* A record that is launched is fresh.
LEMMA FreshRecords ==
    ASSUME Shape, NEW phase, NEW kind, NEW cid, cid > cids
    PROVE  Fresh(Record(cid, phase, kind))
  BY DEF Fresh, Record

\* The request to open the conversation of a new session.
LEMMA FirstRequest ==
    ASSUME Shape, NEW selected, BeginSession(selected)
    PROVE  \E opens \in InFlight :
              /\ Fresh(opens) /\ opens.phase = "open" /\ opens.kind = "conversation"
              /\ opens.sid = begun + 1 /\ opens.turn = 0 /\ opens.cid = cids + 1
              /\ inflight' = inflight \cup {opens}
  <1> DEFINE record == Record(cids + 1, "open", "conversation")
             opens == [record EXCEPT !.sid = begun + 1, !.turn = 0]
  <1>1. cids \in Nat /\ begun + 1 \in Nat /\ session.id \in Nat /\ session.turn \in Nat
    BY DEF Shape, TasksShape, FlagsShape, ManagerShape, Context
  <1>2. /\ record \in InFlight /\ record.task = "running" /\ ~record.fact /\ ~record.cancel
        /\ ~record.proven /\ record.cid = cids + 1 /\ record.phase = "open"
        /\ record.kind = "conversation"
    BY <1>1 DEF Record, InFlight, Phases, Kinds, TaskStates
  <1>3. inflight' = inflight \cup {opens}
    BY DEF BeginSession
  <1> HIDE DEF record
  <1>4. opens \in InFlight
    BY <1>1, <1>2 DEF InFlight
  <1>5. /\ opens.phase = "open" /\ opens.kind = "conversation" /\ opens.cid = cids + 1
        /\ opens.task = "running" /\ ~opens.fact /\ ~opens.cancel /\ ~opens.proven
    BY <1>2 DEF InFlight
  <1>6. opens.sid = begun + 1 /\ opens.turn = 0
    BY <1>2 DEF InFlight
  <1> HIDE DEF opens
  <1>7. Fresh(opens)
    BY <1>1, <1>5 DEF Fresh
  <1>8. QED
    BY <1>3, <1>4, <1>5, <1>6, <1>7

\* The tasks of a turn.
LEMMA SensesStart ==
    ASSUME Shape, EnterPerception
    PROVE  \/ UNCHANGED tasks
           \/ \E new \in SUBSET InFlight :
                 /\ inflight' = inflight \cup new
                 /\ \A r \in new : /\ Fresh(r) /\ r.phase = "perception" /\ r.sid = session.id
                                   /\ r.turn = session.turn + 1 /\ r.kind \in session.sel
  <1> DEFINE Start(kind, cid) == [Record(cid, "perception", kind) EXCEPT !.turn = NextTurn]
             new == IF session.sel = PerceptionKinds
                    THEN {Start("listen", cids + 1), Start("read", cids + 2)}
                    ELSE {Start(kind, cids + 1) : kind \in session.sel}
  <1>1. session.sel \in SUBSET PerceptionKinds /\ cids \in Nat /\ NextTurn = session.turn + 1
        /\ NextTurn \in Nat
    BY DEF Shape, ManagerShape, Context, TasksShape, NextTurn
  <1>2. \A kind \in PerceptionKinds, cid \in Nat :
           cid > cids => /\ Start(kind, cid) \in InFlight /\ Fresh(Start(kind, cid))
                         /\ Start(kind, cid).phase = "perception"
                         /\ Start(kind, cid).kind = kind /\ Start(kind, cid).sid = session.id
                         /\ Start(kind, cid).turn = session.turn + 1
    <2> TAKE kind \in PerceptionKinds, cid \in Nat
    <2> HAVE cid > cids
    <2> DEFINE record == Record(cid, "perception", kind)
    <2>1. /\ record \in InFlight /\ record.task = "running" /\ ~record.fact /\ ~record.cancel
          /\ ~record.proven /\ record.cid = cid /\ record.phase = "perception"
          /\ record.kind = kind /\ record.sid = session.id
      BY <1>1 DEF Record, InFlight, Phases, Kinds, TaskStates, PerceptionKinds, Shape,
                  ManagerShape, Context
    <2>2. Start(kind, cid) = [record EXCEPT !.turn = NextTurn]
      OBVIOUS
    <2> HIDE DEF record, Start
    <2>3. QED
      BY <1>1, <2>1, <2>2 DEF InFlight, Fresh
  <1>3. UNCHANGED tasks \/ inflight' = inflight \cup new
    BY DEF EnterPerception
  <1>4. cids + 1 \in Nat /\ cids + 2 \in Nat /\ cids + 1 > cids /\ cids + 2 > cids
    BY <1>1
  <1> HIDE DEF Start
  <1>5. \A r \in new : /\ r \in InFlight /\ Fresh(r) /\ r.phase = "perception"
                       /\ r.sid = session.id /\ r.turn = session.turn + 1
                       /\ r.kind \in session.sel
    <2>1. CASE session.sel = PerceptionKinds
      <3>1. "listen" \in PerceptionKinds /\ "read" \in PerceptionKinds
        BY DEF PerceptionKinds
      <3>2. QED
        BY <1>2, <1>4, <2>1, <3>1
    <2>2. CASE session.sel # PerceptionKinds
      BY <1>1, <1>2, <1>4, <2>2
    <2>3. QED
      BY <2>1, <2>2
  <1>6. new \in SUBSET InFlight
    BY <1>5
  <1> HIDE DEF new
  <1>7. QED
    BY <1>3, <1>5, <1>6

\* What the dispatch loop leaves without a converge().
LEMMA CalmRecords ==
    ASSUME Shape, Numbered, Dispatch,
           \A e \in Endured : ~(Converge(e) \/ ConvergeToShutdown(e) \/ LifecycleErrorConverging(e))
    PROVE  \A r \in inflight' : Worked(r)
  <1> USE DEF Shape
  <1>1. CASE UNCHANGED tasks
    BY <1>1 DEF Worked, tasks
  <1>2. ASSUME NEW q \in inflight, inflight' = inflight \ {q}
        PROVE  \A r \in inflight' : Worked(r)
    BY <1>2 DEF Worked
  <1>3. ASSUME NEW phase, NEW kind, NEW rest \in SUBSET inflight, Launch(rest, phase, kind)
        PROVE  \A r \in inflight' : Worked(r)
    <2>1. cids \in Nat /\ cids + 1 > cids
      BY DEF TasksShape
    <2>2. Fresh(Record(cids + 1, phase, kind))
      BY <2>1, FreshRecords
    <2>3. QED
      BY <1>3, <2>2 DEF Launch, Worked
  <1>4. ASSUME NEW selected, BeginSession(selected)
        PROVE  \A r \in inflight' : Worked(r)
    BY <1>4, FirstRequest DEF Worked
  <1>5. CASE HandleWake \/ HandleMessage
    BY <1>1, <1>4, <1>5 DEF HandleWake, HandleMessage, Raise
  <1>6. CASE HandleFact
    <2> DEFINE q == The(Entry.cid)
    <2>1. Has(Entry.cid) /\ StateOf(q.phase) = state
      BY <1>6, Admitted DEF HandleFact, Receive, Entry
    <2>2. q \in inflight
      BY <2>1, Found
    <2>3. ~Private(q)
      BY <2>1 DEF ManagerShape, States, StateOf, Private
    <2>4. inflight' = Update(q, [q EXCEPT !.fact = TRUE])
      BY <1>6 DEF HandleFact
    <2> HIDE DEF q
    <2>5. QED
      BY <2>2, <2>3, <2>4 DEF Update, Worked
  <1>7. CASE HandleDone \/ HandleOpened \/ HandleLifecycleFailed
    <2>1. Has(Entry.cid)
      BY <1>7, Admitted DEF HandleDone, HandleOpened, HandleLifecycleFailed, Receive, Entry
    <2>2. QED
      BY <1>1, <1>2, <1>7, <2>1, Found
      DEF HandleDone, HandleOpened, HandleLifecycleFailed, Raise, tasks
  <1>8. ASSUME NEW rest \in SUBSET inflight, NEW ctx, NextConversation(rest, ctx)
        PROVE  \A r \in inflight' : Worked(r)
    BY <1>1, <1>3, <1>8 DEF NextConversation, Raise
  <1>9. CASE HandleRejected
    BY <1>1, <1>8, <1>9 DEF HandleRejected
  <1>10. CASE HandleClosed
    BY <1>8, <1>10 DEF HandleClosed, Worked
  <1>11. CASE ProgressEnd \/ ProgressReplace
    BY <1>3, <1>11 DEF ProgressEnd, ProgressReplace
  <1>12. CASE EnterPerception
    BY <1>1, <1>12, SensesStart DEF Worked
  <1>13. CASE EnterThink \/ EnterAction
    BY <1>1, <1>3, <1>13 DEF EnterThink, EnterAction, Raise
  <1>14. CASE FinishClose \/ FinishAnnounce
    BY <1>3, <1>14 DEF FinishClose, FinishAnnounce
  <1>15. QED
    BY <1>1, <1>5, <1>6, <1>7, <1>9, <1>10, <1>11, <1>12, <1>13, <1>14,
       SameTasks DEF Dispatch

\* Every step of the dispatch loop leaves such records.
LEMMA DispatchRecords ==
    ASSUME Shape, Numbered, Dispatch
    PROVE  \A r \in inflight' : Recorded(r)
  <1>1. ASSUME NEW e \in Endured,
               Converge(e) \/ ConvergeToShutdown(e) \/ LifecycleErrorConverging(e)
        PROVE  \A r \in inflight' : Recorded(r)
    <2>1. UNCHANGED tasks \/ inflight' \in {Kept(e), RecordsAfter(e)}
      BY <1>1 DEF Converge, ConvergeToShutdown, LifecycleErrorConverging, Raise
    <2>2. QED
      BY <2>1 DEF Kept, RecordsAfter, Recorded, Worked, tasks
  <1>2. QED
    BY <1>1, CalmRecords DEF Recorded

\* What converge() makes of a record: the fields it keeps, the ending it gives.
LEMMA ConvergedIs ==
    ASSUME Shape, Fits, NEW e \in Endured, NEW q \in inflight
    PROVE  LET r == Converged(q, e)
           IN /\ r \in InFlight /\ r.cid = q.cid /\ r.phase = q.phase /\ r.kind = q.kind
              /\ r.sid = q.sid /\ r.turn = q.turn /\ r.fact = q.fact /\ r.cancel
              /\ ~Active(r)
              /\ ~Active(q) => r.task = q.task
              /\ r.task \in {"ready", "rejected", "cancelled"} => r.phase = "open"
              /\ r.task = "closed" => r.phase = "close"
              /\ r.task \in {"published", "returned"} => ~Private(r)
              /\ r.task \in {"raised", "fault"} /\ ~Private(r) => r.task = q.task
              /\ r.task = "rejected" => r.task = q.task
              /\ q \in Targets /\ Private(q) => r.proven
              /\ q.proven => r.proven
  <1> DEFINE r == Converged(q, e)
  <1>1. q \in InFlight
    BY DEF Shape, TasksShape
  <1>2. CASE q \in Targets
    <2> DEFINE how == TaskAfter(q, e[q])
    <2>1. e[q] \in Ending(q) /\ e[q] \in Endings
      BY <1>2, EnduredIs
    <2>2. how \in TaskStates
      BY <1>1, <2>1 DEF TaskAfter, TaskStates, Endings, InFlight
    <2>3. Ended(q, e) = [q EXCEPT !.task = how, !.proven = @ \/ Private(q)]
      BY <1>2 DEF Ended
    <2>4. ~Active(q) => how = q.task
      BY <1>1, <2>1 DEF TaskAfter, Ending, Active
    <2>5. /\ how = "ready" => q.phase = "open"
          /\ how = "cancelled" => q.phase = "open"
          /\ how = "closed" => q.phase = "close"
          /\ Active(q) /\ Private(q) => how \in {"ready", "cancelled", "closed", "raised"}
          /\ Active(q) /\ ~Private(q) => how = "returned"
      BY <1>1, <2>1 DEF TaskAfter, Ending, Active, Private, Fits, Endings
    <2> HIDE DEF how
    <2>6. QED
      BY <1>1, <1>2, <2>2, <2>3, <2>4, <2>5 DEF Converged, InFlight, Active, Private, Fits
  <1>3. CASE q \notin Targets
    BY <1>1, <1>3 DEF Converged, Ended, InFlight, Active, Private, Fits, Targets
  <1>4. QED
    BY <1>2, <1>3

\* The tasks of the records fit their phases.
LEMMA FitsKept ==
    ASSUME Shape, Numbered, Fits, Dispatch
    PROVE  Fits'
  <1>1. ASSUME NEW r \in inflight'
        PROVE  /\ r.task \in {"ready", "rejected", "cancelled"} => r.phase = "open"
               /\ r.task = "closed" => r.phase = "close"
               /\ r.task \in {"published", "returned"} => ~Private(r)
    <2>1. Recorded(r)
      BY DispatchRecords
    <2>2. CASE r \in inflight
      BY <2>2 DEF Fits
    <2>3. CASE \E q \in inflight : ~Private(q) /\ r = [q EXCEPT !.fact = TRUE]
      <3>1. PICK q \in inflight : r = [q EXCEPT !.fact = TRUE]
        BY <2>3
      <3>2. q \in InFlight
        BY DEF Shape, TasksShape
      <3>3. r.task = q.task /\ r.phase = q.phase
        BY <3>1, <3>2 DEF InFlight
      <3>4. QED
        BY <3>3 DEF Fits, Private
    <2>4. CASE Fresh(r)
      BY <2>4 DEF Fresh
    <2>5. CASE \E e \in Endured, q \in inflight : r = Converged(q, e)
      BY <2>5, ConvergedIs
    <2>6. QED
      BY <2>1, <2>2, <2>3, <2>4, <2>5 DEF Recorded, Worked
  <1>2. QED
    BY <1>1 DEF Fits, Private

\* A step that puts nothing about a recovery into the inbox.
LEMMA DispatchReports ==
    ASSUME Shape, Numbered, Dispatch, ~HandleShutdown
    PROVE  NoReport
  <1> USE DEF Shape
  <1>1. CASE inbox' = inbox \/ (inbox # <<>> /\ inbox' = Tail(inbox))
    BY <1>1, NoReportTaken
  <1>2. CASE \/ IgnoreItem \/ HandleWake \/ HandleMessage \/ HandleUnknownMessage
             \/ HandleInterrupt \/ HandleAck \/ HandleFact \/ HandleDone
    BY <1>1, <1>2 DEF IgnoreItem, HandleWake, HandleMessage, HandleUnknownMessage,
                      HandleInterrupt, HandleAck, HandleFact, HandleDone, Receive
  <1>3. CASE \/ HandleOpened \/ HandleRejected \/ HandleClosed \/ HandleLifecycleFailed
             \/ HandleRecovered \/ HandlePlannedRecovery \/ HandleError \/ ShutdownCleanupFails
    BY <1>1, <1>3 DEF HandleOpened, HandleRejected, HandleClosed, HandleLifecycleFailed,
                      HandleRecovered, HandlePlannedRecovery, HandleError,
                      ShutdownCleanupFails, Receive
  <1>4. CASE \/ ProgressConverging \/ ProgressWaits \/ ProgressToPerception \/ ProgressHeard
             \/ ProgressThought \/ ProgressRest \/ ProgressEnd \/ ProgressReplace
             \/ ProgressKeep \/ ProgressStop
    BY <1>1, <1>4 DEF ProgressConverging, ProgressWaits, ProgressToPerception, ProgressHeard,
                      ProgressThought, ProgressRest, ProgressEnd, ProgressReplace,
                      ProgressKeep, ProgressStop
  <1>5. CASE EnterPerception \/ EnterThink \/ EnterAction \/ ConvergeAgain \/ LifecycleError
    BY <1>1, <1>5 DEF EnterPerception, EnterThink, EnterAction, ConvergeAgain, LifecycleError
  <1>6. ASSUME NEW e \in Endured,
               Converge(e) \/ ConvergeToShutdown(e) \/ LifecycleErrorConverging(e)
        PROVE  NoReport
    <2>1. inbox' = inbox \/ inbox' = inbox \o NewCompletions(e)
      BY <1>6 DEF Converge, ConvergeToShutdown, LifecycleErrorConverging
    <2> DEFINE R == {r \in Targets : Active(r)}
    <2>2. R \subseteq inflight /\ NewCompletions(e) = Completions(R)
      BY DEF Targets, NewCompletions
    <2> HIDE DEF R
    <2>3. QED
      BY <1>1, <2>1, <2>2, NoReportDone
  <1>7. CASE FinishLater \/ FinishClose \/ FinishRecycle \/ FinishAnnounce \/ FinishStop
    BY <1>1, <1>7 DEF FinishLater, FinishClose, FinishRecycle, FinishAnnounce, FinishStop
  <1>8. CASE FinishIdle
    <2>1. inbox' = inbox \/ inbox' = inbox \o Signals(Present(ReadClosed))
      BY <1>8 DEF FinishIdle
    <2>2. QED
      BY <1>1, <2>1, NoReportSignals
  <1>9. QED
    BY <1>2, <1>3, <1>4, <1>5, <1>6, <1>7, <1>8 DEF Dispatch

\* Where the flow goes next: it converges for a reason, it finishes a convergence.
Reasoned == WhyConverge' /\ FinishingConverges'

\* What returns, fails or calls another method than these two.
LEMMA Elsewhere ==
    ASSUME Shape
    PROVE  /\ flow.at \notin {"stopped", "dead"} /\ Return => Reasoned
           /\ \A cause : Raise(cause) => Reasoned
           /\ \A method, why : method \notin {"converge", "finish"} /\ Call(method, why)
                                  => Reasoned
           /\ \A why : /\ Call("converge", why)
                       /\ IF why = "shutdown" THEN shutting' ELSE state' # "IDLE"
                       => Reasoned
           /\ \A why : Call("finish", why) /\ pending' # NotPending => Reasoned
  <1>1. flow.at \notin {"stopped", "dead"} /\ Return => Reasoned
    BY Returns DEF Shape, Reasoned, WhyConverge, FinishingConverges
  <1>2. \A cause : Raise(cause) => Reasoned
    BY DEF Raise, Reasoned, WhyConverge, FinishingConverges
  <1>3. \A method, why : Call(method, why) => flow'.at = method /\ flow'.why = why
    BY DEF Call
  <1>4. \A method, why : method \notin {"converge", "finish"} /\ Call(method, why) => Reasoned
    BY <1>3 DEF Reasoned, WhyConverge, FinishingConverges
  <1>5. \A why : /\ Call("converge", why)
                 /\ IF why = "shutdown" THEN shutting' ELSE state' # "IDLE"
                 => Reasoned
    BY <1>3 DEF Reasoned, WhyConverge, FinishingConverges
  <1>6. \A why : Call("finish", why) /\ pending' # NotPending => Reasoned
    BY <1>3 DEF Reasoned, WhyConverge, FinishingConverges, Converging
  <1>7. QED
    BY <1>1, <1>2, <1>4, <1>5, <1>6

\* Every step of the dispatch loop keeps the reasons of the convergence.
LEMMA DispatchReasoned ==
    ASSUME Shape, Dispatch
    PROVE  Reasoned
  <1>1. ASSUME flow.at \notin {"stopped", "dead"}, Return PROVE Reasoned
    BY <1>1, Elsewhere
  <1>2. ASSUME NEW cause, Raise(cause) PROVE Reasoned
    BY <1>2, Elsewhere
  <1>3. CASE IgnoreItem \/ HandleAck \/ HandleFact \/ HandleDone \/ HandleOpened
    BY <1>1, <1>2, <1>3 DEF IgnoreItem, HandleAck, HandleFact, HandleDone, HandleOpened, Receive
  <1>4. CASE HandleWake \/ HandleMessage \/ HandleUnknownMessage
    BY <1>1, <1>2, <1>4
    DEF HandleWake, HandleMessage, HandleUnknownMessage, BeginSession, Receive
  <1>5. CASE HandleInterrupt
    <2>1. state # "IDLE"
      BY <1>5, Admitted DEF HandleInterrupt, Receive, Entry
    <2>2. Call("converge", "interrupt") /\ state' = state
      BY <1>5 DEF HandleInterrupt, manager
    <2>3. QED
      BY <2>1, <2>2, Elsewhere
  <1>6. ASSUME NEW rest, NEW ctx, NextConversation(rest, ctx), flow.at = "receive"
        PROVE  Reasoned
    BY <1>1, <1>2, <1>6 DEF NextConversation
  <1>7. CASE HandleRejected \/ HandleClosed \/ HandleLifecycleFailed
    <2>1. flow.at = "receive"
      BY <1>7 DEF HandleRejected, HandleClosed, HandleLifecycleFailed, Receive
    <2>2. Call("e1", "none") => Reasoned
      BY Elsewhere
    <2>3. QED
      BY <1>1, <1>6, <1>7, <2>1, <2>2
      DEF HandleRejected, HandleClosed, HandleLifecycleFailed
  <1>8. CASE HandleRecovered \/ HandlePlannedRecovery \/ ShutdownCleanupFails
    BY <1>1, <1>2, <1>8
    DEF HandleRecovered, HandlePlannedRecovery, ShutdownCleanupFails, Receive
  <1>9. CASE HandleError
    <2>1. Call("e1", "none") => Reasoned
      BY Elsewhere
    <2>2. Call("converge", "error") /\ state' = "ERROR" => Reasoned
      BY Elsewhere
    <2>3. QED
      BY <1>1, <1>9, <2>1, <2>2 DEF HandleError, Receive
  <1>10. CASE HandleShutdown
    BY <1>10, Elsewhere DEF HandleShutdown
  <1>11. CASE ProgressConverging
    BY <1>11, Elsewhere DEF ProgressConverging, Converging, manager
  <1>12. CASE ProgressWaits \/ ProgressEnd \/ ProgressReplace
    BY <1>1, <1>12 DEF ProgressWaits, ProgressEnd, ProgressReplace, Acted, MayProgress, Progress
  <1>13. CASE ProgressToPerception \/ ProgressHeard \/ ProgressKeep
    <2>1. \A method \in {"perception", "think", "action"} : Call(method, "none") => Reasoned
      BY Elsewhere
    <2>2. QED
      BY <1>13, <2>1 DEF ProgressToPerception, ProgressHeard, ProgressKeep
  <1>14. CASE ProgressThought \/ ProgressRest
    <2>1. Call("action", "none") => Reasoned
      BY Elsewhere
    <2>2. Call("converge", "error") /\ state' = "ERROR" => Reasoned
      BY Elsewhere
    <2>3. Call("converge", "rest") /\ state' = "ACTION" => Reasoned
      BY Elsewhere
    <2>4. QED
      BY <1>14, <2>1, <2>2, <2>3 DEF ProgressThought, ProgressRest, Acted
  <1>15. CASE ProgressStop
    BY <1>2, <1>15 DEF ProgressStop, Reasoned, WhyConverge, FinishingConverges
  <1>16. CASE EnterPerception \/ EnterThink \/ EnterAction
    <2>1. Call("converge", "error") /\ state' = "ERROR" => Reasoned
      BY Elsewhere
    <2>2. QED
      BY <1>1, <1>2, <1>16, <2>1 DEF EnterPerception, EnterThink, EnterAction
  <1>17. ASSUME NEW e \in Endured, Converge(e)
         PROVE  Reasoned
    <2>1. CASE \E cause : Raise(cause)
      BY <1>2, <2>1
    <2>2. CASE ~\E cause : Raise(cause)
      <3>1. pending'.trigger = flow.why /\ Call("finish", "none")
        BY <1>17, <2>2 DEF Converge, NotPending
      <3>2. pending' # NotPending
        BY <1>17, <3>1 DEF Converge, Shape, FlowShape, NotPending, Triggers
      <3>3. QED
        BY <3>1, <3>2, Elsewhere
    <2>3. QED
      BY <2>1, <2>2
  <1>18. ASSUME NEW e \in Endured, ConvergeToShutdown(e) \/ LifecycleErrorConverging(e)
         PROVE  Reasoned
    BY <1>1, <1>2, <1>18 DEF ConvergeToShutdown, LifecycleErrorConverging
  <1>19. CASE ConvergeAgain \/ LifecycleError
    <2>1. Call("converge", "error") /\ state' = "ERROR" => Reasoned
      BY Elsewhere
    <2>2. QED
      BY <1>1, <1>19, <2>1 DEF ConvergeAgain, LifecycleError
  <1>20. CASE FinishLater \/ FinishClose \/ FinishRecycle \/ FinishAnnounce \/ FinishIdle
    BY <1>1, <1>2, <1>20
    DEF FinishLater, FinishClose, FinishRecycle, FinishAnnounce, FinishIdle, FinishLast,
        FinishReady, Finishing
  <1>21. CASE FinishStop
    BY <1>2, <1>21 DEF FinishStop, Reasoned, WhyConverge, FinishingConverges
  <1>22. QED
    BY <1>3, <1>4, <1>5, <1>7, <1>8, <1>9, <1>10, <1>11, <1>12, <1>13, <1>14, <1>15,
       <1>16, <1>17, <1>18, <1>19, <1>20, <1>21 DEF Dispatch

-----------------------------------------------------------------------------
(* Recovery, step by step.                                                 *)

\* A step that changes nothing the recovery depends on.
LEMMA RecoveryCalm ==
    ASSUME Shape, Shape', RecoveryInv, NoReport, Reasoned, Fits',
           UNCHANGED <<rm, waiter, shutting>>,
           \/ pending' = pending
           \/ /\ Converging /\ pending' # NotPending
              /\ pending'.ticket = pending.ticket /\ pending'.planned = pending.planned
              /\ pending'.trigger # "shutdown" => pending.trigger # "shutdown",
           state' = state \/ state' # "IDLE",
           session'.blocked = session.blocked \/ session'.blocked,
           \A r \in inflight' : r.phase # "open" \/ \E q \in inflight : q.phase = r.phase
    PROVE  RecoveryInv'
  <1>1. ConvergingIsBlocked'
    BY DEF RecoveryInv, ConvergingIsBlocked, Converging
  <1>2. rm.keys # {} => /\ state' # "IDLE" /\ pending' # NotPending
                        /\ pending'.ticket = pending.ticket
                        /\ pending'.planned = pending.planned
    BY DEF RecoveryInv, Awaited, Converging
  <1>3. QED
    BY <1>1, <1>2, RecoveryKept DEF Reasoned

\* A step after which there are no other phases than before.
PhasesKept == \A r \in inflight' : \E q \in inflight : q.phase = r.phase

\* Records that are dropped, and records a convergence leaves, add no phase.
LEMMA PhasesStay ==
    ASSUME Shape, Fits
    PROVE  /\ inflight' \subseteq inflight => PhasesKept
           /\ \A e \in Endured : inflight' \subseteq RecordsAfter(e) => PhasesKept
           /\ \A e \in Endured : inflight' = Kept(e) => PhasesKept
  <1>1. inflight' \subseteq inflight => PhasesKept
    BY DEF PhasesKept
  <1>2. ASSUME NEW e \in Endured, inflight' \subseteq RecordsAfter(e)
        PROVE  PhasesKept
    <2>1. ASSUME NEW r \in inflight' PROVE \E q \in inflight : q.phase = r.phase
      <3>1. PICK q \in inflight : r = Converged(q, e)
        BY <1>2 DEF RecordsAfter
      <3>2. QED
        BY <3>1, ConvergedIs
    <2>2. QED
      BY <2>1 DEF PhasesKept
  <1>3. \A e : Kept(e) \subseteq RecordsAfter(e)
    BY DEF Kept
  <1>4. QED
    BY <1>1, <1>2, <1>3

\* The records that converge() keeps are of workers: those of lifecycle operations
\* are over and proven.
LEMMA KeptAreWorkers ==
    ASSUME Shape, Fits, NEW e \in Endured, NEW r \in Kept(e)
    PROVE  ~Private(r)
  <1>1. PICK q \in inflight : r = Converged(q, e)
    BY DEF Kept, RecordsAfter
  <1>2. /\ r.phase = q.phase /\ ~Active(r) /\ (q \in Targets /\ Private(q) => r.proven)
        /\ (q.proven => r.proven)
    BY <1>1, ConvergedIs
  <1>3. ~(Private(r) /\ ~Active(r) /\ r.proven)
    BY DEF Kept
  <1>4. Private(q) /\ q \notin Targets => q.proven
    BY DEF Targets
  <1>5. Private(q) = Private(r)
    BY <1>2 DEF Private
  <1>6. QED
    BY <1>2, <1>3, <1>4, <1>5

\* The handlers of the items that come from outside and from workers.
LEMMA RecoveryInputs ==
    ASSUME Shape, Shape', Numbered, RecoveryInv, Dispatch,
           \/ IgnoreItem \/ HandleWake \/ HandleMessage \/ HandleUnknownMessage
           \/ HandleInterrupt \/ HandleAck \/ HandleFact \/ HandleDone
    PROVE  RecoveryInv'
  <1>1. Reasoned /\ Fits'
    BY DispatchReasoned, FitsKept DEF RecoveryInv
  <1>2. NoReport
    <2>1. ~HandleShutdown
      BY Admitted DEF HandleShutdown, IgnoreItem, HandleWake, HandleMessage,
         HandleUnknownMessage, HandleInterrupt, HandleAck, HandleFact, HandleDone, Receive, Entry
    <2>2. QED
      BY <2>1, DispatchReports
  <1>3. ASSUME NEW selected, BeginSession(selected), ~Converging \/ state = "IDLE",
               UNCHANGED rm
        PROVE  RecoveryInv'
    BY <1>1, <1>2, <1>3, RecoveryFree DEF BeginSession, RecoveryInv, Awaited, Reasoned
  <1>4. ASSUME UNCHANGED <<manager, tasks, rm, waiter, shutting>>
        PROVE  RecoveryInv'
    <2>1. \A r \in inflight' : \E q \in inflight : q.phase = r.phase
      BY <1>4 DEF tasks
    <2>2. QED
      BY <1>1, <1>2, <1>4, <2>1, RecoveryCalm DEF manager
  <1>5. CASE IgnoreItem \/ HandleUnknownMessage \/ HandleInterrupt
    BY <1>4, <1>5 DEF IgnoreItem, HandleUnknownMessage, HandleInterrupt, Raise, flags, world
  <1>6. CASE HandleWake
    <2>1. CASE \E cause : Raise(cause)
      BY <1>4, <2>1 DEF Raise, flags, world
    <2>2. CASE ~\E cause : Raise(cause)
      <3>1. BeginSession({"listen"}) /\ UNCHANGED rm
        BY <1>6, <2>2 DEF HandleWake
      <3>2. ~Converging \/ state = "IDLE"
        BY <1>6, Admitted DEF HandleWake, Receive, Entry
      <3>3. QED
        BY <1>3, <3>1, <3>2
    <2>3. QED
      BY <2>1, <2>2
  <1>7. CASE HandleMessage
    <2>1. CASE state = "IDLE" /\ BeginSession({"read"}) /\ UNCHANGED rm
      BY <1>3, <2>1
    <2>2. CASE ~(state = "IDLE" /\ BeginSession({"read"}) /\ UNCHANGED rm)
      BY <1>4, <1>7, <2>2 DEF HandleMessage, Raise, flags, world
    <2>3. QED
      BY <2>1, <2>2
  <1>8. CASE HandleAck
    <2>1. session'.blocked = session.blocked
      BY <1>8 DEF HandleAck, Shape, ManagerShape, Context
    <2>2. \A r \in inflight' : \E q \in inflight : q.phase = r.phase
      BY <1>8 DEF HandleAck, tasks
    <2>3. QED
      BY <1>1, <1>2, <1>8, <2>1, <2>2, RecoveryCalm DEF HandleAck, flags, world
  <1>9. CASE HandleFact
    <2>1. session'.blocked = session.blocked
      BY <1>9 DEF HandleFact, Shape, ManagerShape, Context
    <2> DEFINE q == The(Entry.cid)
    <2>2. q \in inflight /\ q \in InFlight
      BY <1>9, Admitted, Found DEF HandleFact, Receive, Entry, Shape, TasksShape
    <2>3. inflight' = Update(q, [q EXCEPT !.fact = TRUE])
      BY <1>9 DEF HandleFact
    <2> HIDE DEF q
    <2>4. \A r \in inflight' : \E p \in inflight : p.phase = r.phase
      BY <2>2, <2>3 DEF Update, InFlight
    <2>5. QED
      BY <1>1, <1>2, <1>9, <2>1, <2>4, RecoveryCalm DEF HandleFact, flags, world
  <1>10. CASE HandleDone
    <2>1. \A r \in inflight' : \E q \in inflight : q.phase = r.phase
      BY <1>10 DEF HandleDone, Raise, tasks
    <2>2. QED
      BY <1>1, <1>2, <1>10, <2>1, RecoveryCalm DEF HandleDone, Raise, flags, world, manager
  <1>11. QED
    BY <1>5, <1>6, <1>7, <1>8, <1>9, <1>10

\* The handlers of notices, reports and errors, and the shutdown.
LEMMA RecoveryItems ==
    ASSUME Shape, Shape', Numbered, RecoveryInv, Dispatch,
           \/ HandleOpened \/ HandleRejected \/ HandleClosed \/ HandleLifecycleFailed
           \/ HandleRecovered \/ HandlePlannedRecovery \/ HandleError
           \/ ShutdownCleanupFails
    PROVE  RecoveryInv'
  <1>1. Reasoned /\ Fits'
    BY DispatchReasoned, FitsKept DEF RecoveryInv
  <1>2. NoReport
    <2>1. ~HandleShutdown
      BY Admitted
      DEF HandleShutdown, HandleOpened, HandleRejected, HandleClosed, HandleLifecycleFailed,
          HandleRecovered, HandlePlannedRecovery, HandleError, ShutdownCleanupFails, Raise,
          flags, Receive, Entry
    <2>2. QED
      BY <2>1, DispatchReports
  <1>3. ASSUME UNCHANGED <<manager, tasks, rm, waiter, shutting>>
        PROVE  RecoveryInv'
    <2>1. \A r \in inflight' : \E q \in inflight : q.phase = r.phase
      BY <1>3 DEF tasks
    <2>2. QED
      BY <1>1, <1>2, <1>3, <2>1, RecoveryCalm DEF manager
  <1> DEFINE r == The(Entry.cid)
  <1>4. ASSUME HandleOpened \/ HandleRejected \/ HandleClosed \/ HandleLifecycleFailed
        PROVE  r \in inflight
    BY <1>4, Admitted, Found
    DEF HandleOpened, HandleRejected, HandleClosed, HandleLifecycleFailed, Receive, Entry
  <1>5. ASSUME NEW rest, NEW ctx, NextConversation(rest, ctx), ~Converging
        PROVE  RecoveryInv'
    <2>1. UNCHANGED rm /\ pending' = NotPending
      BY <1>5 DEF NextConversation, Raise, world, manager, Converging
    <2>2. QED
      BY <1>1, <1>2, <1>5, <2>1, RecoveryFree DEF Reasoned
  <1>6. CASE HandleOpened
    <2>1. r \in inflight /\ r.task = "ready" /\ UNCHANGED <<pending, rm>>
      BY <1>4, <1>6 DEF HandleOpened, world
    <2>2. r.phase = "open"
      BY <2>1 DEF RecoveryInv, Fits
    <2>3. ~Converging
      BY <2>1, <2>2 DEF RecoveryInv, ConvergingIsBlocked
    <2>4. QED
      BY <1>1, <1>2, <2>1, <2>3, RecoveryFree DEF Reasoned, Converging
  <1>7. CASE HandleRejected
    BY <1>3, <1>5, <1>7 DEF HandleRejected, world, flags
  <1>8. CASE HandleClosed
    <2>1. CASE ~Converging /\ session.route = "REPLACE_NEXT"
      BY <1>5, <1>8, <2>1 DEF HandleClosed
    <2>2. CASE ~(~Converging /\ session.route = "REPLACE_NEXT")
      <3>1. /\ inflight' = inflight \ {r} /\ session' = [session EXCEPT !.conv = "none"]
            /\ pending' = IF Converging THEN Proved ELSE pending
            /\ UNCHANGED <<state, rm, waiter, shutting>>
        BY <1>8, <2>2 DEF HandleClosed, flags, world
      <3>2. session'.blocked = session.blocked
        BY <3>1 DEF Shape, ManagerShape, Context
      <3>3. Proved # NotPending /\ Proved.ticket = pending.ticket
            /\ Proved.planned = pending.planned /\ Proved.trigger = pending.trigger
        <4>1. Proved.phase = "recovery"
          BY DEF Proved, Shape, ManagerShape, Pending
        <4>2. QED
          BY <4>1 DEF Proved, NotPending, Shape, ManagerShape, Pending
      <3>4. \A p \in inflight' : \E q \in inflight : q.phase = p.phase
        BY <3>1
      <3>5. QED
        BY <1>1, <1>2, <3>1, <3>2, <3>3, <3>4, RecoveryCalm
    <2>3. QED
      BY <2>1, <2>2
  <1>9. CASE HandleLifecycleFailed
    <2>1. \A p \in inflight' : \E q \in inflight : q.phase = p.phase
      BY <1>9 DEF HandleLifecycleFailed
    <2>2. QED
      BY <1>1, <1>2, <1>9, <2>1, RecoveryCalm DEF HandleLifecycleFailed, flags, world, manager
  <1>10. ASSUME HandleRecovered \/ HandlePlannedRecovery
         PROVE  rm.keys = {} /\ Converging
    <2>1. /\ Entry.type \in {"recovered", "planned"} /\ waiter = Entry.waiter
          /\ 1 \in DOMAIN inbox /\ Entry = inbox[1] /\ Converging
      BY <1>10, Admitted, Taken
      DEF HandleRecovered, HandlePlannedRecovery, Receive, Entry, Shape, InboxShape
    <2>2. QED
      BY <2>1 DEF RecoveryInv, ReportsInOrder, Awaited
  <1>11. CASE HandleRecovered
    <2>1. CASE Raise("recovery")
      BY <1>3, <2>1 DEF Raise, flags, world
    <2>2. CASE ~Raise("recovery")
      <3>1. /\ pending' = [pending EXCEPT !.ticket = 0]
            /\ UNCHANGED <<state, session, inflight, rm, shutting>>
        BY <1>11, <2>2 DEF HandleRecovered, tasks, world
      <3>2. pending'.trigger = pending.trigger
        BY <3>1 DEF Shape, ManagerShape, Pending
      <3>3. ConvergingIsBlocked'
        BY <1>10, <1>11, <3>1, <3>2 DEF RecoveryInv, ConvergingIsBlocked
      <3>4. QED
        BY <1>1, <1>2, <1>10, <1>11, <3>1, <3>3, RecoveryKept DEF Reasoned
    <2>3. QED
      BY <2>1, <2>2
  <1>12. CASE HandlePlannedRecovery
    <2>1. UNCHANGED <<manager, tasks, rm, shutting>>
      BY <1>12 DEF HandlePlannedRecovery, Raise, flags, world
    <2>2. ConvergingIsBlocked'
      BY <2>1 DEF RecoveryInv, ConvergingIsBlocked, Converging, manager, tasks
    <2>3. QED
      BY <1>1, <1>2, <1>10, <1>12, <2>1, <2>2, RecoveryKept DEF Reasoned
  <1>13. CASE HandleError
    <2>1. /\ UNCHANGED <<session, tasks, rm, waiter, shutting>>
          /\ pending' \in {pending, [pending EXCEPT !.policy = "discard"]}
          /\ pending' = pending \/ Converging
          /\ state' \in {state, "ERROR"}
      BY <1>13 DEF HandleError, world
    <2>2. Converging /\ pending' # pending =>
             /\ pending' # NotPending /\ pending'.ticket = pending.ticket
             /\ pending'.planned = pending.planned /\ pending'.trigger = pending.trigger
      <3> SUFFICES ASSUME pending' = [pending EXCEPT !.policy = "discard"]
                   PROVE  /\ pending' # NotPending /\ pending'.ticket = pending.ticket
                          /\ pending'.planned = pending.planned
                          /\ pending'.trigger = pending.trigger
        BY <2>1
      <3>1. pending'.policy = "discard"
        BY DEF Shape, ManagerShape, Pending
      <3>2. QED
        BY <3>1 DEF NotPending, Shape, ManagerShape, Pending
    <2>3. \A p \in inflight' : \E q \in inflight : q.phase = p.phase
      BY <2>1 DEF tasks
    <2>4. QED
      BY <1>1, <1>2, <2>1, <2>2, <2>3, RecoveryCalm
  <1>14. CASE ShutdownCleanupFails
    BY <1>3, <1>14 DEF ShutdownCleanupFails, Raise, flags, world
  <1>15. QED
    BY <1>6, <1>7, <1>8, <1>9, <1>11, <1>12, <1>13, <1>14

\* The shutdown ends the recovery, and says so in the inbox.
LEMMA RecoveryShutdown ==
    ASSUME Shape, Shape', Numbered, RecoveryInv, Dispatch, HandleShutdown
    PROVE  RecoveryInv'
  <1>1. Reasoned /\ Fits'
    BY DispatchReasoned, FitsKept DEF RecoveryInv
  <1>2. UNCHANGED <<manager, tasks>> /\ rm' \in {rm, [rm EXCEPT !.keys = {}, !.ready = FALSE]}
    BY DEF HandleShutdown
  <1>3. rm'.keys = {} /\ rm'.ticket = rm.ticket /\ rm.ticket \in Nat
    BY DEF HandleShutdown, Shape, WorldShape, Resources
  <1>4. Awaited' /\ ConvergingIsBlocked'
    BY <1>2, <1>3 DEF Awaited, RecoveryInv, ConvergingIsBlocked, Converging, manager, tasks
  <1>5. ReportsInOrder'
    <2> DEFINE report == [type |-> IF pending.planned THEN "planned" ELSE "recovered",
                          waiter |-> rm.ticket, how |-> "cancelled"]
    <2>1. report \in Items /\ report.waiter = rm.ticket
      BY <1>3 DEF Items, Recoveries
    <2> HIDE DEF report
    <2>2. inbox # <<>> /\ inbox' \in {Tail(inbox), Append(Tail(inbox), report)}
      BY DEF HandleShutdown, report
    <2>3. inbox \in Seq(Items) /\ Tail(inbox) \in Seq(Items)
      BY <2>2, Taken DEF Shape, InboxShape
    <2>4. \A i \in DOMAIN Append(Tail(inbox), report) :
             \/ i \in DOMAIN Tail(inbox) /\ Append(Tail(inbox), report)[i] = Tail(inbox)[i]
             \/ Append(Tail(inbox), report)[i] = report
      BY <2>1, <2>3
    <2>5. \A i \in DOMAIN Tail(inbox) : \E j \in DOMAIN inbox : Tail(inbox)[i] = inbox[j]
      BY <2>2, <2>3, Taken
    <2>6. \A i \in DOMAIN inbox' : \/ inbox'[i] = report
                                   \/ \E j \in DOMAIN inbox : inbox'[i] = inbox[j]
      <3>1. CASE inbox' = Tail(inbox)
        BY <2>5, <3>1
      <3>2. CASE inbox' = Append(Tail(inbox), report)
        BY <2>4, <2>5, <3>2
      <3>3. QED
        BY <2>2, <3>1, <3>2
    <2>7. \A i \in DOMAIN inbox' : inbox'[i].type \in {"recovered", "planned"} =>
              inbox'[i].waiter <= rm.ticket
      BY <1>3, <2>1, <2>6 DEF RecoveryInv, ReportsInOrder
    <2>8. QED
      BY <1>3, <2>7 DEF ReportsInOrder
  <1>6. QED
    BY <1>1, <1>4, <1>5 DEF RecoveryInv, Reasoned

\* Progress is made by a session that does not converge.
LEMMA RecoveryProgress ==
    ASSUME Shape, Shape', Numbered, RecoveryInv, Dispatch,
           \/ ProgressConverging \/ ProgressWaits \/ ProgressToPerception \/ ProgressHeard
           \/ ProgressThought \/ ProgressRest \/ ProgressEnd \/ ProgressReplace
           \/ ProgressKeep \/ ProgressStop
           \/ EnterPerception \/ EnterThink \/ EnterAction \/ LifecycleError
    PROVE  RecoveryInv'
  <1>1. Reasoned /\ Fits'
    BY DispatchReasoned, FitsKept DEF RecoveryInv
  <1>2. NoReport
    <2>1. ~HandleShutdown
      BY DEF HandleShutdown, ProgressConverging, ProgressWaits, ProgressToPerception,
             ProgressHeard, ProgressThought, ProgressRest, ProgressEnd, ProgressReplace,
             ProgressKeep, ProgressStop, EnterPerception, EnterThink, EnterAction,
             LifecycleError, Acted, MayProgress, Progress
    <2>2. QED
      BY <2>1, DispatchReports
  <1>3. CASE ProgressConverging \/ ProgressStop
    <2>1. UNCHANGED <<manager, tasks, rm, waiter, shutting>>
      BY <1>3 DEF ProgressConverging, ProgressStop, Raise, flags, world
    <2>2. \A r \in inflight' : \E q \in inflight : q.phase = r.phase
      BY <2>1 DEF tasks
    <2>3. QED
      BY <1>1, <1>2, <2>1, <2>2, RecoveryCalm DEF manager
  <1>4. CASE \/ ProgressWaits \/ ProgressToPerception \/ ProgressHeard \/ ProgressThought
    <2>1. pending' = NotPending /\ UNCHANGED rm
      BY <1>4 DEF ProgressWaits, ProgressToPerception, ProgressHeard, ProgressThought,
                  MayProgress, Converging, manager, world
    <2>2. QED
      BY <1>1, <1>2, <1>4, <2>1, RecoveryFree
      DEF Reasoned, ProgressWaits, ProgressToPerception, ProgressHeard, ProgressThought,
          MayProgress
  <1>5. CASE \/ ProgressRest \/ ProgressEnd \/ ProgressReplace \/ ProgressKeep \/ LifecycleError
    <2>1. pending' = NotPending /\ UNCHANGED rm /\ ~Converging
      BY <1>5 DEF ProgressRest, ProgressEnd, ProgressReplace, ProgressKeep, LifecycleError,
                  Acted, MayProgress, Converging, world
    <2>2. QED
      BY <1>1, <1>2, <2>1, RecoveryFree DEF Reasoned
  <1>6. CASE EnterPerception
    <2>1. UNCHANGED <<pending, rm, waiter, shutting>> /\ state' \in {state, "ERROR"}
      BY <1>6 DEF EnterPerception
    <2>2. session'.blocked = session.blocked
      <3>1. session' = [session EXCEPT !.turn = NextTurn, !.results = {}, !.resp = NoResponse,
                                       !.done = "none"]
        BY <1>6 DEF EnterPerception
      <3>2. QED
        BY <3>1 DEF Shape, ManagerShape, Context
    <2>3. \A r \in inflight' : r.phase # "open" \/ \E q \in inflight : q.phase = r.phase
      BY <1>6, SensesStart DEF tasks
    <2>4. QED
      BY <1>1, <1>2, <2>1, <2>2, <2>3, RecoveryCalm
  <1>7. CASE EnterThink \/ EnterAction
    <2>1. UNCHANGED <<state, pending, rm, waiter, shutting>>
      BY <1>7 DEF EnterThink, EnterAction, Raise, flags, world, manager
    <2>2. session'.blocked = session.blocked
      BY <1>7 DEF EnterThink, EnterAction, Raise, manager, Shape, ManagerShape, Context
    <2>3. \A r \in inflight' : r.phase # "open" \/ \E q \in inflight : q.phase = r.phase
      BY <1>7 DEF EnterThink, EnterAction, Raise, tasks, Launch, Record
    <2>4. QED
      BY <1>1, <1>2, <2>1, <2>2, <2>3, RecoveryCalm
  <1>8. QED
    BY <1>3, <1>4, <1>5, <1>6, <1>7

\* A convergence begins, meets another reason, or gives way to the shutdown.
LEMMA RecoveryConverge ==
    ASSUME Shape, Shape', Numbered, RecoveryInv, Dispatch,
           \/ ConvergeAgain
           \/ \E e \in Endured : \/ Converge(e) \/ ConvergeToShutdown(e)
                                 \/ LifecycleErrorConverging(e)
    PROVE  RecoveryInv'
  <1>1. Reasoned /\ Fits'
    BY DispatchReasoned, FitsKept DEF RecoveryInv
  <1>2. NoReport
    <2>1. ~HandleShutdown
      BY DEF HandleShutdown, Converge, ConvergeAgain, ConvergeToShutdown,
             LifecycleErrorConverging
    <2>2. QED
      BY SMTT(60), <2>1, DispatchReports
  <1>3. ASSUME NEW cause, Raise(cause)
        PROVE  RecoveryInv'
    <2>1. UNCHANGED <<manager, tasks, rm, waiter, shutting>>
      BY <1>3 DEF Raise, flags, world
    <2>2. \A r \in inflight' : \E q \in inflight : q.phase = r.phase
      BY <2>1 DEF tasks
    <2>3. QED
      BY <1>1, <1>2, <2>1, <2>2, RecoveryCalm DEF manager
  <1> DEFINE stopped == [session EXCEPT !.blocked = TRUE]
  <1>4. stopped.blocked /\ (session = NoContext => session.blocked)
    BY BlockedIsContext DEF NoContext
  <1>5. CASE ConvergeAgain
    <2>1. UNCHANGED <<state, pending, rm, waiter, shutting>> /\ session' \in {session, stopped}
      BY <1>5 DEF ConvergeAgain, world
    <2>2. \A r \in inflight' : \E q \in inflight : q.phase = r.phase
      BY <1>5 DEF ConvergeAgain, tasks
    <2>3. QED
      BY <1>1, <1>2, <1>4, <2>1, <2>2, RecoveryCalm
  <1>6. ASSUME NEW e \in Endured, Converge(e), ~\E cause : Raise(cause)
        PROVE  RecoveryInv'
    <2> DEFINE declared == IF flow.why = "error" THEN faultKeys ELSE {}
               keys == Destroyed(e) \cup declared
               recover == keys # {} /\ flow.why # "shutdown"
    <2>1. /\ recover => CanRecover
          /\ session' = IF session = NoContext THEN session ELSE stopped
          /\ inflight' = Kept(e) /\ UNCHANGED shutting
          /\ pending'.trigger = flow.why
          /\ pending'.ticket = IF recover THEN rm.ticket + 1 ELSE 0
          /\ IF recover THEN rm' = Recovery(keys) /\ waiter' = rm.ticket + 1 /\ state' = "ERROR"
                        ELSE UNCHANGED <<rm, waiter, state>>
          /\ ~Converging
      BY ZenonT(60), <1>6 DEF Converge, NotPending
    <2>2. flow.why \in Triggers /\ flow.at = "converge"
      BY <1>6 DEF Converge, Shape, FlowShape
    <2>3. pending' # NotPending
      BY <2>1, <2>2 DEF NotPending, Triggers
    <2>4. session'.blocked
      BY <1>4, <2>1
    <2>5. \A r \in inflight' : r.phase # "open"
      BY <2>1, KeptAreWorkers DEF Private, RecoveryInv
    <2>6. flow.why # "shutdown" => state # "IDLE"
      BY <2>2 DEF RecoveryInv, WhyConverge
    <2>7. ConvergingIsBlocked'
      BY <2>1, <2>4, <2>5, <2>6 DEF ConvergingIsBlocked
    <2> HIDE DEF declared, keys, recover
    <2>8. CASE recover
      <3>1. /\ CanRecover /\ rm' = Recovery(keys) /\ waiter' = rm.ticket + 1
            /\ state' = "ERROR" /\ pending'.ticket = rm.ticket + 1
        BY <2>1, <2>8
      <3>2. state' # "IDLE" /\ shutting' = shutting
        BY <2>1, <3>1
      <3>3. QED
        BY <1>1, <1>2, <2>3, <2>7, <3>1, <3>2, RecoveryBegun DEF Reasoned
    <2>9. CASE ~recover
      <3>1. rm.keys = {} /\ UNCHANGED rm
        BY <2>1, <2>9 DEF RecoveryInv, Awaited
      <3>2. QED
        BY <1>1, <1>2, <2>7, <3>1, RecoveryKept DEF Reasoned
    <2>10. QED
      BY SMTT(60), <2>8, <2>9
  <1>7. ASSUME NEW e \in Endured, ConvergeToShutdown(e), ~Lost(e)
        PROVE  RecoveryInv'
    <2>1. /\ session' = IF session = NoContext THEN session ELSE stopped
          /\ pending' = [pending EXCEPT !.trigger = "shutdown", !.policy = "discard",
                                        !.ticket = 0]
          /\ inflight' = RecordsAfter(e) /\ UNCHANGED rm
          /\ Converging /\ flow.at = "converge" /\ flow.why = "shutdown"
      BY <1>7 DEF ConvergeToShutdown
    <2>2. rm.keys = {}
      BY <2>1 DEF RecoveryInv, WhyConverge, Awaited
    <2>3. pending'.trigger = "shutdown"
      BY <2>1 DEF Shape, ManagerShape, Pending
    <2>4. \A r \in inflight' : \E q \in inflight : q.phase = r.phase
      BY <2>1, PhasesStay DEF PhasesKept, RecoveryInv
    <2>5. ConvergingIsBlocked'
      BY <1>4, <2>1, <2>3, <2>4 DEF ConvergingIsBlocked, RecoveryInv
    <2>6. QED
      BY <1>1, <1>2, <2>1, <2>2, <2>5, RecoveryKept DEF Reasoned
  <1>8. ASSUME NEW e \in Endured, LifecycleErrorConverging(e), ~\E cause : Raise(cause)
        PROVE  RecoveryInv'
    <2> DEFINE toShutdown == pending.trigger = "shutdown"
               recover == Destroyed(e) # {} /\ ~toShutdown
               next == [pending EXCEPT
                           !.trigger = IF toShutdown THEN @ ELSE "error",
                           !.policy = IF toShutdown THEN @ ELSE "discard",
                           !.phase = "recovery",
                           !.ticket = IF recover THEN rm.ticket + 1 ELSE @]
    <2>1. /\ recover => CanRecover
          /\ pending' = next /\ inflight' = Kept(e) /\ UNCHANGED shutting
          /\ IF recover THEN rm' = Recovery(Destroyed(e)) /\ waiter' = rm.ticket + 1
                        ELSE UNCHANGED <<rm, waiter>>
          /\ state' = "ERROR" /\ session' \in {session, stopped} /\ Converging
      BY <1>8 DEF LifecycleErrorConverging
    <2>2. /\ next.phase = "recovery" /\ next.planned = pending.planned
          /\ next.ticket = IF recover THEN rm.ticket + 1 ELSE pending.ticket
      BY DEF Shape, ManagerShape, Pending
    <2> HIDE DEF next
    <2>3. pending' # NotPending
      BY <2>1, <2>2 DEF NotPending
    <2>4. session'.blocked
      BY <1>4, <2>1 DEF RecoveryInv, ConvergingIsBlocked
    <2>5. \A r \in inflight' : r.phase # "open"
      BY <2>1, KeptAreWorkers DEF Private, RecoveryInv
    <2>6. ConvergingIsBlocked'
      BY <2>1, <2>4, <2>5 DEF ConvergingIsBlocked
    <2>7. CASE recover
      BY <1>1, <1>2, <2>1, <2>2, <2>3, <2>6, <2>7, RecoveryBegun DEF Reasoned
    <2>8. CASE ~recover
      BY <1>1, <1>2, <2>1, <2>2, <2>3, <2>6, <2>8, RecoveryKept DEF Reasoned
    <2>9. QED
      BY SMTT(60), <2>7, <2>8
  <1>9. \A e \in Endured : ConvergeToShutdown(e) /\ Lost(e) => Raise("level3")
    BY DEF ConvergeToShutdown
  <1>10. QED
    BY <1>3, <1>5, <1>6, <1>7, <1>8, <1>9

\* The end of a convergence waits for the recovery, or begins the planned one.
LEMMA RecoveryFinish ==
    ASSUME Shape, Shape', Numbered, RecoveryInv, Dispatch,
           \/ FinishLater \/ FinishClose \/ FinishRecycle \/ FinishAnnounce
           \/ FinishStop \/ FinishIdle
    PROVE  RecoveryInv'
  <1>1. Reasoned /\ Fits'
    BY DispatchReasoned, FitsKept DEF RecoveryInv
  <1>2. flow.at = "finish"
    BY DEF FinishLater, FinishClose, FinishRecycle, FinishAnnounce, FinishStop, FinishIdle,
           FinishLast, FinishReady, Finishing
  <1>3. Converging /\ NoReport
    <2>1. ~HandleShutdown
      BY <1>2 DEF HandleShutdown
    <2>2. QED
      BY <1>2, <2>1, DispatchReports DEF RecoveryInv, FinishingConverges
  <1>4. ASSUME ~FinishWaits
        PROVE  rm.keys = {} /\ inflight = {}
    <2>1. rm.ticket \in Nat
      BY DEF Shape, WorldShape, Resources
    <2>2. QED
      BY <1>4, <2>1 DEF FinishWaits, RecoveryInv, Awaited
  <1>5. ASSUME NEW cause, Raise(cause)
        PROVE  RecoveryInv'
    <2>1. UNCHANGED <<manager, tasks, rm, waiter, shutting>>
      BY <1>5 DEF Raise, flags, world
    <2>2. \A r \in inflight' : \E q \in inflight : q.phase = r.phase
      BY <2>1 DEF tasks
    <2>3. QED
      BY <1>1, <1>3, <2>1, <2>2, RecoveryCalm DEF manager
  <1>6. CASE FinishLater
    <2>1. UNCHANGED <<manager, tasks, rm, waiter, shutting>>
      BY <1>6 DEF FinishLater, flags, world
    <2>2. \A r \in inflight' : \E q \in inflight : q.phase = r.phase
      BY <2>1 DEF tasks
    <2>3. QED
      BY <1>1, <1>3, <2>1, <2>2, RecoveryCalm DEF manager
  <1>7. CASE FinishClose
    <2>1. /\ pending' = [pending EXCEPT !.phase = "conversation_close"]
          /\ session' = [session EXCEPT !.conv = "closing", !.blocked = TRUE]
          /\ Launch(inflight, "close", "conversation") /\ UNCHANGED <<state, rm, waiter, shutting>>
      BY <1>7 DEF FinishClose, flags, world
    <2>2. /\ pending'.phase = "conversation_close" /\ pending'.ticket = pending.ticket
          /\ pending'.planned = pending.planned /\ pending'.trigger = pending.trigger
      BY <2>1 DEF Shape, ManagerShape, Pending
    <2>3. pending' # NotPending
      BY <2>2 DEF NotPending
    <2>4. session'.blocked
      BY <2>1 DEF Shape, ManagerShape, Context
    <2>5. \A r \in inflight' : r.phase # "open" \/ \E q \in inflight : q.phase = r.phase
      BY <2>1 DEF Launch, Record
    <2>6. QED
      BY <1>1, <1>3, <2>1, <2>2, <2>3, <2>4, <2>5, RecoveryCalm
  <1>8. CASE FinishAnnounce
    <2>1. /\ pending' = [pending EXCEPT !.noticed = TRUE]
          /\ Launch(inflight, "error_notice", "speak")
          /\ UNCHANGED <<state, session, rm, waiter, shutting>>
      BY <1>8 DEF FinishAnnounce, flags, world
    <2>2. /\ pending'.noticed = TRUE /\ pending'.ticket = pending.ticket
          /\ pending'.planned = pending.planned /\ pending'.trigger = pending.trigger
      BY <2>1 DEF Shape, ManagerShape, Pending
    <2>3. pending' # NotPending
      BY <2>2 DEF NotPending
    <2>4. \A r \in inflight' : r.phase # "open" \/ \E q \in inflight : q.phase = r.phase
      BY <2>1 DEF Launch, Record
    <2>5. QED
      BY <1>1, <1>3, <2>1, <2>2, <2>3, <2>4, RecoveryCalm
  <1>9. CASE FinishRecycle
    <2>1. CASE \E cause : Raise(cause)
      BY <1>5, <2>1
    <2>2. CASE ~\E cause : Raise(cause)
      <3>1. /\ pending' = [pending EXCEPT !.planned = TRUE] /\ CanRecover
            /\ rm' = Recovery({"llm"}) /\ waiter' = rm.ticket + 1
            /\ UNCHANGED <<state, session, inflight, shutting>>
            /\ pending.trigger # "shutdown"
        BY <1>9, <2>2 DEF FinishRecycle, tasks, MustRecycle
      <3>2. pending'.planned /\ pending'.trigger = pending.trigger
        BY <3>1 DEF Shape, ManagerShape, Pending
      <3>3. pending' # NotPending
        BY <3>2 DEF NotPending
      <3>4. ConvergingIsBlocked' /\ state' # "IDLE"
        BY <1>3, <3>1, <3>2 DEF RecoveryInv, ConvergingIsBlocked
      <3>5. QED
        BY <1>1, <1>3, <3>1, <3>2, <3>3, <3>4, RecoveryBegun DEF Reasoned
    <2>3. QED
      BY <2>1, <2>2
  <1>10. CASE FinishStop \/ FinishIdle
    <2>1. CASE \E cause : Raise(cause)
      BY <1>5, <2>1
    <2>2. CASE ~\E cause : Raise(cause)
      <3>1. pending' = NotPending /\ UNCHANGED rm /\ ~FinishWaits
        BY <1>10, <2>2 DEF FinishStop, FinishIdle, FinishLast, FinishReady
      <3>2. QED
        BY <1>1, <1>3, <1>4, <3>1, RecoveryFree DEF Reasoned
    <2>3. QED
      BY <2>1, <2>2
  <1>11. QED
    BY <1>6, <1>7, <1>8, <1>9, <1>10

\* One record whose task goes on or ends, everything else of the manager as it was.
WorkOf(r, task) ==
    /\ r \in inflight /\ task \in TaskStates
    /\ inflight' = Update(r, [r EXCEPT !.task = task])
    /\ UNCHANGED <<manager, cids, flow, rm, waiter, shutting>>

\* Every step of a worker or a lifecycle operation is one, and what it may say.
LEMMA WorkIs ==
    ASSUME Shape, Numbered, Work
    PROVE  \E r \in inflight, task \in TaskStates :
              /\ WorkOf(r, task)
              /\ \/ /\ r.task = "running" /\ task = "published" /\ ~Private(r)
                    /\ \E value \in ValuesOf(r.phase) : Put(<<Fact(r, value)>>)
                 \/ /\ r.task = "published" /\ task = "returned"
                    /\ Put(<<Completed(r)>>)
                 \/ /\ r.task = "running" /\ task \in {"raised", "fault"} /\ ~Private(r)
                    /\ \E keys \in {{}, Key(r)} :
                          /\ Put(<<ErrorOccurred(keys, r.kind = "listen"), Completed(r)>>)
                          /\ (keys = {}) = (task = "raised")
                 \/ /\ r.task = "running" /\ r.phase = "open"
                    /\ task \in {"ready", "rejected", "raised"} /\ Put(<<Completed(r)>>)
                 \/ /\ r.task = "running" /\ r.phase = "close"
                    /\ task \in {"closed", "raised", "fault"} /\ Put(<<Completed(r)>>)
  <1>1. PICK r \in inflight :
              \/ PublishHeard(r) \/ PublishRead(r) \/ PublishThought(r) \/ PublishDone(r)
              \/ ReturnWorker(r) \/ OpenEnds(r) \/ CloseEnds(r)
              \/ \E keys \in {{}, Key(r)} : FaultWorker(r, keys)
    BY DEF Work
  <1>2. r \in InFlight /\ r.kind \in KindsOf(r.phase) /\ r.phase \in Phases
    BY DEF Shape, TasksShape, Numbered, InFlight
  <1>3. ASSUME NEW task \in TaskStates, inflight' = Update(r, [r EXCEPT !.task = task]),
               Keep, UNCHANGED rm
        PROVE  WorkOf(r, task)
    BY <1>3 DEF WorkOf, Keep
  <1>4. ASSUME NEW value \in ValuesOf(r.phase), Publish(r, value)
        PROVE  /\ WorkOf(r, "published") /\ "published" \in TaskStates
               /\ r.task = "running" /\ ~Private(r)
               /\ \E v \in ValuesOf(r.phase) : Put(<<Fact(r, v)>>)
    BY <1>3, <1>4 DEF Publish, TaskStates
  <1>5. CASE PublishHeard(r) \/ PublishRead(r)
    <2>1. ValuesOf(r.phase) = Heards
      BY <1>2, <1>5 DEF PublishHeard, PublishRead, KindsOf, ValuesOf, ActionKinds
    <2>2. QED
      BY <1>4, <1>5, <2>1 DEF PublishHeard, PublishRead, Heards
  <1>6. CASE PublishThought(r)
    <2>1. ValuesOf(r.phase) = Response
      BY <1>6 DEF PublishThought, ValuesOf
    <2>2. scenario.answers \subseteq Response
      BY ManagerAssumption DEF Shape, FlagsShape
    <2>3. [kind |-> "rest", route |-> "END_SESSION", next |-> {}] \in Response
      BY DEF Response, ActionKinds, Routes
    <2>4. QED
      BY <1>4, <1>6, <2>1, <2>2, <2>3 DEF PublishThought
  <1>7. CASE PublishDone(r)
    <2>1. ValuesOf(r.phase) = Outcomes
      BY <1>7 DEF PublishDone, ValuesOf
    <2>2. QED
      BY <1>4, <1>7, <2>1 DEF PublishDone, Outcomes
  <1>8. CASE ReturnWorker(r)
    BY <1>3, <1>8 DEF ReturnWorker, world, TaskStates
  <1>9. CASE OpenEnds(r)
    BY <1>3, <1>9 DEF OpenEnds, EndLifecycle, TaskStates
  <1>10. CASE CloseEnds(r)
    BY <1>3, <1>10 DEF CloseEnds, EndLifecycle, TaskStates
  <1>11. CASE \E keys \in {{}, Key(r)} : FaultWorker(r, keys)
    <2>1. PICK keys \in {{}, Key(r)} : FaultWorker(r, keys)
      BY <1>11
    <2> DEFINE task == IF keys = {} THEN "raised" ELSE "fault"
    <2>2. WorkOf(r, task) /\ task \in TaskStates
      BY <1>3, <2>1 DEF FaultWorker, TaskStates
    <2>3. /\ r.task = "running" /\ ~Private(r) /\ task \in {"raised", "fault"}
          /\ Put(<<ErrorOccurred(keys, r.kind = "listen"), Completed(r)>>)
          /\ (keys = {}) = (task = "raised")
      BY <2>1 DEF FaultWorker
    <2> HIDE DEF task
    <2>4. QED
      BY <2>2, <2>3
  <1>12. QED
    BY <1>1, <1>5, <1>6, <1>7, <1>8, <1>9, <1>10, <1>11


\* A task that works, reports or ends changes nothing the recovery depends on.
LEMMA RecoveryWork ==
    ASSUME Shape, Shape', Numbered, RecoveryInv, Work
    PROVE  RecoveryInv'
  <1>1. PICK r \in inflight, task \in TaskStates :
              /\ WorkOf(r, task)
              /\ \/ /\ r.task = "running" /\ task = "published" /\ ~Private(r)
                    /\ \E value \in ValuesOf(r.phase) : Put(<<Fact(r, value)>>)
                 \/ /\ r.task = "published" /\ task = "returned"
                    /\ Put(<<Completed(r)>>)
                 \/ /\ r.task = "running" /\ task \in {"raised", "fault"} /\ ~Private(r)
                    /\ \E keys \in {{}, Key(r)} :
                          /\ Put(<<ErrorOccurred(keys, r.kind = "listen"), Completed(r)>>)
                          /\ (keys = {}) = (task = "raised")
                 \/ /\ r.task = "running" /\ r.phase = "open"
                    /\ task \in {"ready", "rejected", "raised"} /\ Put(<<Completed(r)>>)
                 \/ /\ r.task = "running" /\ r.phase = "close"
                    /\ task \in {"closed", "raised", "fault"} /\ Put(<<Completed(r)>>)
    BY WorkIs
  <1>2. r \in InFlight
    BY DEF Shape, TasksShape
  <1>3. /\ ~Private(r) => ValuesOf(r.phase) \subseteq Heards \cup Response \cup Outcomes
        /\ \A value \in Heards \cup Response \cup Outcomes :
              Fact(r, value) \in Items /\ Fact(r, value).type = "fact"
    BY <1>2 DEF ValuesOf, Fact, InFlight, Items, Facts
  <1>4. Completed(r) \in Items /\ Completed(r).type \notin {"recovered", "planned"}
    BY <1>2 DEF Completed, InFlight, Items, Notices
  <1>5. \A keys \in {{}, Key(r)} :
            LET error == ErrorOccurred(keys, r.kind = "listen")
            IN error \in Items /\ error.type = "error"
    BY DEF Key, ErrorOccurred, Items, Errors, Keys
  <1>6. NoReport
    <2>1. ASSUME NEW value \in ValuesOf(r.phase), ~Private(r), Put(<<Fact(r, value)>>)
          PROVE  NoReport
      BY <1>3, <2>1, NoReportOne DEF Put
    <2>2. ASSUME Put(<<Completed(r)>>) PROVE NoReport
      BY <1>4, <2>2, NoReportOne DEF Put
    <2>3. ASSUME NEW keys \in {{}, Key(r)},
                 Put(<<ErrorOccurred(keys, r.kind = "listen"), Completed(r)>>)
          PROVE  NoReport
      BY <1>4, <1>5, <2>3, NoReportTwo DEF Put
    <2>4. QED
      BY <1>1, <2>1, <2>2, <2>3
  <1> DEFINE s == [r EXCEPT !.task = task]
  <1>7. s.phase = r.phase /\ s.task = task
    BY <1>2 DEF InFlight
  <1>8. inflight' = Update(r, s)
    BY <1>1 DEF WorkOf
  <1>9. Fits' /\ PhasesKept
    <2>1. /\ task \in {"ready", "rejected", "cancelled"} => r.phase = "open"
          /\ task = "closed" => r.phase = "close"
          /\ task \in {"published", "returned"} => ~Private(r)
      BY <1>1 DEF RecoveryInv, Fits, Private
    <2> HIDE DEF s
    <2>2. QED
      BY <1>7, <1>8, <2>1 DEF RecoveryInv, Fits, Private, Update, PhasesKept
  <1>10. UNCHANGED <<manager, flow, rm, waiter, shutting>>
    BY <1>1 DEF WorkOf
  <1>11. Reasoned
    BY <1>10 DEF Reasoned, RecoveryInv, WhyConverge, FinishingConverges, manager, Converging
  <1>12. QED
    BY <1>6, <1>9, <1>10, <1>11, RecoveryCalm DEF PhasesKept, manager

\* Nor do the signals, the messages, the timer of the wake and a backend that dies.
LEMMA RecoveryWorld ==
    ASSUME Shape, Shape', Numbered, RecoveryInv, World \/ AckElapses
    PROVE  RecoveryInv'
  <1>1. Keep /\ UNCHANGED <<inflight, rm>>
    BY DEF World, Signalled, Input, Ingest, EngineDies, AckElapses
  <1>2. NoReport
    <2>1. ASSUME NEW type \in {"button", "wake", "interrupt", "shutdown", "error"}, Input(type)
          PROVE  NoReport
      <3> DEFINE x == IF type = "error" THEN ErrorOccurred({}, FALSE) ELSE Signal(type)
      <3>1. x \in Items /\ x.type = type
        BY DEF ErrorOccurred, Signal, Items, Calls, Errors
      <3>2. Put(<<x>>)
        BY <2>1 DEF Input
      <3> HIDE DEF x
      <3>3. QED
        BY <3>1, <3>2, NoReportOne DEF Put
    <2>2. CASE Ingest
      <3>1. accepted + 1 \in Nat
        BY DEF Shape, WorldShape
      <3>2. MessageArrived(accepted + 1) \in Items
            /\ MessageArrived(accepted + 1).type = "message"
        BY <3>1 DEF MessageArrived, Items, Arrivals
      <3>3. QED
        BY <2>2, <3>2, NoReportOne DEF Ingest, Put
    <2>3. CASE EngineDies
      BY <2>3, NoReportTaken DEF EngineDies
    <2>4. CASE AckElapses
      <3> DEFINE x == [type |-> "ack", id |-> timer]
      <3>1. x \in Items /\ x.type = "ack" /\ Put(<<x>>)
        BY <2>4 DEF AckElapses, Items, Acks, Shape, FlagsShape
      <3> HIDE DEF x
      <3>2. QED
        BY <3>1, NoReportOne DEF Put
    <2>5. QED
      BY <2>1, <2>2, <2>3, <2>4 DEF World, Signalled
  <1>3. UNCHANGED <<manager, flow, waiter, shutting>>
    BY <1>1 DEF Keep
  <1>4. Reasoned /\ Fits'
    BY <1>1, <1>3 DEF Reasoned, RecoveryInv, WhyConverge, FinishingConverges, manager,
                      Converging, Fits, Private
  <1>5. QED
    BY <1>1, <1>2, <1>3, <1>4, RecoveryCalm DEF manager

\* The end of a recovery is reported by its ticket.
LEMMA RecoveryOver ==
    ASSUME Shape, Shape', Numbered, RecoveryInv, Recover
    PROVE  RecoveryInv'
  <1>1. PICK how \in {"ok", "failed"} : RecoveryEnds(how)
    BY DEF Recover
  <1> DEFINE report == [type |-> IF pending.planned THEN "planned" ELSE "recovered",
                        waiter |-> rm.ticket, how |-> how]
  <1>2. UNCHANGED <<manager, flow, waiter, shutting, inflight>> /\ inbox' = inbox \o <<report>>
    BY <1>1 DEF RecoveryEnds, Keep, Put
  <1>3. rm'.keys = {} /\ rm'.ticket = rm.ticket /\ rm.ticket \in Nat
    <2>1. rm \in Resources
      BY DEF Shape, WorldShape
    <2>2. rm' = [rm EXCEPT !.keys = {}, !.ready = how = "ok"]
      BY <1>1 DEF RecoveryEnds
    <2>3. QED
      BY <2>1, <2>2 DEF Resources
  <1>4. report \in Items /\ report.waiter = rm.ticket
    BY <1>3 DEF Items, Recoveries
  <1> HIDE DEF report
  <1>5. Awaited' /\ ConvergingIsBlocked' /\ Reasoned /\ Fits'
    BY <1>2, <1>3 DEF Awaited, RecoveryInv, ConvergingIsBlocked, Converging, manager, Reasoned,
                      WhyConverge, FinishingConverges, Fits, Private
  <1>6. ReportsInOrder'
    <2>1. inbox \in Seq(Items) /\ <<report>> \in Seq(Items)
          /\ \A j \in DOMAIN <<report>> : <<report>>[j] = report
      BY <1>4 DEF Shape, InboxShape
    <2>2. \A i \in DOMAIN inbox' : \/ inbox'[i] = report
                                   \/ \E j \in DOMAIN inbox : inbox'[i] = inbox[j]
      BY <1>2, <2>1, Joined
    <2>3. \A i \in DOMAIN inbox' : inbox'[i].type \in {"recovered", "planned"} =>
              inbox'[i].waiter <= rm.ticket
      BY <1>3, <1>4, <2>2 DEF RecoveryInv, ReportsInOrder
    <2>4. QED
      BY <1>3, <2>3 DEF ReportsInOrder
  <1>7. QED
    BY <1>5, <1>6 DEF RecoveryInv, Reasoned

\* The invariant of the recovery.
THEOREM RecoveryHolds == Spec => []RecoveryInv
  <1>1. Init => RecoveryInv
    BY DEF Init, RecoveryInv, Awaited, ConvergingIsBlocked, WhyConverge, ReportsInOrder,
           FinishingConverges, Fits, Converging
  <1>2. /\ Shape /\ Numbered /\ Shape' /\ RecoveryInv /\ [Next]_vars => RecoveryInv'
    <2> SUFFICES ASSUME Shape, Numbered, Shape', RecoveryInv, [Next]_vars PROVE RecoveryInv'
      OBVIOUS
    <2>1. CASE UNCHANGED vars
      BY <2>1 DEF vars, manager, tasks, flags, world, RecoveryInv, Awaited, ConvergingIsBlocked,
                  WhyConverge, ReportsInOrder, FinishingConverges, Fits, Converging, Private
    <2>2. CASE Dispatch
      BY <2>2, RecoveryInputs, RecoveryItems, RecoveryShutdown, RecoveryProgress,
         RecoveryConverge, RecoveryFinish DEF Dispatch
    <2>3. CASE Work \/ Recover \/ AckElapses \/ World
      BY <2>3, RecoveryWork, RecoveryOver, RecoveryWorld
    <2>4. QED
      BY <2>1, <2>2, <2>3 DEF Next
  <1>3. QED
    BY <1>1, <1>2, ShapeHolds, PTL DEF Spec

\* A recovery is never left alone: while the ResourceManager rebuilds a backend, the
\* manager converges, waits for that very ticket and lets no turn begin.
THEOREM RecoveryAwaited == Spec => []RecoveryIsAwaited
  <1>1. RecoveryInv => RecoveryIsAwaited
    BY DEF RecoveryInv, Awaited, ConvergingIsBlocked, RecoveryIsAwaited
  <1>2. QED
    BY <1>1, RecoveryHolds, PTL

-----------------------------------------------------------------------------
(* Reports.  The inductive invariant: the notice of a task that is over is *)
(* in the inbox until its record is dropped, but for a lifecycle operation *)
(* that failed, whose record stays until the convergence it causes: so the *)
(* manager must not be in ERROR without one.                               *)

ErrorConverges ==
    state = "ERROR" /\ ~Converging =>
        \/ flow.at \in {"converge", "stopped", "dead"}
        \/ flow.at = "progress" /\ flow.why = "stop"
Triggered == Converging => pending.trigger # "none"
Loose == flow.at = "e1" \/ (flow.at = "converge" /\ ~Converging)
Noted(r) == \E i \in DOMAIN inbox : inbox[i] = Completed(r)
Reports ==
    flow.at # "dead" =>
        \A r \in inflight : Active(r) \/ Noted(r) \/ (Private(r) /\ Loose)

\* A step that ends a convergence starts or ends the session, or fails.
LEMMA ErrorsConverge ==
    ASSUME Shape, ErrorConverges
    PROVE  /\ /\ flow.at \notin {"converge", "stopped", "dead"}
              /\ ~(flow.at = "progress" /\ flow.why = "stop")
              /\ state' = "ERROR" => state = "ERROR"
              /\ Converging => Converging'
              => ErrorConverges'
           /\ state' # "ERROR" => ErrorConverges'
           /\ pending' # NotPending => ErrorConverges'
           /\ flow'.at \in {"converge", "dead", "stopped"} => ErrorConverges'
  BY DEF ErrorConverges, Converging

\* A convergence has a trigger.
LEMMA DispatchTriggered ==
    ASSUME Shape, FinishingConverges, Triggered, Dispatch
    PROVE  Triggered'
  <1>1. pending' = pending \/ pending' = NotPending \/ pending'.trigger # "none" => Triggered'
    BY DEF Triggered, Converging, NotPending
  <1>2. Converging => pending.trigger # "none" /\ pending \in Pending
    BY DEF Triggered, Shape, ManagerShape
  <1>3. CASE \/ IgnoreItem \/ HandleUnknownMessage \/ HandleInterrupt \/ HandleAck
             \/ HandleFact \/ HandleDone \/ HandleOpened \/ HandleWake \/ HandleMessage
    BY <1>1, <1>3
    DEF IgnoreItem, HandleUnknownMessage, HandleInterrupt, HandleAck, HandleFact, HandleDone,
        HandleOpened, HandleWake, HandleMessage, BeginSession, Raise, manager
  <1>4. CASE \/ HandleRejected \/ HandleLifecycleFailed \/ HandlePlannedRecovery
             \/ HandleShutdown \/ ShutdownCleanupFails
    BY <1>1, <1>4
    DEF HandleRejected, HandleLifecycleFailed, HandlePlannedRecovery, HandleShutdown,
        ShutdownCleanupFails, NextConversation, Raise, manager
  <1>5. CASE HandleClosed
    <2>1. Converging => Proved.trigger = pending.trigger
      BY <1>2 DEF Proved, Pending
    <2>2. QED
      BY <1>1, <1>2, <1>5, <2>1 DEF HandleClosed, NextConversation, Raise, manager
  <1>6. CASE HandleRecovered
    <2>1. Converging
      BY <1>6, Admitted DEF HandleRecovered, Receive, Entry
    <2>2. [pending EXCEPT !.ticket = 0].trigger = pending.trigger
      BY <1>2, <2>1 DEF Pending
    <2>3. QED
      BY <1>1, <1>2, <1>6, <2>1, <2>2 DEF HandleRecovered, Raise, manager
  <1>7. CASE HandleError
    <2>1. Converging => [pending EXCEPT !.policy = "discard"].trigger = pending.trigger
      BY <1>2 DEF Pending
    <2>2. QED
      BY <1>1, <1>2, <1>7, <2>1 DEF HandleError
  <1>8. CASE \/ ProgressConverging \/ ProgressWaits \/ ProgressToPerception \/ ProgressHeard
             \/ ProgressThought \/ ProgressRest \/ ProgressEnd \/ ProgressReplace
             \/ ProgressKeep \/ ProgressStop
    BY <1>1, <1>8
    DEF ProgressConverging, ProgressWaits, ProgressToPerception, ProgressHeard, ProgressThought,
        ProgressRest, ProgressEnd, ProgressReplace, ProgressKeep, ProgressStop, Raise, manager
  <1>9. CASE EnterPerception \/ EnterThink \/ EnterAction \/ ConvergeAgain \/ LifecycleError
    BY <1>1, <1>9
    DEF EnterPerception, EnterThink, EnterAction, ConvergeAgain, LifecycleError, Raise, manager
  <1>10. ASSUME NEW e \in Endured, Converge(e)
         PROVE  Triggered'
    <2>1. pending' = pending \/ pending'.trigger = flow.why
      BY <1>10 DEF Converge, Raise, manager, NotPending
    <2>2. flow.why # "none"
      BY <1>10 DEF Converge, Shape, FlowShape, Triggers
    <2>3. QED
      BY <1>1, <2>1, <2>2
  <1>11. ASSUME NEW e \in Endured, ConvergeToShutdown(e) \/ LifecycleErrorConverging(e)
         PROVE  Triggered'
    <2>1. Converging
      BY <1>11 DEF ConvergeToShutdown, LifecycleErrorConverging
    <2>2. pending' = pending \/ pending'.trigger \in {pending.trigger, "error", "shutdown"}
      BY <1>2, <1>11, <2>1
      DEF ConvergeToShutdown, LifecycleErrorConverging, Raise, manager, Pending
    <2>3. QED
      BY <1>1, <1>2, <2>1, <2>2
  <1>12. CASE FinishLater \/ FinishClose \/ FinishRecycle \/ FinishAnnounce
    <2>1. Converging
      BY <1>12
      DEF FinishLater, FinishClose, FinishRecycle, FinishAnnounce, FinishReady, Finishing,
          FinishingConverges
    <2>2. pending' = pending \/ pending'.trigger = pending.trigger
      BY <1>2, <1>12, <2>1
      DEF FinishLater, FinishClose, FinishRecycle, FinishAnnounce, Raise, manager, Pending
    <2>3. QED
      BY <1>1, <1>2, <2>1, <2>2
  <1>13. CASE FinishStop \/ FinishIdle
    BY <1>1, <1>13 DEF FinishStop, FinishIdle, Raise, manager
  <1>14. QED
    BY <1>3, <1>4, <1>5, <1>6, <1>7, <1>8, <1>9, <1>10, <1>11, <1>12, <1>13 DEF Dispatch

\* Every step of the dispatch loop keeps the errors converging.
LEMMA DispatchErrors ==
    ASSUME Shape, FinishingConverges, Triggered, ErrorConverges, Dispatch
    PROVE  ErrorConverges'
  <1>1. ASSUME flow.at \notin {"converge", "stopped", "dead"},
               ~(flow.at = "progress" /\ flow.why = "stop"), UNCHANGED <<state, pending>>
        PROVE  ErrorConverges'
    BY <1>1, ErrorsConverge DEF Converging
  <1>2. ASSUME NEW cause, Raise(cause) PROVE ErrorConverges'
    BY <1>2, ErrorsConverge DEF Raise
  <1>3. ASSUME NEW why, Call("converge", why) PROVE ErrorConverges'
    BY <1>3, ErrorsConverge DEF Call
  <1>4. CASE \/ IgnoreItem \/ HandleUnknownMessage \/ HandleInterrupt \/ HandleAck
             \/ HandleFact \/ HandleDone \/ HandleOpened
    BY <1>1, <1>2, <1>4
    DEF IgnoreItem, HandleUnknownMessage, HandleInterrupt, HandleAck, HandleFact, HandleDone,
        HandleOpened, Receive, manager
  <1>5. CASE HandleWake \/ HandleMessage
    <2>1. ASSUME NEW selected, BeginSession(selected) PROVE ErrorConverges'
      BY <2>1, ErrorsConverge DEF BeginSession
    <2>2. QED
      BY <1>1, <1>2, <1>5, <2>1 DEF HandleWake, HandleMessage, Receive, manager
  <1>6. ASSUME NEW rest, NEW ctx, NextConversation(rest, ctx), flow.at = "receive"
        PROVE  ErrorConverges'
    BY <1>1, <1>2, <1>6 DEF NextConversation
  <1>7. CASE HandleRejected \/ HandleLifecycleFailed
    BY <1>1, <1>6, <1>7 DEF HandleRejected, HandleLifecycleFailed, Receive, manager
  <1>8. Converging => pending.trigger # "none" /\ pending \in Pending
    BY DEF Triggered, Shape, ManagerShape
  <1>9. ASSUME pending'.trigger = pending.trigger, Converging, state' = state, flow.at = "receive"
        PROVE  ErrorConverges'
    <2>1. pending' # NotPending
      BY <1>8, <1>9 DEF NotPending
    <2>2. QED
      BY <2>1, ErrorsConverge
  <1>10. CASE HandleClosed
    <2>1. Converging => Proved.trigger = pending.trigger
      BY <1>8 DEF Proved, Pending
    <2>2. QED
      BY <1>1, <1>6, <1>9, <1>10, <2>1 DEF HandleClosed, Receive
  <1>11. CASE HandleRecovered
    <2>1. Converging
      BY <1>11, Admitted DEF HandleRecovered, Receive, Entry
    <2>2. [pending EXCEPT !.ticket = 0].trigger = pending.trigger
      BY <1>8, <2>1 DEF Pending
    <2>3. QED
      BY <1>2, <1>9, <1>11, <2>1, <2>2 DEF HandleRecovered, Receive
  <1>12. CASE HandlePlannedRecovery \/ ShutdownCleanupFails \/ HandleShutdown
    BY <1>1, <1>2, <1>3, <1>12
    DEF HandlePlannedRecovery, ShutdownCleanupFails, HandleShutdown, Receive, manager
  <1>13. CASE HandleError
    <2>1. Converging => [pending EXCEPT !.policy = "discard"].trigger = pending.trigger
      BY <1>8 DEF Pending
    <2>2. QED
      BY <1>1, <1>3, <1>9, <1>13, <2>1 DEF HandleError, Receive
  <1>14. CASE \/ ProgressConverging \/ ProgressWaits \/ ProgressToPerception \/ ProgressHeard
              \/ ProgressRest \/ ProgressEnd \/ ProgressReplace \/ ProgressKeep
    BY <1>1, <1>14, ErrorsConverge
    DEF ProgressConverging, ProgressWaits, ProgressToPerception, ProgressHeard,
        ProgressRest, ProgressEnd, ProgressReplace, ProgressKeep, Acted, MayProgress, Progress,
        manager
  <1>15. CASE ProgressThought \/ ProgressStop
    <2>1. Call("action", "none") /\ state' = "ACTION" => ErrorConverges'
      BY ErrorsConverge
    <2>2. flow'.at = "stopped" => ErrorConverges'
      BY ErrorsConverge
    <2>3. QED
      BY <1>2, <1>3, <1>15, <2>1, <2>2 DEF ProgressThought, ProgressStop
  <1>16. CASE EnterPerception \/ EnterThink \/ EnterAction
    BY <1>1, <1>2, <1>3, <1>16 DEF EnterPerception, EnterThink, EnterAction
  <1>17. ASSUME NEW e \in Endured, Converge(e) \/ ConvergeToShutdown(e)
         PROVE  ErrorConverges'
    <2>1. \/ \E cause : Raise(cause)
          \/ pending'.trigger = flow.why
          \/ pending'.trigger = "shutdown"
      BY <1>8, <1>17 DEF Converge, ConvergeToShutdown, NotPending, Pending
    <2>2. flow.why # "none"
      BY <1>17 DEF Converge, ConvergeToShutdown, Shape, FlowShape, Triggers
    <2>3. pending'.trigger # "none" => pending' # NotPending
      BY DEF NotPending
    <2>4. QED
      BY <1>2, <2>1, <2>2, <2>3, ErrorsConverge
  <1>18. ASSUME NEW e \in Endured, LifecycleErrorConverging(e)
         PROVE  ErrorConverges'
    <2>1. (\E cause : Raise(cause)) \/ pending'.trigger \in {pending.trigger, "error"}
      BY <1>8, <1>18 DEF LifecycleErrorConverging, Pending
    <2>2. pending'.trigger # "none" => pending' # NotPending
      BY DEF NotPending
    <2>3. QED
      BY <1>2, <1>8, <1>18, <2>1, <2>2, ErrorsConverge DEF LifecycleErrorConverging
  <1>19. CASE ConvergeAgain
    BY <1>19, ErrorsConverge DEF ConvergeAgain, Converging
  <1>20. CASE LifecycleError
    <2>1. Return /\ state = "ERROR" => Converging
      BY <1>20 DEF LifecycleError, ErrorConverges
    <2>2. QED
      BY <1>3, <1>20, <2>1 DEF LifecycleError
  <1>21. CASE FinishLater \/ FinishClose \/ FinishRecycle \/ FinishAnnounce
    <2>1. flow.at = "finish" /\ Converging
      BY <1>21
      DEF FinishLater, FinishClose, FinishRecycle, FinishAnnounce, FinishReady, Finishing,
          FinishingConverges
    <2>2. (\E cause : Raise(cause)) \/ pending' = pending \/ pending'.trigger = pending.trigger
      BY <1>8, <1>21, <2>1
      DEF FinishLater, FinishClose, FinishRecycle, FinishAnnounce, manager, Pending
    <2>3. pending'.trigger # "none" => pending' # NotPending
      BY DEF NotPending
    <2>4. QED
      BY <1>2, <1>8, <2>1, <2>2, <2>3, ErrorsConverge DEF Converging
  <1>22. CASE FinishStop
    <2>1. flow'.at = "progress" /\ flow'.why = "stop" => ErrorConverges'
      BY DEF ErrorConverges
    <2>2. flow'.at = "stopped" => ErrorConverges'
      BY ErrorsConverge
    <2>3. QED
      BY <1>2, <1>22, <2>1, <2>2 DEF FinishStop
  <1>23. CASE FinishIdle
    BY <1>2, <1>23, ErrorsConverge DEF FinishIdle
  <1>24. QED
    BY <1>4, <1>5, <1>7, <1>10, <1>11, <1>12, <1>13, <1>14, <1>15, <1>16, <1>17, <1>18,
       <1>19, <1>20, <1>21, <1>22, <1>23 DEF Dispatch

\* What is in the inbox for a record, when an item of another kind is taken, or some put.
LEMMA NotedKept ==
    ASSUME Shape, NEW r, Noted(r)
    PROVE  /\ inbox' = inbox => Noted(r)'
           /\ inbox # <<>> /\ inbox' = Tail(inbox) /\ Entry # Completed(r) => Noted(r)'
           /\ \A t \in Seq(Items) : inbox' = inbox \o t => Noted(r)'
           /\ \A x \in Items : inbox # <<>> /\ inbox' = Append(Tail(inbox), x)
                                 /\ Entry # Completed(r) => Noted(r)'
  <1>1. inbox \in Seq(Items)
    BY DEF Shape, InboxShape
  <1>2. PICK i \in DOMAIN inbox : inbox[i] = Completed(r)
    BY DEF Noted
  <1>3. Completed(r)' = Completed(r)
    BY DEF Completed, Private
  <1>4. inbox' = inbox => Noted(r)'
    BY <1>2, <1>3 DEF Noted
  <1>5. ASSUME inbox # <<>>, inbox' = Tail(inbox), Entry # Completed(r) PROVE Noted(r)'
    <2>1. i # 1
      BY <1>1, <1>2, <1>5, Taken DEF Entry
    <2>2. i - 1 \in DOMAIN Tail(inbox) /\ Tail(inbox)[i - 1] = inbox[i]
      BY <1>1, <1>5, <2>1, Taken
    <2>3. QED
      BY <1>2, <1>3, <1>5, <2>2 DEF Noted
  <1>6. ASSUME NEW t \in Seq(Items), inbox' = inbox \o t PROVE Noted(r)'
    <2>1. i \in DOMAIN (inbox \o t) /\ (inbox \o t)[i] = inbox[i]
      BY <1>1, <1>2, Joined
    <2>2. QED
      BY <1>2, <1>3, <1>6, <2>1 DEF Noted
  <1>7. ASSUME NEW x \in Items, inbox # <<>>, inbox' = Append(Tail(inbox), x),
               Entry # Completed(r)
        PROVE  Noted(r)'
    <2>1. i # 1
      BY <1>1, <1>2, <1>7, Taken DEF Entry
    <2>2. i - 1 \in DOMAIN Tail(inbox) /\ Tail(inbox)[i - 1] = inbox[i]
      BY <1>1, <1>7, <2>1, Taken
    <2>3. Tail(inbox) \in Seq(Items)
      BY <1>1, <1>7, Taken
    <2>4. \A j \in DOMAIN Tail(inbox) : /\ j \in DOMAIN Append(Tail(inbox), x)
                                        /\ Append(Tail(inbox), x)[j] = Tail(inbox)[j]
      BY <2>3
    <2>5. QED
      BY <1>2, <1>3, <1>7, <2>2, <2>4 DEF Noted
  <1>8. QED
    BY <1>4, <1>5, <1>6, <1>7

\* A step that leaves the inbox, or takes what is no notice, and starts tasks only.
LEMMA ReportsCalm ==
    ASSUME Shape, Reports, flow.at # "dead", ~Loose,
           \A r \in inflight' : Worked(r),
           \/ inbox' = inbox
           \/ inbox # <<>> /\ inbox' = Tail(inbox) /\ Entry.type \notin {"done", "lifecycle"}
           \/ \E t \in Seq(Items) : inbox' = inbox \o t
           \/ /\ inbox # <<>> /\ Entry.type \notin {"done", "lifecycle"}
              /\ \E x \in Items : inbox' = Append(Tail(inbox), x)
    PROVE  Reports'
  <1>1. ASSUME NEW r \in inflight PROVE Active(r) \/ Noted(r)'
    <2>1. Active(r) \/ Noted(r)
      BY DEF Reports
    <2>2. Completed(r).type \in {"done", "lifecycle"}
      BY DEF Completed
    <2>3. Entry.type \notin {"done", "lifecycle"} => Entry # Completed(r)
      BY <2>2
    <2>4. QED
      BY <2>1, <2>3, NotedKept
  <1>2. ASSUME NEW r \in inflight' PROVE Active(r) \/ Noted(r)'
    <2>1. CASE r \in inflight
      BY <1>1, <2>1
    <2>2. CASE \E q \in inflight : ~Private(q) /\ r = [q EXCEPT !.fact = TRUE]
      <3>1. PICK q \in inflight : r = [q EXCEPT !.fact = TRUE]
        BY <2>2
      <3>2. q \in InFlight
        BY DEF Shape, TasksShape
      <3>3. r.task = q.task /\ r.phase = q.phase /\ r.cid = q.cid
        BY <3>1, <3>2 DEF InFlight
      <3>4. Completed(r) = Completed(q) /\ Active(r) = Active(q)
        BY <3>3 DEF Completed, Active, Private
      <3>5. Completed(q)' = Completed(q) /\ Completed(r)' = Completed(r)
        BY DEF Completed, Private
      <3>6. QED
        BY <1>1, <3>4, <3>5 DEF Noted
    <2>3. CASE Fresh(r)
      BY <2>3 DEF Fresh, Active
    <2>4. QED
      BY <2>1, <2>2, <2>3 DEF Worked
  <1>3. QED
    BY <1>2 DEF Reports, Active, Private

\* A step that takes a notice: the record is dropped, its task goes on, or it stays for
\* the failure of its lifecycle operation.
LEMMA ReportsTaken ==
    ASSUME Shape, Reports, flow.at = "receive", inbox # <<>>, inbox' = Tail(inbox),
           \A r \in inflight' :
               \/ Active(r)
               \/ r \in inflight /\ Completed(r) # Entry
               \/ Private(r) /\ flow'.at = "e1"
    PROVE  Reports'
  <1>1. ASSUME NEW r \in inflight', ~Active(r), ~(Private(r) /\ flow'.at = "e1")
        PROVE  Noted(r)'
    <2>1. r \in inflight /\ Completed(r) # Entry
      BY <1>1
    <2>2. Noted(r)
      BY <1>1, <2>1 DEF Reports, Loose
    <2>3. QED
      BY <2>1, <2>2, NotedKept
  <1>2. QED
    BY <1>1 DEF Reports, Active, Private, Loose

\* After converge() every task is over, and has its notice if it had one or just ended.
LEMMA ReportsConverged ==
    ASSUME Shape, Numbered, Fits, Reports, flow.at # "dead", NEW e \in Endured,
           inbox' = inbox \o NewCompletions(e),
           inflight' \subseteq RecordsAfter(e),
           ~Loose \/ \A r \in inflight' : ~Private(r)
    PROVE  Reports'
  <1> DEFINE R == {r \in Targets : Active(r)}
             list == Completions(R)
  <1>1. R \subseteq inflight
    BY DEF Targets
  <1>2. /\ list \in Seq(Notices)
        /\ \A r \in R : \E i \in DOMAIN list : list[i] = Completed(r)
    BY <1>1, CompletionsAre
  <1>3. list \in Seq(Items) /\ inbox \in Seq(Items)
    BY <1>2 DEF Items, Shape, InboxShape
  <1>4. inbox' = inbox \o list
    BY DEF NewCompletions
  <1>5. \A r \in R : Noted(r)'
    <2> HIDE DEF list, R
    <2> TAKE r \in R
    <2>1. PICK i \in DOMAIN list : list[i] = Completed(r)
      BY <1>2
    <2>2. i + Len(inbox) \in DOMAIN (inbox \o list)
          /\ (inbox \o list)[i + Len(inbox)] = Completed(r)
      BY <1>3, <2>1, Joined
    <2>3. Completed(r)' = Completed(r)
      BY DEF Completed, Private
    <2>4. QED
      BY <1>4, <2>2, <2>3 DEF Noted
  <1> HIDE DEF list
  <1>6. ASSUME NEW r \in inflight' PROVE Noted(r)'
    <2>1. PICK q \in inflight : r = Converged(q, e)
      BY DEF RecordsAfter
    <2>2. r.cid = q.cid /\ r.phase = q.phase
      BY <2>1, ConvergedIs
    <2>3. Completed(r) = Completed(q) /\ Private(r) = Private(q)
      BY <2>2 DEF Completed, Private
    <2>4. Noted(q)' => Noted(r)'
      BY <2>2 DEF Noted, Completed, Private
    <2>5. CASE Active(q)
      BY <1>5, <2>4, <2>5 DEF Targets
    <2>6. CASE ~Active(q)
      <3>1. Noted(q)
        BY <2>3, <2>6 DEF Reports
      <3>2. QED
        BY <1>3, <1>4, <2>4, <3>1, NotedKept
    <2>7. QED
      BY <2>5, <2>6
  <1>7. QED
    BY <1>6 DEF Reports, Active, Private

\* A notice that is taken is of a record that is dropped, or that failed to open or close.
LEMMA NoticesReported ==
    ASSUME Shape, Numbered, Reports,
           \/ IgnoreItem /\ Entry.type \in {"done", "lifecycle"}
           \/ HandleDone \/ HandleOpened \/ HandleRejected \/ HandleClosed
           \/ HandleLifecycleFailed
    PROVE  Reports'
  <1>1. /\ flow.at = "receive" /\ inbox # <<>>
        /\ inbox' = Tail(inbox) /\ Entry.type \in {"done", "lifecycle"}
    BY DEF IgnoreItem, HandleDone, HandleOpened, HandleRejected, HandleClosed,
           HandleLifecycleFailed, Receive, Entry
  <1>2. \A r : Completed(r) = Entry => Entry.cid = r.cid
    BY DEF Completed
  <1>3. flow'.at = "dead" => Reports'
    BY DEF Reports
  <1>4. \A cause : Raise(cause) => Reports'
    BY <1>3 DEF Raise
  <1> DEFINE q == The(Entry.cid)
  <1>5. CASE IgnoreItem
    <2>1. ~Has(Entry.cid) /\ inflight' = inflight
      BY <1>1, <1>5 DEF IgnoreItem, Ignored, tasks
    <2>2. QED
      BY <1>1, <1>2, <2>1, ReportsTaken DEF Has
  <1>6. ASSUME ~IgnoreItem PROVE q \in inflight /\ q.cid = Entry.cid
    BY <1>6, Admitted, Found
    DEF HandleDone, HandleOpened, HandleRejected, HandleClosed, HandleLifecycleFailed, Receive,
        Entry
  <1>7. \A r \in inflight : r.cid = Entry.cid /\ q \in inflight /\ q.cid = Entry.cid => r = q
    BY DEF Numbered
  <1> HIDE DEF q
  <1>8. ASSUME ~IgnoreItem, NEW new,
               inflight' \subseteq (inflight \ {q}) \cup {new}, new.task = "running"
        PROVE  Reports'
    <2>1. \A r \in inflight' : Active(r) \/ (r \in inflight /\ Completed(r) # Entry)
      BY <1>2, <1>6, <1>7, <1>8 DEF Active
    <2>2. QED
      BY <1>1, <2>1, ReportsTaken
  <1>9. ASSUME ~IgnoreItem, inflight' = inflight \ {q} PROVE Reports'
    <2>1. \A r \in inflight' : r \in inflight /\ Completed(r) # Entry
      BY <1>2, <1>6, <1>7, <1>9
    <2>2. QED
      BY <1>1, <2>1, ReportsTaken
  <1>10. ASSUME ~IgnoreItem, inflight' = inflight, Call("e1", "none"), Entry.type = "lifecycle"
         PROVE  Reports'
    <2>1. flow'.at = "e1"
      BY <1>10 DEF Call
    <2>2. \A r : Completed(r) = Entry => Private(r)
      BY <1>10 DEF Completed
    <2>3. QED
      BY <1>1, <1>10, <2>1, <2>2, ReportsTaken
  <1>11. ASSUME ~IgnoreItem, NEW ctx, NextConversation(inflight \ {q}, ctx) PROVE Reports'
    <2> DEFINE new == Record(cids + 1, "open", "conversation")
    <2>1. (\E cause : Raise(cause)) \/ inflight' = (inflight \ {q}) \cup {new}
      BY <1>11 DEF NextConversation, Launch
    <2>2. new.task = "running"
      BY DEF Record
    <2> HIDE DEF new
    <2>3. QED
      BY <1>4, <1>8, <1>11, <2>1, <2>2
  <1>12. CASE ~IgnoreItem /\ (HandleDone \/ HandleOpened \/ HandleClosed)
    BY <1>4, <1>9, <1>11, <1>12 DEF HandleDone, HandleOpened, HandleClosed, q
  <1>13. CASE ~IgnoreItem /\ (HandleRejected \/ HandleLifecycleFailed)
    BY <1>4, <1>9, <1>10, <1>11, <1>13
    DEF HandleRejected, HandleLifecycleFailed, Receive, Entry, tasks, q
  <1>14. QED
    BY <1>5, <1>12, <1>13

\* The steps that converge.
LEMMA ConvergeReported ==
    ASSUME Shape, Numbered, RecoveryInv, Reports, NEW e \in Endured,
           Converge(e) \/ ConvergeToShutdown(e) \/ LifecycleErrorConverging(e)
    PROVE  Reports'
  <1>1. flow'.at = "dead" => Reports'
    BY DEF Reports
  <1>2. Kept(e) \subseteq RecordsAfter(e)
    BY DEF Kept
  <1>3. flow.at # "dead" /\ Fits
    BY DEF Converge, ConvergeToShutdown, LifecycleErrorConverging, RecoveryInv
  <1>4. \/ flow'.at = "dead"
        \/ inbox' = inbox \o NewCompletions(e) /\ inflight' = Kept(e)
        \/ inbox' = inbox \o NewCompletions(e) /\ inflight' = RecordsAfter(e) /\ ~Loose
    BY DEF Converge, ConvergeToShutdown, LifecycleErrorConverging, Raise, Loose
  <1>5. \A r \in Kept(e) : ~Private(r)
    BY <1>3, KeptAreWorkers
  <1>6. QED
    BY <1>1, <1>2, <1>3, <1>4, <1>5, ReportsConverged

\* What the other steps of the dispatch loop do to the inbox, and when.
LEMMA CalmInbox ==
    ASSUME Shape, Numbered, Dispatch
    PROVE  \/ IgnoreItem /\ Entry.type \in {"done", "lifecycle"}
           \/ HandleDone \/ HandleOpened \/ HandleRejected \/ HandleClosed
           \/ HandleLifecycleFailed
           \/ \E e \in Endured : Converge(e) \/ ConvergeToShutdown(e) \/ LifecycleErrorConverging(e)
           \/ LifecycleError
           \/ /\ flow.at # "dead" /\ ~Loose
              /\ \/ inbox' = inbox
                 \/ /\ inbox # <<>> /\ inbox' = Tail(inbox)
                    /\ Entry.type \notin {"done", "lifecycle"}
                 \/ \E t \in Seq(Items) : inbox' = inbox \o t
                 \/ /\ inbox # <<>> /\ Entry.type \notin {"done", "lifecycle"}
                    /\ \E x \in Items : inbox' = Append(Tail(inbox), x)
  <1> DEFINE Left == /\ inbox # <<>> /\ inbox' = Tail(inbox)
                     /\ Entry.type \notin {"done", "lifecycle"}
             Calm == flow.at # "dead" /\ ~Loose
  <1>1. CASE IgnoreItem
    BY <1>1 DEF IgnoreItem, Loose
  <1>2. CASE \/ HandleWake \/ HandleMessage \/ HandleUnknownMessage \/ HandleInterrupt
             \/ HandleAck \/ HandleFact
    <2>1. Calm /\ Left
      BY <1>2 DEF HandleWake, HandleMessage, HandleUnknownMessage, HandleInterrupt, HandleAck,
                  HandleFact, Receive, Loose, Entry
    <2>2. QED
      BY <2>1
  <1>3. CASE HandleRecovered \/ HandlePlannedRecovery \/ HandleError \/ ShutdownCleanupFails
    <2>1. Calm /\ Left
      BY <1>3 DEF HandleRecovered, HandlePlannedRecovery, HandleError, ShutdownCleanupFails,
                  Receive, Loose, Entry
    <2>2. QED
      BY <2>1
  <1>4. CASE HandleShutdown
    <2> DEFINE report == [type |-> IF pending.planned THEN "planned" ELSE "recovered",
                          waiter |-> rm.ticket, how |-> "cancelled"]
    <2>1. report \in Items
      BY DEF Items, Recoveries, Shape, WorldShape, Resources
    <2>2. Calm /\ inbox # <<>> /\ Entry.type \notin {"done", "lifecycle"}
      BY <1>4 DEF HandleShutdown, Loose
    <2>3. inbox' = Tail(inbox) \/ inbox' = Append(Tail(inbox), report)
      BY <1>4 DEF HandleShutdown
    <2> HIDE DEF report
    <2>4. QED
      BY <2>1, <2>2, <2>3
  <1>5. CASE \/ ProgressConverging \/ ProgressWaits \/ ProgressToPerception \/ ProgressHeard
             \/ ProgressThought \/ ProgressRest \/ ProgressEnd \/ ProgressReplace
             \/ ProgressKeep \/ ProgressStop
    <2>1. Calm /\ inbox' = inbox
      BY <1>5 DEF ProgressConverging, ProgressWaits, ProgressToPerception, ProgressHeard,
                  ProgressThought, ProgressRest, ProgressEnd, ProgressReplace, ProgressKeep,
                  ProgressStop, Acted, MayProgress, Progress, Loose
    <2>2. QED
      BY <2>1
  <1>6. CASE EnterPerception \/ EnterThink \/ EnterAction \/ ConvergeAgain
    <2>1. Calm /\ inbox' = inbox
      BY <1>6 DEF EnterPerception, EnterThink, EnterAction, ConvergeAgain, Loose
    <2>2. QED
      BY <2>1
  <1>7. CASE FinishLater \/ FinishClose \/ FinishRecycle \/ FinishAnnounce \/ FinishStop
    <2>1. Calm /\ inbox' = inbox
      BY <1>7 DEF FinishLater, FinishClose, FinishRecycle, FinishAnnounce, FinishStop,
                  FinishLast, FinishReady, Finishing, Loose
    <2>2. QED
      BY <2>1
  <1>8. CASE FinishIdle
    <2> DEFINE list == Signals(Present(ReadClosed))
    <2>1. list \in Seq(Items)
      BY SignalsAre DEF Items
    <2>2. Calm /\ (inbox' = inbox \/ inbox' = inbox \o list)
      BY <1>8 DEF FinishIdle, FinishLast, FinishReady, Finishing, Loose
    <2> HIDE DEF list
    <2>3. QED
      BY <2>1, <2>2
  <1>9. QED
    BY <1>1, <1>2, <1>3, <1>4, <1>5, <1>6, <1>7, <1>8 DEF Dispatch

\* Every step of the dispatch loop keeps the notices.
LEMMA DispatchNotices ==
    ASSUME Shape, Numbered, RecoveryInv, ErrorConverges, Reports, Dispatch
    PROVE  Reports'
  <1>1. CASE \/ IgnoreItem /\ Entry.type \in {"done", "lifecycle"}
             \/ HandleDone \/ HandleOpened \/ HandleRejected \/ HandleClosed
             \/ HandleLifecycleFailed
    BY <1>1, NoticesReported
  <1>2. ASSUME NEW e \in Endured,
               Converge(e) \/ ConvergeToShutdown(e) \/ LifecycleErrorConverging(e)
        PROVE  Reports'
    BY <1>2, ConvergeReported
  <1>3. CASE LifecycleError
    <2>1. state # "ERROR"
      BY <1>3 DEF LifecycleError, ErrorConverges
    <2>2. flow'.at = "converge" /\ UNCHANGED <<inbox, inflight, pending>>
      BY <1>3, <2>1 DEF LifecycleError, Call, tasks
    <2>3. QED
      BY <1>3, <2>2 DEF LifecycleError, Reports, Loose, Noted, Completed, Private, Active,
                        Converging
  <1>4. ASSUME \A e \in Endured :
                   ~(Converge(e) \/ ConvergeToShutdown(e) \/ LifecycleErrorConverging(e)),
               flow.at # "dead", ~Loose,
               \/ inbox' = inbox
               \/ inbox # <<>> /\ inbox' = Tail(inbox) /\ Entry.type \notin {"done", "lifecycle"}
               \/ \E t \in Seq(Items) : inbox' = inbox \o t
               \/ /\ inbox # <<>> /\ Entry.type \notin {"done", "lifecycle"}
                  /\ \E x \in Items : inbox' = Append(Tail(inbox), x)
        PROVE  Reports'
    BY <1>4, CalmRecords, ReportsCalm
  <1>5. QED
    BY <1>1, <1>2, <1>3, <1>4, CalmInbox

\* A task that ends puts its notice into the inbox.
LEMMA WorkReported ==
    ASSUME Shape, Numbered, Reports, Work
    PROVE  Reports'
  <1>1. PICK r \in inflight, task \in TaskStates :
              /\ WorkOf(r, task)
              /\ \/ /\ r.task = "running" /\ task = "published" /\ ~Private(r)
                    /\ \E value \in ValuesOf(r.phase) : Put(<<Fact(r, value)>>)
                 \/ /\ r.task = "published" /\ task = "returned"
                    /\ Put(<<Completed(r)>>)
                 \/ /\ r.task = "running" /\ task \in {"raised", "fault"} /\ ~Private(r)
                    /\ \E keys \in {{}, Key(r)} :
                          /\ Put(<<ErrorOccurred(keys, r.kind = "listen"), Completed(r)>>)
                          /\ (keys = {}) = (task = "raised")
                 \/ /\ r.task = "running" /\ r.phase = "open"
                    /\ task \in {"ready", "rejected", "raised"} /\ Put(<<Completed(r)>>)
                 \/ /\ r.task = "running" /\ r.phase = "close"
                    /\ task \in {"closed", "raised", "fault"} /\ Put(<<Completed(r)>>)
    BY WorkIs
  <1> DEFINE s == [r EXCEPT !.task = task]
  <1>2. r \in InFlight /\ inbox \in Seq(Items)
    BY DEF Shape, TasksShape, InboxShape
  <1>3. s.task = task /\ s.phase = r.phase /\ s.cid = r.cid
    BY <1>2 DEF InFlight
  <1>4. inflight' = Update(r, s)
    BY <1>1 DEF WorkOf
  <1>5. Completed(s) = Completed(r) /\ Completed(r) \in Items
    BY <1>2, <1>3 DEF Completed, Private, InFlight, Items, Notices
  <1> HIDE DEF s
  <1>6. \E t \in Seq(Items) :
            /\ inbox' = inbox \o t
            /\ task = "published" \/ \E i \in DOMAIN t : t[i] = Completed(r)
    <2>1. ASSUME NEW value \in ValuesOf(r.phase), ~Private(r), Put(<<Fact(r, value)>>)
          PROVE  \E t \in Seq(Items) : inbox' = inbox \o t
      <3>1. value \in Heards \cup Response \cup Outcomes
        BY DEF ValuesOf
      <3>2. Fact(r, value) \in Items
        BY <1>2, <3>1 DEF Fact, InFlight, Items, Facts
      <3>3. <<Fact(r, value)>> \in Seq(Items)
        BY <3>2
      <3>4. QED
        BY <2>1, <3>3 DEF Put
    <2>2. <<Completed(r)>> \in Seq(Items) /\ 1 \in DOMAIN <<Completed(r)>>
          /\ <<Completed(r)>>[1] = Completed(r)
      BY <1>5
    <2>3. ASSUME NEW keys \in {{}, Key(r)}
          PROVE  LET t == <<ErrorOccurred(keys, r.kind = "listen"), Completed(r)>>
                 IN t \in Seq(Items) /\ 2 \in DOMAIN t /\ t[2] = Completed(r)
      <3>1. ErrorOccurred(keys, r.kind = "listen") \in Items
        BY DEF Key, ErrorOccurred, Items, Errors, Keys
      <3>2. QED
        BY <1>5, <3>1
    <2>4. CASE task = "published"
      BY <1>1, <2>1, <2>2, <2>4
    <2>5. CASE Put(<<Completed(r)>>)
      BY <2>2, <2>5 DEF Put
    <2>6. CASE \E keys \in {{}, Key(r)} :
                  Put(<<ErrorOccurred(keys, r.kind = "listen"), Completed(r)>>)
      BY <2>3, <2>6 DEF Put
    <2>7. QED
      BY <1>1, <2>4, <2>5, <2>6
  <1>7. flow' = flow /\ pending' = pending
    BY <1>1 DEF WorkOf, manager
  <1>8. \A q : Completed(q)' = Completed(q)
    BY DEF Completed, Private
  <1>9. PICK t \in Seq(Items) :
            /\ inbox' = inbox \o t
            /\ task = "published" \/ \E i \in DOMAIN t : t[i] = Completed(r)
    BY <1>6
  <1>10. ASSUME NEW q, Noted(q) PROVE Noted(q)'
    BY <1>9, <1>10, NotedKept
  <1>11. Active(s) \/ Noted(s)'
    <2>1. task = "published" => Active(s)
      BY <1>3 DEF Active
    <2>2. ASSUME NEW i \in DOMAIN t, t[i] = Completed(r) PROVE Noted(s)'
      <3>1. i + Len(inbox) \in DOMAIN (inbox \o t) /\ (inbox \o t)[i + Len(inbox)] = t[i]
        BY <1>2, Joined
      <3>2. QED
        BY <1>5, <1>8, <1>9, <2>2, <3>1 DEF Noted
    <2>3. QED
      BY <1>9, <2>1, <2>2
  <1>12. QED
    BY <1>4, <1>7, <1>10, <1>11 DEF Reports, Loose, Converging, Update, Active, Private

\* What else happens while the dispatch loop waits puts at most one item into the inbox,
\* of no task, and no error of it declares a backend.
LEMMA OutsideAdds ==
    ASSUME Shape, Recover \/ AckElapses \/ World
    PROVE  /\ Keep /\ UNCHANGED inflight /\ flow.at = "receive"
           /\ \/ inbox' = inbox
              \/ \E x \in Items : /\ inbox' = inbox \o <<x>>
                                  /\ x.type \notin {"fact", "done", "lifecycle"}
                                  /\ x.type = "error" => x.keys = {}
                                  /\ x.type = "message" => Ingest
  <1> DEFINE Good == \E x \in Items : /\ inbox' = inbox \o <<x>>
                                      /\ x.type \notin {"fact", "done", "lifecycle"}
                                      /\ x.type = "error" => x.keys = {}
                                      /\ x.type = "message" => Ingest
  <1>1. Keep /\ UNCHANGED inflight /\ flow.at = "receive"
    BY DEF Recover, RecoveryEnds, World, Signalled, Input, Ingest, EngineDies, AckElapses, Outside
  <1>2. ASSUME NEW type \in {"button", "wake", "interrupt", "shutdown", "error"}, Input(type)
        PROVE  Good
    <2> DEFINE x == IF type = "error" THEN ErrorOccurred({}, FALSE) ELSE Signal(type)
    <2>1. x \in Items
      BY DEF ErrorOccurred, Signal, Items, Calls, Errors
    <2>2. x.type \in {"button", "wake", "interrupt", "shutdown", "error"}
      BY DEF ErrorOccurred, Signal
    <2>3. x.type = "error" => x.keys = {}
      BY DEF ErrorOccurred, Signal
    <2>4. inbox' = inbox \o <<x>>
      BY <1>2 DEF Input, Put
    <2> HIDE DEF x
    <2>5. QED
      BY <2>1, <2>2, <2>3, <2>4
  <1>3. ASSUME Ingest PROVE Good
    <2>1. MessageArrived(accepted + 1) \in Items
      BY DEF Shape, WorldShape, MessageArrived, Items, Arrivals
    <2>2. inbox' = inbox \o <<MessageArrived(accepted + 1)>>
      BY <1>3 DEF Ingest, Put
    <2>3. MessageArrived(accepted + 1).type = "message"
      BY DEF MessageArrived
    <2>4. QED
      BY <1>3, <2>1, <2>2, <2>3
  <1>4. ASSUME AckElapses PROVE Good
    <2> DEFINE x == [type |-> "ack", id |-> timer]
    <2>1. x \in Items /\ x.type = "ack"
      BY DEF Shape, FlagsShape, Items, Acks
    <2>2. inbox' = inbox \o <<x>>
      BY <1>4 DEF AckElapses, Put
    <2> HIDE DEF x
    <2>3. QED
      BY <2>1, <2>2
  <1>5. ASSUME NEW how \in {"ok", "failed"}, RecoveryEnds(how) PROVE Good
    <2> DEFINE x == [type |-> IF pending.planned THEN "planned" ELSE "recovered",
                     waiter |-> rm.ticket, how |-> how]
    <2>1. x \in Items /\ x.type \in {"planned", "recovered"}
      BY DEF Shape, WorldShape, Resources, Items, Recoveries
    <2>2. inbox' = inbox \o <<x>>
      BY <1>5 DEF RecoveryEnds, Put
    <2> HIDE DEF x
    <2>3. QED
      BY <2>1, <2>2
  <1>6. ASSUME EngineDies PROVE inbox' = inbox
    BY <1>6 DEF EngineDies
  <1>7. QED
    BY <1>1, <1>2, <1>3, <1>4, <1>5, <1>6 DEF Recover, World, Signalled

\* So no report of a task is lost by it.
LEMMA OutsideReported ==
    ASSUME Shape, Reports, Recover \/ AckElapses \/ World
    PROVE  Reports'
  <1>1. Keep /\ UNCHANGED inflight /\ (inbox' = inbox \/ \E x \in Items : inbox' = inbox \o <<x>>)
    BY OutsideAdds
  <1>2. \A x \in Items : <<x>> \in Seq(Items)
    OBVIOUS
  <1>3. ASSUME NEW q, Noted(q) PROVE Noted(q)'
    BY <1>1, <1>2, <1>3, NotedKept
  <1>4. UNCHANGED <<flow, pending>>
    BY <1>1 DEF Keep, manager
  <1>5. QED
    BY <1>1, <1>3, <1>4 DEF Reports, Loose, Converging, Active, Private

\* The invariant of the reports.
ReportsInv == Triggered /\ ErrorConverges /\ Reports

\* Every reachable state satisfies it.
THEOREM ReportsHold == Spec => []ReportsInv
  <1>1. Init => ReportsInv
    BY DEF Init, ReportsInv, Triggered, ErrorConverges, Reports, Converging
  <1>2. Shape /\ Numbered /\ RecoveryInv /\ ReportsInv /\ [Next]_vars => ReportsInv'
    <2> SUFFICES ASSUME Shape, Numbered, RecoveryInv, ReportsInv, [Next]_vars PROVE ReportsInv'
      OBVIOUS
    <2>1. CASE UNCHANGED vars
      BY <2>1 DEF vars, manager, tasks, ReportsInv, Triggered, ErrorConverges, Reports, Loose,
                  Noted, Completed, Converging, Private, Active
    <2>2. CASE Dispatch
      BY <2>2, DispatchTriggered, DispatchErrors, DispatchNotices DEF ReportsInv, RecoveryInv
    <2>3. CASE Work \/ Recover \/ AckElapses \/ World
      <3>1. UNCHANGED <<manager, flow>>
        BY <2>3, WorkIs
        DEF WorkOf, Recover, RecoveryEnds, World, Signalled, Input, Ingest, EngineDies,
            AckElapses, Keep
      <3>2. Triggered' /\ ErrorConverges'
        BY <3>1 DEF ReportsInv, Triggered, ErrorConverges, Converging, manager
      <3>3. Reports'
        BY <2>3, WorkReported, OutsideReported DEF ReportsInv
      <3>4. QED
        BY <3>2, <3>3 DEF ReportsInv
    <2>4. QED
      BY <2>1, <2>2, <2>3 DEF Next
  <1>3. QED
    BY <1>1, <1>2, ShapeHolds, RecoveryHolds, PTL DEF Spec

\* No completion is lost: the dispatch task, when it waits, still has the notice of
\* every record whose task is over, so a convergence cannot wait for nothing.
THEOREM TasksReport == Spec => []EveryTaskReports
  <1>1. ReportsInv => EveryTaskReports
    BY DEF ReportsInv, Reports, Loose, Noted, EveryTaskReports, Outside
  <1>2. QED
    BY <1>1, ReportsHold, PTL

-----------------------------------------------------------------------------
(* Turns.  First the session itself: what is left of it in IDLE, when a    *)
(* method enters a state, whose the records are.                           *)

Going == /\ flow.at \notin {"stopped", "dead"}
         /\ ~(flow.at = "progress" /\ flow.why = "stop")
ShutsDown ==
    /\ shutting => \/ flow.at = "converge" /\ flow.why = "shutdown"
                   \/ Converging /\ pending.trigger = "shutdown"
                   \/ ~Going
    /\ pending.trigger = "shutdown" => shutting
Entering ==
    flow.at \in {"perception", "think", "action"} =>
        /\ inflight = {} /\ ~Converging /\ readOpen = 0
        /\ flow.at = "perception" => state = "PERCEPTION"
        /\ flow.at = "think" => state = "THINK"
        /\ flow.at = "action" => state = "ACTION"
Quiet ==
    state = "IDLE" =>
        /\ session = NoContext /\ inflight = {} /\ timer = 0 /\ readOpen = 0
        /\ mic.held \/ mic.failed
Owned ==
    /\ begun \in Sessions \cup {0} /\ session.id \in {0, begun}
    /\ session.id = 0 => session = NoContext /\ inflight = {}
    /\ state \in {"WAKE", "PERCEPTION", "THINK", "ACTION"} /\ Going => session.id # 0
    /\ timer \in {0, session.id} /\ (Converging => timer = 0)
    /\ readOpen \in {0, session.turn}
    /\ state \in {"WAKE", "THINK", "ACTION"} => readOpen = 0
Current == \A r \in inflight : r.sid = session.id /\ r.turn = session.turn

\* The steps that converge.
Converges == \E e \in Endured : Converge(e) \/ ConvergeToShutdown(e) \/ LifecycleErrorConverging(e)
\* The steps that begin a session, and its first request.
Begins == /\ flow.at = "receive" /\ ~shutting /\ begun + 1 \in Sessions /\ state = "IDLE"
          /\ \E selected \in SUBSET PerceptionKinds : BeginSession(selected)

\* A session begins in IDLE only; nothing else that a signal may do fails silently.
LEMMA Beginning ==
    ASSUME Shape, ErrorConverges, HandleWake \/ HandleMessage
    PROVE  \/ Begins
           \/ \E cause : Raise(cause)
           \/ HandleMessage /\ state # "IDLE" /\ Return /\ UNCHANGED <<manager, tasks, flags, mic>>
  <1>1. Entry.type \in {"button", "wake", "message"} /\ ~Ignored(Entry) /\ flow.at = "receive"
    BY DEF HandleWake, HandleMessage, Receive, Entry
  <1>2. ~shutting /\ (state = "IDLE" => begun + 1 \in Sessions)
    BY <1>1, Admitted
  <1>3. CASE HandleWake
    <2>1. state = "IDLE"
      BY <1>1, <1>3, Admitted DEF HandleWake, ErrorConverges
    <2>2. {"listen"} \in SUBSET PerceptionKinds
      BY DEF PerceptionKinds
    <2>3. QED
      BY <1>1, <1>2, <1>3, <2>1, <2>2 DEF HandleWake, Begins
  <1>4. CASE HandleMessage
    <2>1. {"read"} \in SUBSET PerceptionKinds
      BY DEF PerceptionKinds
    <2>2. QED
      BY <1>1, <1>2, <1>4, <2>1 DEF HandleMessage, Begins, flags
  <1>5. QED
    BY <1>3, <1>4

\* The trigger of a convergence stays, but for the steps that begin or end one.
LEMMA TriggerStays ==
    ASSUME Shape, FinishingConverges, Triggered, ErrorConverges, Dispatch
    PROVE  pending'.trigger = pending.trigger \/ Begins \/ Converges \/ FinishStop \/ FinishIdle
  <1>1. Converging => pending.trigger # "none" /\ pending \in Pending
    BY DEF Triggered, Shape, ManagerShape
  <1>2. CASE \/ IgnoreItem \/ HandleUnknownMessage \/ HandleInterrupt \/ HandleAck
             \/ HandleFact \/ HandleDone \/ HandleOpened
    BY <1>2
    DEF IgnoreItem, HandleUnknownMessage, HandleInterrupt, HandleAck, HandleFact, HandleDone,
        HandleOpened, Raise, manager
  <1>3. CASE HandleWake \/ HandleMessage
    BY <1>3, Beginning DEF Raise, manager
  <1>4. CASE \/ HandleRejected \/ HandleLifecycleFailed \/ HandlePlannedRecovery
             \/ HandleShutdown \/ ShutdownCleanupFails
    BY <1>4
    DEF HandleRejected, HandleLifecycleFailed, HandlePlannedRecovery, HandleShutdown,
        ShutdownCleanupFails, NextConversation, Raise, manager
  <1>5. CASE HandleClosed
    <2>1. Converging => Proved.trigger = pending.trigger
      BY <1>1 DEF Proved, Pending
    <2>2. QED
      BY <1>5, <2>1 DEF HandleClosed, NextConversation, Raise, manager
  <1>6. CASE HandleRecovered
    <2>1. Converging
      BY <1>6, Admitted DEF HandleRecovered, Receive, Entry
    <2>2. [pending EXCEPT !.ticket = 0].trigger = pending.trigger
      BY <1>1, <2>1 DEF Pending
    <2>3. QED
      BY <1>6, <2>2 DEF HandleRecovered, Raise, manager
  <1>7. CASE HandleError
    <2>1. Converging => [pending EXCEPT !.policy = "discard"].trigger = pending.trigger
      BY <1>1 DEF Pending
    <2>2. QED
      BY <1>7, <2>1 DEF HandleError
  <1>8. CASE \/ ProgressConverging \/ ProgressWaits \/ ProgressToPerception \/ ProgressHeard
             \/ ProgressThought \/ ProgressRest \/ ProgressEnd \/ ProgressReplace
             \/ ProgressKeep \/ ProgressStop
    BY <1>8
    DEF ProgressConverging, ProgressWaits, ProgressToPerception, ProgressHeard, ProgressThought,
        ProgressRest, ProgressEnd, ProgressReplace, ProgressKeep, ProgressStop, Raise, manager
  <1>9. CASE EnterPerception \/ EnterThink \/ EnterAction \/ ConvergeAgain \/ LifecycleError
    BY <1>9
    DEF EnterPerception, EnterThink, EnterAction, ConvergeAgain, LifecycleError, Raise, manager
  <1>10. CASE FinishLater \/ FinishClose \/ FinishRecycle \/ FinishAnnounce
    <2>1. Converging
      BY <1>10
      DEF FinishLater, FinishClose, FinishRecycle, FinishAnnounce, FinishReady, Finishing,
          FinishingConverges
    <2>2. QED
      BY <1>1, <1>10, <2>1
      DEF FinishLater, FinishClose, FinishRecycle, FinishAnnounce, Raise, manager, Pending
  <1>11. QED
    BY <1>2, <1>3, <1>4, <1>5, <1>6, <1>7, <1>8, <1>9, <1>10 DEF Dispatch, Converges

\* A step of the dispatch loop is taken by a loop that is not over; only converge()
\* follows the call of converge(), and only a shutdown shuts down.
LEMMA GoesOn ==
    ASSUME Dispatch
    PROVE  /\ Going \/ ProgressStop
           /\ shutting' = shutting \/ HandleShutdown
           /\ flow.at = "converge" => Converges \/ ConvergeAgain
           /\ scenario' = scenario
  <1> DEFINE Holds == /\ Going \/ ProgressStop
                      /\ shutting' = shutting \/ HandleShutdown
                      /\ flow.at = "converge" => Converges \/ ConvergeAgain
                      /\ scenario' = scenario
  <1>1. CASE \/ IgnoreItem \/ HandleWake \/ HandleMessage \/ HandleUnknownMessage
             \/ HandleInterrupt \/ HandleAck \/ HandleFact \/ HandleDone
    BY <1>1 DEF IgnoreItem, HandleWake, HandleMessage, HandleUnknownMessage, HandleInterrupt,
                HandleAck, HandleFact, HandleDone, Receive, BeginSession, Raise, flags, Going
  <1>2. CASE \/ HandleOpened \/ HandleRejected \/ HandleClosed \/ HandleLifecycleFailed
             \/ HandleRecovered \/ HandlePlannedRecovery \/ HandleError \/ HandleShutdown
             \/ ShutdownCleanupFails
    BY <1>2 DEF HandleOpened, HandleRejected, HandleClosed, HandleLifecycleFailed,
                HandleRecovered, HandlePlannedRecovery, HandleError, HandleShutdown,
                ShutdownCleanupFails, NextConversation, Receive, Raise, flags, Going
  <1>3. CASE \/ ProgressConverging \/ ProgressWaits \/ ProgressToPerception \/ ProgressHeard
             \/ ProgressThought \/ ProgressRest \/ ProgressEnd \/ ProgressReplace
             \/ ProgressKeep \/ ProgressStop
    BY <1>3 DEF ProgressConverging, ProgressWaits, ProgressToPerception, ProgressHeard,
                ProgressThought, ProgressRest, ProgressEnd, ProgressReplace, ProgressKeep,
                ProgressStop, Acted, MayProgress, Progress, Raise, flags, Going
  <1>4. CASE EnterPerception \/ EnterThink \/ EnterAction \/ ConvergeAgain \/ LifecycleError
    BY SMTT(60), <1>4 DEF EnterPerception, EnterThink, EnterAction, ConvergeAgain, LifecycleError, Raise,
                flags, Going
  <1>5. ASSUME NEW e \in Endured,
               Converge(e) \/ ConvergeToShutdown(e) \/ LifecycleErrorConverging(e)
        PROVE  Holds
    BY <1>5 DEF Converges, Converge, ConvergeToShutdown, LifecycleErrorConverging, Raise, flags,
                Going
  <1>6. CASE FinishLater \/ FinishClose \/ FinishRecycle \/ FinishAnnounce \/ FinishStop \/ FinishIdle
    BY <1>6 DEF FinishLater, FinishClose, FinishRecycle, FinishAnnounce, FinishStop, FinishIdle,
                FinishLast, FinishReady, Finishing, Raise, flags, Going
  <1>7. QED
    BY <1>1, <1>2, <1>3, <1>4, <1>5, <1>6 DEF Dispatch

\* A shutdown is under way from its signal to the end of the dispatch loop.
LEMMA DispatchShuts ==
    ASSUME Shape, FinishingConverges, WhyConverge, Triggered, ErrorConverges, ShutsDown, Dispatch
    PROVE  ShutsDown'
  <1>1. pending.trigger # "none" => Converging
    BY DEF Converging, NotPending
  <1>2. pending'.trigger # "none" => Converging'
    BY DEF Converging, NotPending
  <1>3. ASSUME flow'.at = "dead", pending'.trigger = pending.trigger, shutting' = shutting
        PROVE  ShutsDown'
    BY <1>3 DEF ShutsDown, Going
  <1>4. ASSUME NEW cause, Raise(cause) PROVE ShutsDown'
    BY <1>3, <1>4 DEF Raise, manager, flags
  <1>5. ASSUME pending'.trigger = pending.trigger, shutting' = shutting, Going,
               ~(flow.at = "converge" /\ flow.why = "shutdown")
        PROVE  ShutsDown'
    BY <1>2, <1>5 DEF ShutsDown
  <1>6. CASE HandleShutdown
    BY <1>6 DEF HandleShutdown, Call, ShutsDown
  <1>7. CASE ProgressStop
    <2>1. \/ \E cause : Raise(cause)
          \/ flow'.at = "stopped" /\ UNCHANGED <<pending, shutting>>
      BY <1>7 DEF ProgressStop, manager, flags
    <2>2. QED
      BY <1>4, <2>1 DEF ShutsDown, Going
  <1>8. CASE ConvergeAgain
    BY <1>5, <1>8 DEF ConvergeAgain, Going
  <1>9. CASE Begins
    BY <1>9 DEF Begins, BeginSession, NotPending, ShutsDown
  <1>10. ASSUME NEW e \in Endured, Converge(e) PROVE ShutsDown'
    <2>1. (\E cause : Raise(cause)) \/ (pending'.trigger = flow.why /\ shutting' = shutting)
      BY <1>10 DEF Converge, NotPending
    <2>2. (flow.why = "shutdown" => shutting) /\ (shutting => flow.why = "shutdown")
      BY <1>10 DEF Converge, ShutsDown, WhyConverge, Going
    <2>3. flow.why # "none"
      BY <1>10 DEF Converge, Shape, FlowShape, Triggers
    <2>4. QED
      BY <1>2, <1>4, <2>1, <2>2, <2>3 DEF ShutsDown
  <1>11. ASSUME NEW e \in Endured, ConvergeToShutdown(e) PROVE ShutsDown'
    <2>1. pending \in Pending /\ shutting
      BY <1>11 DEF ConvergeToShutdown, WhyConverge, Shape, ManagerShape
    <2>2. (\E cause : Raise(cause)) \/ (pending'.trigger = "shutdown" /\ shutting' = shutting)
      BY <1>11, <2>1 DEF ConvergeToShutdown, Pending
    <2>3. QED
      BY <1>2, <1>4, <2>1, <2>2 DEF ShutsDown
  <1>12. ASSUME NEW e \in Endured, LifecycleErrorConverging(e) PROVE ShutsDown'
    <2>1. pending \in Pending
      BY DEF Shape, ManagerShape
    <2> DEFINE toShutdown == pending.trigger = "shutdown"
               recover == Destroyed(e) # {} /\ ~toShutdown
               new == [pending EXCEPT !.trigger = IF toShutdown THEN @ ELSE "error",
                                      !.policy = IF toShutdown THEN @ ELSE "discard",
                                      !.phase = "recovery",
                                      !.ticket = IF recover THEN rm.ticket + 1 ELSE @]
    <2>a. new.trigger = IF pending.trigger = "shutdown" THEN "shutdown" ELSE "error"
      BY <2>1 DEF Pending
    <2>b. (\E cause : Raise(cause)) \/ (shutting' = shutting /\ pending' = new)
      BY <1>12 DEF LifecycleErrorConverging
    <2> HIDE DEF new
    <2>2. \/ \E cause : Raise(cause)
          \/ /\ shutting' = shutting
             /\ pending'.trigger = IF pending.trigger = "shutdown" THEN "shutdown" ELSE "error"
      BY <2>a, <2>b
    <2>3. (pending.trigger = "shutdown" => shutting) /\ (shutting => pending.trigger = "shutdown")
      BY <1>12 DEF LifecycleErrorConverging, ShutsDown, Going
    <2>4. QED
      BY <1>2, <1>4, <2>2, <2>3 DEF ShutsDown
  <1>13. CASE FinishStop
    <2>1. \/ \E cause : Raise(cause)
          \/ /\ pending' = NotPending /\ flow'.why = "stop"
             /\ flow'.at \in {"progress", "stopped"}
      BY <1>13 DEF FinishStop
    <2>2. QED
      BY <1>4, <2>1 DEF ShutsDown, Going, NotPending
  <1>14. CASE FinishIdle
    <2>1. ~shutting
      BY <1>14 DEF FinishIdle, FinishLast, FinishReady, Finishing, ShutsDown, Going
    <2>2. (\E cause : Raise(cause)) \/ (pending' = NotPending /\ shutting' = shutting)
      BY <1>14 DEF FinishIdle
    <2>3. QED
      BY <1>4, <2>1, <2>2 DEF ShutsDown, NotPending
  <1>15. QED
    BY <1>5, <1>6, <1>7, <1>8, <1>9, <1>10, <1>11, <1>12, <1>13, <1>14, GoesOn, TriggerStays
    DEF Converges

\* A method that enters a state finds nothing in flight.
LEMMA DispatchEnters ==
    ASSUME Shape, Owned, Entering, Dispatch
    PROVE  Entering'
  <1>1. ASSUME flow'.at \notin {"perception", "think", "action"} PROVE Entering'
    BY <1>1 DEF Entering
  <1>2. ASSUME Return, flow.at \notin {"stopped", "dead"} PROVE Entering'
    BY <1>1, <1>2, Returns DEF Shape
  <1>3. ASSUME NEW cause, Raise(cause) PROVE Entering'
    BY <1>1, <1>3 DEF Raise
  <1>4. ASSUME NEW method \in {"converge", "e1", "finish"}, NEW why, Call(method, why)
        PROVE  Entering'
    BY <1>1, <1>4 DEF Call
  <1>5. CASE ProgressToPerception \/ ProgressKeep
    <2>1. flow'.at = "perception" /\ state' = "PERCEPTION" /\ inflight = {} /\ ~Converging
          /\ UNCHANGED <<pending, inflight, readOpen>>
      BY <1>5 DEF ProgressToPerception, ProgressKeep, Acted, MayProgress, Call, tasks, flags
    <2>2. readOpen = 0
      BY <1>5 DEF ProgressToPerception, ProgressKeep, Acted, Owned
    <2>3. QED
      BY <2>1, <2>2 DEF Entering, Converging
  <1>6. CASE ProgressHeard
    <2>1. inflight = {} /\ ~Converging /\ UNCHANGED <<pending, inflight>> /\ readOpen' = 0
          /\ \/ flow'.at = "action" /\ state' = "ACTION"
             \/ flow'.at = "think" /\ state' = "THINK"
      BY <1>6 DEF ProgressHeard, MayProgress, Call, tasks
    <2>2. QED
      BY <2>1 DEF Entering, Converging
  <1>7. CASE ProgressThought
    <2>1. \/ Call("converge", "error")
          \/ /\ inflight = {} /\ ~Converging /\ UNCHANGED <<pending, inflight, readOpen>>
             /\ flow'.at = "action" /\ state' = "ACTION"
      BY <1>7 DEF ProgressThought, MayProgress, Call, tasks, flags
    <2>2. readOpen = 0
      BY <1>7 DEF ProgressThought, Owned
    <2>3. QED
      BY <1>4, <2>1, <2>2 DEF Entering, Converging
  <1>8. CASE \/ IgnoreItem \/ HandleWake \/ HandleMessage \/ HandleUnknownMessage
             \/ HandleInterrupt \/ HandleAck \/ HandleFact \/ HandleDone
    BY <1>2, <1>3, <1>4, <1>8
    DEF IgnoreItem, HandleWake, HandleMessage, HandleUnknownMessage, HandleInterrupt,
        HandleAck, HandleFact, HandleDone, Receive, BeginSession
  <1>9. CASE \/ HandleOpened \/ HandleRejected \/ HandleClosed \/ HandleLifecycleFailed
             \/ HandleRecovered \/ HandlePlannedRecovery \/ HandleError \/ HandleShutdown
             \/ ShutdownCleanupFails
    BY <1>2, <1>3, <1>4, <1>9
    DEF HandleOpened, HandleRejected, HandleClosed, HandleLifecycleFailed, HandleRecovered,
        HandlePlannedRecovery, HandleError, HandleShutdown, ShutdownCleanupFails,
        NextConversation, Receive
  <1>10. CASE \/ ProgressConverging \/ ProgressWaits \/ ProgressRest \/ ProgressEnd
              \/ ProgressReplace
    BY <1>2, <1>4, <1>10
    DEF ProgressConverging, ProgressWaits, ProgressRest, ProgressEnd, ProgressReplace, Acted,
        MayProgress, Progress
  <1>11. CASE ProgressStop
    BY <1>1, <1>3, <1>11 DEF ProgressStop
  <1>12. CASE EnterPerception \/ EnterThink \/ EnterAction \/ ConvergeAgain \/ LifecycleError
    BY <1>2, <1>3, <1>4, <1>12
    DEF EnterPerception, EnterThink, EnterAction, ConvergeAgain, LifecycleError
  <1>13. CASE Converges
    BY <1>2, <1>3, <1>4, <1>13
    DEF Converges, Converge, ConvergeToShutdown, LifecycleErrorConverging
  <1>14. CASE FinishLater \/ FinishClose \/ FinishRecycle \/ FinishAnnounce \/ FinishIdle
    BY <1>2, <1>3, <1>14
    DEF FinishLater, FinishClose, FinishRecycle, FinishAnnounce, FinishIdle,
        FinishLast, FinishReady, Finishing
  <1>15. CASE FinishStop
    BY <1>1, <1>3, <1>15 DEF FinishStop
  <1>16. QED
    BY <1>5, <1>6, <1>7, <1>8, <1>9, <1>10, <1>11, <1>12, <1>13, <1>14, <1>15
    DEF Dispatch, Converges

\* What is changed of a session leaves its number and, but for a new turn, its turn.
LEMMA SessionFields ==
    ASSUME Shape
    PROVE  \A new \in {session, [session EXCEPT !.ack = TRUE], Opened,
                       [session EXCEPT !.conv = "none"], [session EXCEPT !.blocked = TRUE],
                       [session EXCEPT !.aphase = "primary"], [session EXCEPT !.results = {}],
                       [session EXCEPT !.route = "none"], [session EXCEPT !.streak = 0],
                       [session EXCEPT !.conv = "closing", !.blocked = TRUE], AfterAction,
                       [AfterAction EXCEPT !.sel = Selected],
                       [AfterAction EXCEPT !.sel = Selected, !.blocked = TRUE, !.conv = "closing"],
                       [AfterAction EXCEPT !.aphase = "post_action_rest",
                           !.resp = [kind |-> "rest", route |-> "END_SESSION", next |-> {}]]} :
              new.id = session.id /\ new.turn = session.turn
  BY ZenonT(60) DEF Shape, ManagerShape, Context, Opened, AfterAction

\* The fact of a task changes what the session knows of its turn.
LEMMA FactFields ==
    ASSUME Shape, NEW x
    PROVE  \A new \in {[session EXCEPT !.results = @ \cup x], [session EXCEPT !.resp = x],
                       [session EXCEPT !.done = x]} :
              new.id = session.id /\ new.turn = session.turn
  BY DEF Shape, ManagerShape, Context

\* Every other step than its beginning and its end leaves the session its number; what
\* changes it finds one.
SessionKept ==
    /\ session'.id = session.id /\ (session'.turn = session.turn \/ EnterPerception)
    /\ session' = session \/ session.id # 0
    /\ begun' = begun

\* What a dispatch does not begin or end it leaves the session it found.
LEMMA SessionStays ==
    ASSUME Shape, Owned, Entering, ErrorConverges, Dispatch
    PROVE  Begins \/ FinishStop \/ FinishIdle \/ SessionKept
  <1>1. ASSUME UNCHANGED <<session, begun>> PROVE SessionKept
    BY <1>1 DEF SessionKept
  <1>2. ASSUME NEW cause, Raise(cause) PROVE SessionKept
    BY <1>1, <1>2 DEF Raise, manager, flags
  <1>3. session.id = 0 => session = NoContext /\ inflight = {}
    BY DEF Owned
  <1>4. Going /\ state \in {"WAKE", "PERCEPTION", "THINK", "ACTION"} => session.id # 0
    BY DEF Owned
  <1>5. CASE HandleWake \/ HandleMessage
    BY <1>1, <1>2, <1>5, Beginning DEF manager, flags
  <1>6. CASE \/ IgnoreItem \/ HandleUnknownMessage \/ HandleInterrupt \/ HandleDone
             \/ HandleLifecycleFailed \/ HandleRecovered \/ HandlePlannedRecovery
             \/ HandleError \/ HandleShutdown \/ ShutdownCleanupFails
    BY <1>1, <1>2, <1>6
    DEF IgnoreItem, HandleUnknownMessage, HandleInterrupt, HandleDone, HandleLifecycleFailed,
        HandleRecovered, HandlePlannedRecovery, HandleError, HandleShutdown,
        ShutdownCleanupFails, manager, flags
  <1>7. CASE HandleAck
    <2>1. state = "WAKE" /\ Going /\ session' = [session EXCEPT !.ack = TRUE] /\ begun' = begun
      BY <1>7, Admitted DEF HandleAck, Receive, Entry, Going, flags
    <2>2. QED
      BY <1>4, <2>1, SessionFields DEF SessionKept
  <1>8. ASSUME Has(Entry.cid) PROVE session.id # 0
    BY <1>3, <1>8 DEF Has
  <1>9. CASE HandleFact
    <2> DEFINE x == Entry.value
               y == {<<The(Entry.cid).kind, Entry.value>>}
    <2>1. Has(Entry.cid) /\ begun' = begun
      BY <1>9, Admitted DEF HandleFact, Receive, Entry, flags
    <2>2. \/ session' = session
          \/ session' = [session EXCEPT !.results = @ \cup y]
          \/ session' \in {[session EXCEPT !.resp = x], [session EXCEPT !.done = x]}
      BY <1>9 DEF HandleFact
    <2> HIDE DEF x, y
    <2>3. session'.id = session.id /\ session'.turn = session.turn
      <3>1. CASE session' = session
        BY <3>1
      <3>2. CASE session' = [session EXCEPT !.results = @ \cup y]
        BY <3>2, FactFields, Zenon
      <3>3. CASE session' \in {[session EXCEPT !.resp = x], [session EXCEPT !.done = x]}
        BY <3>3, FactFields, Zenon
      <3>4. QED
        BY <2>2, <3>1, <3>2, <3>3
    <2>4. QED
      BY <1>8, <2>1, <2>3 DEF SessionKept
  <1>10. CASE HandleOpened
    <2>1. Has(Entry.cid) /\ session' = Opened /\ begun' = begun
      BY <1>10, Admitted DEF HandleOpened, Receive, Entry, flags
    <2>2. QED
      BY <1>8, <2>1, SessionFields DEF SessionKept
  <1>11. ASSUME NEW rest, NEW ctx \in {session, [session EXCEPT !.conv = "none"]},
                NextConversation(rest, ctx), Has(Entry.cid)
         PROVE  SessionKept
    <2> DEFINE new == [ctx EXCEPT !.gen = @ + 1, !.conv = "opening", !.blocked = TRUE]
    <2>1. (\E cause : Raise(cause)) \/ (session' = new /\ begun' = begun)
      BY <1>11 DEF NextConversation, flags
    <2>2. ctx \in Context /\ ctx.id = session.id /\ ctx.turn = session.turn
      BY <1>11 DEF Shape, ManagerShape, Context
    <2>3. new.id = session.id /\ new.turn = session.turn
      BY <2>2 DEF Context
    <2> HIDE DEF new
    <2>4. QED
      BY <1>2, <1>8, <1>11, <2>1, <2>3 DEF SessionKept
  <1>12. CASE HandleRejected
    <2>1. Has(Entry.cid)
      BY <1>12, Admitted DEF HandleRejected, Receive, Entry
    <2>2. QED
      BY <1>1, <1>11, <1>12, <2>1 DEF HandleRejected, manager, flags
  <1>13. CASE HandleClosed
    <2>1. Has(Entry.cid)
      BY <1>13, Admitted DEF HandleClosed, Receive, Entry
    <2>2. CASE session' = [session EXCEPT !.conv = "none"] /\ begun' = begun
      BY <1>8, <2>1, <2>2, SessionFields DEF SessionKept
    <2>3. QED
      BY <1>11, <1>13, <2>1, <2>2 DEF HandleClosed, flags
  <1>14. CASE ProgressConverging \/ ProgressWaits \/ ProgressStop
    BY <1>1, <1>2, <1>14
    DEF ProgressConverging, ProgressWaits, ProgressStop, manager, flags
  <1>15. CASE ProgressToPerception \/ ProgressRest \/ ProgressEnd \/ ProgressReplace \/ ProgressKeep
    <2>1. Going /\ state \in {"WAKE", "ACTION"} /\ begun' = begun
      BY <1>15 DEF ProgressToPerception, ProgressRest, ProgressEnd, ProgressReplace,
                   ProgressKeep, Acted, MayProgress, Progress, Going, flags
    <2>2. session' \in {session, [session EXCEPT !.route = "none"], AfterAction,
                        [AfterAction EXCEPT !.sel = Selected],
                        [AfterAction EXCEPT !.sel = Selected, !.blocked = TRUE, !.conv = "closing"],
                        [AfterAction EXCEPT !.aphase = "post_action_rest",
                           !.resp = [kind |-> "rest", route |-> "END_SESSION", next |-> {}]]}
      BY <1>15 DEF ProgressToPerception, ProgressRest, ProgressEnd, ProgressReplace,
                   ProgressKeep
    <2>3. QED
      BY <1>4, <2>1, <2>2, SessionFields DEF SessionKept
  <1>16. CASE ProgressHeard
    <2> DEFINE silent == <<"listen", "silent">> \in session.results
               answer == LocalAnswer(IF silent THEN "silent" ELSE "several", session.streak)
               new == [session EXCEPT !.resp = answer, !.route = answer.route,
                                      !.next = answer.next,
                                      !.streak = IF silent THEN @ + 1 ELSE @]
    <2>1. Going /\ state = "PERCEPTION" /\ begun' = begun
      BY <1>16 DEF ProgressHeard, MayProgress, Progress, Heard, Going
    <2>2. session' \in {session, [session EXCEPT !.streak = 0], new}
      BY <1>16 DEF ProgressHeard
    <2>3. new.id = session.id /\ new.turn = session.turn
      BY DEF Shape, ManagerShape, Context
    <2> HIDE DEF new
    <2>4. QED
      BY <1>4, <2>1, <2>2, <2>3, SessionFields DEF SessionKept
  <1>17. CASE ProgressThought
    <2> DEFINE next == IF session.resp.route = "END_SESSION" THEN {} ELSE session.resp.next
               new == [session EXCEPT !.route = session.resp.route, !.next = next]
    <2>1. Going /\ state = "THINK" /\ begun' = begun
      BY <1>17 DEF ProgressThought, MayProgress, Progress, Going, flags
    <2>2. session' \in {session, new}
      BY <1>17 DEF ProgressThought
    <2>3. new.id = session.id /\ new.turn = session.turn
      BY DEF Shape, ManagerShape, Context
    <2> HIDE DEF new
    <2>4. QED
      BY <1>4, <2>1, <2>2, <2>3 DEF SessionKept
  <1>18. CASE EnterPerception
    <2> DEFINE new == [session EXCEPT !.turn = NextTurn, !.results = {}, !.resp = NoResponse,
                                      !.done = "none"]
    <2>1. Going /\ state = "PERCEPTION" /\ begun' = begun /\ session' = new
      BY <1>18 DEF EnterPerception, Going, Entering
    <2>2. new.id = session.id
      BY DEF Shape, ManagerShape, Context
    <2> HIDE DEF new
    <2>3. QED
      BY <1>4, <1>18, <2>1, <2>2 DEF SessionKept
  <1>19. CASE EnterThink \/ EnterAction
    <2>1. Going /\ state \in {"THINK", "ACTION"} /\ begun' = begun
      BY <1>19 DEF EnterThink, EnterAction, Going, Entering, Raise, flags
    <2>2. session' \in {session, [session EXCEPT !.results = {}],
                        [session EXCEPT !.aphase = "primary"]}
      BY <1>19 DEF EnterThink, EnterAction, Raise, manager
    <2>3. QED
      BY <1>4, <2>1, <2>2, SessionFields DEF SessionKept
  <1>20. CASE ConvergeAgain \/ LifecycleError \/ Converges
    <2>1. begun' = begun /\ session' \in {session, [session EXCEPT !.blocked = TRUE]}
      BY <1>20 DEF Converges, ConvergeAgain, LifecycleError, Converge, ConvergeToShutdown,
                   LifecycleErrorConverging, Raise, manager, flags
    <2>2. [NoContext EXCEPT !.blocked = TRUE] = NoContext
      <3> DEFINE new == [NoContext EXCEPT !.blocked = TRUE]
      <3>1. DOMAIN new = DOMAIN NoContext
        OBVIOUS
      <3>2. NoContext.blocked = TRUE
        BY DEF NoContext
      <3>3. \A x \in DOMAIN NoContext : new[x] = NoContext[x]
        BY <3>2
      <3>4. NoContext = [x \in DOMAIN NoContext |-> NoContext[x]]
        BY DEF NoContext
      <3>5. new = [x \in DOMAIN NoContext |-> new[x]]
        OBVIOUS
      <3>6. QED
        BY <3>1, <3>3, <3>4, <3>5, Zenon
    <2>3. QED
      BY <1>3, <2>1, <2>2, SessionFields DEF SessionKept
  <1>21. CASE FinishLater \/ FinishRecycle \/ FinishAnnounce
    BY <1>1, <1>2, <1>21 DEF FinishLater, FinishRecycle, FinishAnnounce, manager, flags
  <1>22. CASE FinishClose
    <2>1. session # NoContext
      BY <1>22 DEF FinishClose, MustClose, NoContext
    <2>2. session' = [session EXCEPT !.conv = "closing", !.blocked = TRUE] /\ begun' = begun
      BY <1>22 DEF FinishClose, flags
    <2>3. QED
      BY <1>3, <2>1, <2>2, SessionFields DEF SessionKept
  <1>23. QED
    BY <1>5, <1>6, <1>7, <1>9, <1>10, <1>12, <1>13, <1>14, <1>15, <1>16, <1>17, <1>18,
       <1>19, <1>20, <1>21, <1>22 DEF Dispatch, Converges

\* How the state changes: a session begins or is over, fails, or makes progress.
LEMMA StateMoves ==
    ASSUME Shape, ErrorConverges, Dispatch
    PROVE  \/ state' = state
           \/ state' = "ERROR"
           \/ Begins
           \/ FinishIdle
           \/ /\ ProgressToPerception \/ ProgressKeep
              /\ state \in {"WAKE", "ACTION"} /\ state' = "PERCEPTION"
           \/ ProgressHeard /\ state = "PERCEPTION" /\ state' \in {"THINK", "ACTION"}
           \/ ProgressThought /\ state = "THINK" /\ state' = "ACTION"
  <1>1. CASE HandleWake \/ HandleMessage
    BY <1>1, Beginning DEF Raise, manager
  <1>2. CASE \/ IgnoreItem \/ HandleUnknownMessage \/ HandleInterrupt \/ HandleAck
             \/ HandleFact \/ HandleDone \/ HandleOpened \/ HandleRejected \/ HandleClosed
             \/ HandleLifecycleFailed
    BY <1>2
    DEF IgnoreItem, HandleUnknownMessage, HandleInterrupt, HandleAck, HandleFact, HandleDone,
        HandleOpened, HandleRejected, HandleClosed, HandleLifecycleFailed, NextConversation,
        Raise, manager
  <1>3. CASE \/ HandleRecovered \/ HandlePlannedRecovery \/ HandleError
             \/ HandleShutdown \/ ShutdownCleanupFails
    BY <1>3
    DEF HandleRecovered, HandlePlannedRecovery, HandleError, HandleShutdown,
        ShutdownCleanupFails, Raise, manager
  <1>4. CASE ProgressToPerception \/ ProgressHeard \/ ProgressThought \/ ProgressKeep
    BY <1>4 DEF ProgressToPerception, ProgressHeard, ProgressThought, ProgressKeep, Acted, Heard
  <1>5. CASE \/ ProgressConverging \/ ProgressWaits \/ ProgressRest \/ ProgressEnd
             \/ ProgressReplace \/ ProgressStop
    BY <1>5
    DEF ProgressConverging, ProgressWaits, ProgressRest, ProgressEnd, ProgressReplace,
        ProgressStop, Raise, manager
  <1>6. CASE EnterPerception \/ EnterThink \/ EnterAction \/ ConvergeAgain \/ LifecycleError
    BY <1>6 DEF EnterPerception, EnterThink, EnterAction, ConvergeAgain, LifecycleError, Raise,
                manager
  <1>7. CASE Converges
    BY <1>7 DEF Converges, Converge, ConvergeToShutdown, LifecycleErrorConverging, Raise, manager
  <1>8. CASE FinishLater \/ FinishClose \/ FinishRecycle \/ FinishAnnounce \/ FinishStop
    BY <1>8 DEF FinishLater, FinishClose, FinishRecycle, FinishAnnounce, FinishStop, Raise, manager
  <1>9. QED
    BY <1>1, <1>2, <1>3, <1>4, <1>5, <1>6, <1>7, <1>8 DEF Dispatch, Converges

\* The wake timer and the read window: who starts and ends them.
LEMMA WindowMoves ==
    ASSUME Shape, ErrorConverges, Dispatch
    PROVE  /\ timer' = timer \/ timer' = 0 \/ Begins
           /\ readOpen' = readOpen \/ readOpen' = 0 \/ EnterPerception
           /\ mic' = mic \/ Begins \/ FinishIdle
  <1>1. CASE HandleWake \/ HandleMessage
    BY <1>1, Beginning DEF HandleMessage, Begins, BeginSession, Raise, flags, world
  <1>2. CASE \/ IgnoreItem \/ HandleUnknownMessage \/ HandleInterrupt \/ HandleAck
             \/ HandleFact \/ HandleDone \/ HandleOpened \/ HandleRejected \/ HandleClosed
             \/ HandleLifecycleFailed
    BY <1>2
    DEF IgnoreItem, HandleUnknownMessage, HandleInterrupt, HandleAck, HandleFact, HandleDone,
        HandleOpened, HandleRejected, HandleClosed, HandleLifecycleFailed, NextConversation,
        Raise, flags, world
  <1>3. CASE \/ HandleRecovered \/ HandlePlannedRecovery \/ HandleError
             \/ HandleShutdown \/ ShutdownCleanupFails
    BY <1>3
    DEF HandleRecovered, HandlePlannedRecovery, HandleError, HandleShutdown,
        ShutdownCleanupFails, Raise, flags, world
  <1>4. CASE \/ ProgressConverging \/ ProgressWaits \/ ProgressToPerception \/ ProgressHeard
             \/ ProgressThought \/ ProgressRest \/ ProgressEnd \/ ProgressReplace
             \/ ProgressKeep \/ ProgressStop
    BY <1>4
    DEF ProgressConverging, ProgressWaits, ProgressToPerception, ProgressHeard, ProgressThought,
        ProgressRest, ProgressEnd, ProgressReplace, ProgressKeep, ProgressStop, Raise, flags,
        world
  <1>5. CASE EnterPerception \/ EnterThink \/ EnterAction \/ ConvergeAgain \/ LifecycleError
    BY <1>5 DEF EnterPerception, EnterThink, EnterAction, ConvergeAgain, LifecycleError, Raise,
                flags, world
  <1>6. CASE Converges
    BY <1>6 DEF Converges, Converge, ConvergeToShutdown, LifecycleErrorConverging, Raise, flags,
                world
  <1>7. CASE \/ FinishLater \/ FinishClose \/ FinishRecycle \/ FinishAnnounce \/ FinishStop
             \/ FinishIdle
    BY <1>7 DEF FinishLater, FinishClose, FinishRecycle, FinishAnnounce, FinishStop, FinishIdle,
                Raise, flags, world
  <1>8. QED
    BY <1>1, <1>2, <1>3, <1>4, <1>5, <1>6, <1>7 DEF Dispatch, Converges

\* Nothing is launched for no session.
LEMMA NothingLaunched ==
    ASSUME Shape, FinishingConverges, Triggered, ErrorConverges, Owned, Entering, Dispatch,
           inflight = {}
    PROVE  inflight' = {} \/ Begins \/ session.id # 0
  <1>1. UNCHANGED tasks => inflight' = {}
    BY DEF tasks
  <1>2. ~Has(Entry.cid)
    BY DEF Has
  <1>3. Going /\ state \in {"WAKE", "PERCEPTION", "THINK", "ACTION"} => session.id # 0
    BY DEF Owned
  <1>4. session.id = 0 => session = NoContext
    BY DEF Owned
  <1>5. CASE HandleWake \/ HandleMessage
    BY <1>1, <1>5, Beginning DEF Raise
  <1>6. CASE \/ HandleFact \/ HandleDone \/ HandleOpened \/ HandleRejected \/ HandleClosed
             \/ HandleLifecycleFailed
    BY <1>2, <1>6, Admitted
    DEF HandleFact, HandleDone, HandleOpened, HandleRejected, HandleClosed,
        HandleLifecycleFailed, Receive, Entry
  <1>7. CASE ProgressEnd \/ ProgressReplace
    BY <1>3, <1>7 DEF ProgressEnd, ProgressReplace, Acted, MayProgress, Progress, Going
  <1>8. CASE EnterPerception \/ EnterThink \/ EnterAction
    BY <1>3, <1>8 DEF EnterPerception, EnterThink, EnterAction, Entering, Going
  <1>9. ASSUME NEW e \in Endured,
               Converge(e) \/ ConvergeToShutdown(e) \/ LifecycleErrorConverging(e)
        PROVE  inflight' = {}
    <2>1. UNCHANGED tasks \/ inflight' \in {Kept(e), RecordsAfter(e)}
      BY <1>9 DEF Converge, ConvergeToShutdown, LifecycleErrorConverging, Raise
    <2>2. RecordsAfter(e) = {} /\ Kept(e) = {}
      BY DEF RecordsAfter, Kept
    <2>3. QED
      BY <1>1, <2>1, <2>2
  <1>10. CASE FinishClose \/ FinishAnnounce
    BY <1>4, <1>10 DEF FinishClose, FinishAnnounce, MustClose, MustAnnounce, NoContext
  <1>11. QED
    BY <1>1, <1>5, <1>6, <1>7, <1>8, <1>9, <1>10, SameTasks DEF Dispatch

\* What ends a session leaves no record, timer or read window behind.
LEMMA SessionOver ==
    ASSUME FinishStop \/ FinishIdle
    PROVE  \/ \E cause : Raise(cause)
           \/ /\ session' = NoContext /\ pending' = NotPending /\ readOpen' = 0
              /\ inflight = {} /\ inflight' = {} /\ begun' = begun
              /\ FinishIdle => state' = "IDLE" /\ timer' = 0
              /\ FinishStop => /\ state' = state /\ timer' = timer
                               /\ \/ flow'.at = "stopped"
                                  \/ flow'.at = "progress" /\ flow'.why = "stop"
  BY DEF FinishStop, FinishIdle, FinishLast, FinishReady, FinishWaits, tasks

\* IDLE stays quiet: the wake listener gets its microphone back, or has failed for good.
LEMMA DispatchQuiet ==
    ASSUME Shape, FinishingConverges, Triggered, ErrorConverges, ShutsDown, Entering, Quiet,
           Owned, Dispatch
    PROVE  Quiet'
  <1> SUFFICES ASSUME state' = "IDLE"
               PROVE  /\ session' = NoContext /\ inflight' = {} /\ timer' = 0
                      /\ readOpen' = 0 /\ (mic'.held \/ mic'.failed)
    BY DEF Quiet
  <1>1. ASSUME FinishIdle, ~\E cause : Raise(cause)
        PROVE  mic'.held \/ mic'.failed
    <2>1. Converging /\ pending.trigger # "shutdown" /\ Going
      BY <1>1 DEF FinishIdle, FinishLast, FinishReady, Finishing, FinishingConverges, Going
    <2>2. ~shutting
      BY <1>1, <2>1 DEF FinishIdle, FinishLast, FinishReady, Finishing, ShutsDown
    <2>3. mic \in Microphone
      BY DEF Shape, WorldShape
    <2>4. \/ mic.failed /\ mic' = mic
          \/ mic' = Resumed
          \/ mic' = [mic EXCEPT !.failed = TRUE]
      BY <1>1, <2>2 DEF FinishIdle
    <2>5. QED
      BY <2>3, <2>4 DEF Resumed, Microphone
  <1>2. CASE FinishIdle /\ ~\E cause : Raise(cause)
    BY <1>1, <1>2, SessionOver
  <1>3. ASSUME ~FinishIdle \/ \E cause : Raise(cause)
        PROVE  state = "IDLE"
    BY <1>3, StateMoves DEF Begins, BeginSession, Raise, manager
  <1>4. CASE \E cause : Raise(cause)
    <2>1. state = "IDLE"
      BY <1>3, <1>4
    <2>2. UNCHANGED <<session, inflight, timer, readOpen, mic>>
      BY <1>4 DEF Raise, manager, tasks, flags, world
    <2>3. QED
      BY <2>1, <2>2 DEF Quiet
  <1>5. CASE ~FinishIdle /\ ~\E cause : Raise(cause)
    <2>1. /\ state = "IDLE" /\ session = NoContext /\ session.id = 0 /\ inflight = {}
          /\ timer = 0 /\ readOpen = 0 /\ (mic.held \/ mic.failed)
      BY <1>3, <1>5 DEF Quiet, NoContext
    <2>2. ~Begins
      BY DEF Begins, BeginSession
    <2>3. ~EnterPerception
      BY <2>1 DEF EnterPerception, Entering
    <2>4. inflight' = {}
      BY <2>1, <2>2, NothingLaunched
    <2>5. session' = NoContext
      BY <1>5, <2>1, <2>2, SessionStays, SessionOver DEF SessionKept
    <2>6. QED
      BY <1>5, <2>1, <2>2, <2>3, <2>4, <2>5, WindowMoves
  <1>6. QED
    BY <1>2, <1>4, <1>5

\* What a session begins with.
LEMMA Begun ==
    ASSUME Shape, Begins
    PROVE  /\ session'.id = begun + 1 /\ session'.turn = 0 /\ begun' = begun + 1
           /\ timer' = begun + 1 /\ readOpen' = readOpen /\ pending' = NotPending
           /\ state = "IDLE" /\ state' = "WAKE" /\ begun + 1 \in Sessions /\ ~shutting
           /\ session'.conv = "opening" /\ session'.blocked /\ session'.route = "none"
           /\ session'.gen = 1 /\ session'.resp = NoResponse /\ session'.done = "none"
           /\ session'.aphase = "none" /\ session'.results = {} /\ session'.ack = FALSE
  <1>1. PICK selected \in SUBSET PerceptionKinds : BeginSession(selected)
    BY DEF Begins
  <1>2. session' = [NoContext EXCEPT !.id = begun + 1, !.gen = 1, !.conv = "opening",
                                     !.sel = selected]
    BY <1>1 DEF BeginSession
  <1>3. QED
    BY <1>1, <1>2 DEF BeginSession, Begins, NoContext

\* The session and what it owns: the wake timer, the read window.
LEMMA DispatchOwned ==
    ASSUME Shape, FinishingConverges, Triggered, ErrorConverges, ShutsDown, Entering, Quiet,
           Owned, Dispatch
    PROVE  Owned'
  <1> DEFINE busy == {"WAKE", "PERCEPTION", "THINK", "ACTION"}
  <1>1. CASE Begins
    <2>1. begun + 1 \in Sessions \cup {0} /\ begun + 1 # 0
      <3>1. begun \in Nat
        BY DEF Shape, FlagsShape
      <3>2. begun + 1 # 0
        BY <3>1
      <3>3. begun + 1 \in Sessions
        BY <1>1, Begun
      <3>4. QED
        BY <3>2, <3>3
    <2>2. readOpen = 0
      BY <1>1, Begun DEF Quiet
    <2>3. pending' = NotPending /\ ~Converging'
      BY <1>1, Begun DEF Converging
    <2>4. QED
      BY <1>1, <2>1, <2>2, <2>3, Begun DEF Owned
  <1>2. CASE \E cause : Raise(cause)
    <2>1. UNCHANGED <<session, inflight, timer, readOpen, pending, begun, state>>
      BY <1>2 DEF Raise, manager, tasks, flags
    <2>2. ~Going'
      BY <1>2 DEF Raise, Going
    <2>3. QED
      BY <2>1, <2>2 DEF Owned, Converging
  <1>3. CASE (FinishStop \/ FinishIdle) /\ ~\E cause : Raise(cause)
    <2>1. session'.id = 0 /\ session'.turn = 0 /\ ~Converging'
      BY <1>3, SessionOver DEF NoContext, Converging
    <2>2. FinishStop => ~Going'
      BY <1>3, SessionOver DEF Going
    <2>3. FinishIdle => state' \notin busy
      BY <1>3, SessionOver
    <2>4. timer' = 0
      BY <1>3, SessionOver
      DEF FinishStop, FinishLast, FinishReady, Finishing, FinishingConverges, Owned
    <2>5. QED
      BY <1>3, <2>1, <2>2, <2>3, <2>4, SessionOver DEF Owned
  <1>4. CASE SessionKept /\ ~Begins /\ ~FinishStop /\ ~FinishIdle /\ ~\E cause : Raise(cause)
    <2>1. begun' = begun /\ session'.id = session.id
      BY <1>4 DEF SessionKept
    <2>2. session'.id = 0 => session' = NoContext /\ inflight' = {}
      BY <1>4, <2>1, NothingLaunched DEF SessionKept, Owned
    <2>3. Going' /\ state' \in busy => session'.id # 0
      <3>1. Going' => Going
        BY GoesOn DEF ProgressStop, Raise, Going
      <3>2. state' \in busy => state \in busy
        BY <1>4, StateMoves
      <3>3. QED
        BY <2>1, <3>1, <3>2 DEF Owned
    <2>4. timer' \in {0, session'.id}
      BY <1>4, <2>1, WindowMoves DEF Owned
    <2>5. Converging' => timer' = 0
      <3>1. CASE Converging
        BY <1>4, <3>1, WindowMoves DEF Owned
      <3>2. CASE ~Converging
        <4>1. pending.trigger = "none" /\ Triggered'
          BY <3>2, DispatchTriggered DEF Converging, NotPending
        <4>2. CASE ~Converges
          BY <1>4, <4>1, <4>2, TriggerStays DEF Triggered
        <4>3. CASE Converges
          BY <1>4, <3>2, <4>3
          DEF Converges, Converge, ConvergeToShutdown, LifecycleErrorConverging
        <4>4. QED
          BY <4>2, <4>3
      <3>3. QED
        BY <3>1, <3>2
    <2>6. CASE EnterPerception
      <3>1. readOpen = 0 /\ state = "PERCEPTION" /\ session'.turn = session.turn + 1
            /\ state' \in {"PERCEPTION", "ERROR"}
        BY <2>6 DEF EnterPerception, Entering, NextTurn, Shape, ManagerShape, Context
      <3>2. readOpen' \in {0, session'.turn}
        BY <2>6, <3>1 DEF EnterPerception, NextTurn
      <3>3. QED
        BY <2>1, <2>2, <2>3, <2>4, <2>5, <3>1, <3>2 DEF Owned
    <2>7. CASE ~EnterPerception
      <3>1. session'.turn = session.turn /\ (readOpen' = readOpen \/ readOpen' = 0)
        BY <1>4, <2>7, WindowMoves DEF SessionKept
      <3>2. readOpen' \in {0, session'.turn}
        BY <3>1 DEF Owned
      <3>3. state' \in {"WAKE", "THINK", "ACTION"} => readOpen' = 0
        BY <1>4, <3>1, StateMoves DEF Owned, ProgressHeard
      <3>4. QED
        BY <2>1, <2>2, <2>3, <2>4, <2>5, <3>2, <3>3 DEF Owned
    <2>8. QED
      BY <2>6, <2>7
  <1>5. QED
    BY <1>1, <1>2, <1>3, <1>4, SessionStays

\* What a record is launched with.
LEMMA RecordIs ==
    ASSUME NEW cid, NEW phase, NEW kind
    PROVE  LET r == Record(cid, phase, kind)
           IN /\ r.cid = cid /\ r.phase = phase /\ r.kind = kind /\ r.task = "running"
              /\ r.sid = session.id /\ r.turn = session.turn
              /\ r.fact = FALSE /\ r.cancel = FALSE /\ r.proven = FALSE
  BY DEF Record

\* What a step of the dispatch loop does to the records: at most one is launched, and
\* but for a conversation that is opened again nothing else is in flight then.
Drops == /\ HandleDone \/ HandleOpened \/ HandleClosed \/ HandleLifecycleFailed
         /\ Has(Entry.cid)
         /\ inflight' = inflight \ {The(Entry.cid)}
Reopens == /\ HandleRejected \/ HandleClosed
           /\ ~Converging /\ Has(Entry.cid)
           /\ \A q \in inflight \ {The(Entry.cid)} : ~Private(q)
           /\ inflight' = (inflight \ {The(Entry.cid)})
                             \cup {Record(cids + 1, "open", "conversation")}

\* A dispatch changes the records in flight in one of these ways.
LEMMA Launches ==
    ASSUME Shape, ErrorConverges, Entering, Dispatch
    PROVE  \/ inflight' = inflight \/ Drops \/ HandleFact \/ Converges \/ Begins
           \/ EnterPerception \/ Reopens
           \/ /\ inflight = {}
              /\ \/ ProgressEnd /\ inflight' = {Record(cids + 1, "action_rest", "rest")}
                 \/ /\ ProgressReplace \/ FinishClose
                    /\ inflight' = {Record(cids + 1, "close", "conversation")}
                 \/ EnterThink /\ inflight' = {Record(cids + 1, "think", "reasoner")}
                 \/ /\ EnterAction
                    /\ inflight' = {Record(cids + 1, "action_primary", session.resp.kind)}
                 \/ FinishAnnounce /\ inflight' = {Record(cids + 1, "error_notice", "speak")}
  <1> USE DEF Shape
  <1>1. UNCHANGED tasks => inflight' = inflight
    BY DEF tasks
  <1>2. CASE HandleWake \/ HandleMessage
    BY <1>1, <1>2, Beginning DEF Raise
  <1>3. CASE \/ HandleDone \/ HandleOpened \/ HandleRejected \/ HandleClosed
             \/ HandleLifecycleFailed
    <2>1. Has(Entry.cid)
      BY <1>3, Admitted
      DEF HandleDone, HandleOpened, HandleRejected, HandleClosed, HandleLifecycleFailed,
          Receive, Entry
    <2>2. CASE HandleDone \/ HandleOpened \/ HandleLifecycleFailed
      BY <1>1, <2>1, <2>2 DEF HandleDone, HandleOpened, HandleLifecycleFailed, Raise, Drops
    <2>3. ASSUME NEW ctx, NextConversation(inflight \ {The(Entry.cid)}, ctx), ~Converging,
                 HandleRejected \/ HandleClosed
          PROVE  inflight' = inflight \/ Reopens
      BY <1>1, <2>1, <2>3 DEF NextConversation, Clash, Launch, Raise, Reopens
    <2>4. QED
      BY <1>1, <1>3, <2>1, <2>2, <2>3 DEF HandleRejected, HandleClosed, Drops
  <1>4. CASE ProgressEnd \/ ProgressReplace
    BY <1>4 DEF ProgressEnd, ProgressReplace, Acted, MayProgress, Launch
  <1>5. CASE EnterThink \/ EnterAction
    BY <1>1, <1>5 DEF EnterThink, EnterAction, Entering, Launch, Raise
  <1>6. CASE FinishClose \/ FinishAnnounce
    BY <1>6 DEF FinishClose, FinishAnnounce, FinishReady, FinishWaits, Launch
  <1>7. QED
    BY <1>1, <1>2, <1>3, <1>4, <1>5, <1>6, SameTasks DEF Dispatch, Converges

\* The records converge() leaves.
LEMMA ConvergedRecords ==
    ASSUME Converges
    PROVE  \/ \E cause : Raise(cause)
           \/ \E e \in Endured : inflight' \in {Kept(e), RecordsAfter(e)}
  BY DEF Converges, Converge, ConvergeToShutdown, LifecycleErrorConverging

\* Every record in flight is of the session and the turn there is.
LEMMA DispatchCurrent ==
    ASSUME Shape, Fits, FinishingConverges, Triggered, ErrorConverges, ShutsDown, Entering,
           Quiet, Owned, Current, Dispatch
    PROVE  Current'
  <1> DEFINE Mine(r) == r.sid = session'.id /\ r.turn = session'.turn
  <1>1. CASE Begins
    <2>1. inflight = {}
      BY <1>1, Begun DEF Quiet
    <2>2. PICK selected \in SUBSET PerceptionKinds : BeginSession(selected)
      BY <1>1 DEF Begins
    <2>3. PICK opens \in InFlight : /\ opens.sid = begun + 1 /\ opens.turn = 0
                                    /\ inflight' = inflight \cup {opens}
      BY <2>2, FirstRequest
    <2>4. QED
      BY <1>1, <2>1, <2>3, Begun DEF Current
  <1>2. CASE \E cause : Raise(cause)
    BY <1>2 DEF Raise, manager, tasks, Current
  <1>3. CASE (FinishStop \/ FinishIdle) /\ ~\E cause : Raise(cause)
    BY <1>3, SessionOver DEF Current
  <1>4. CASE EnterPerception /\ SessionKept
    <2>1. inflight = {} /\ session'.id = session.id /\ session'.turn = session.turn + 1
      BY <1>4 DEF EnterPerception, Entering, NextTurn, SessionKept, Shape, ManagerShape, Context
    <2>2. CASE UNCHANGED tasks
      BY <2>1, <2>2 DEF tasks, Current
    <2>3. CASE ~UNCHANGED tasks
      <3>1. PICK new \in SUBSET InFlight :
               /\ inflight' = inflight \cup new
               /\ \A r \in new : r.sid = session.id /\ r.turn = session.turn + 1
        BY <1>4, <2>3, SensesStart
      <3>2. QED
        BY <2>1, <3>1 DEF Current
    <2>4. QED
      BY <2>2, <2>3
  <1>5. CASE SessionKept /\ ~EnterPerception /\ ~Begins /\ ~\E cause : Raise(cause)
    <2>1. session'.id = session.id /\ session'.turn = session.turn
      BY <1>5 DEF SessionKept
    <2>2. \A r \in inflight : Mine(r)
      BY <2>1 DEF Current
    <2>3. \A phase, kind : Mine(Record(cids + 1, phase, kind))
      BY <2>1 DEF Record
    <2>4. CASE HandleFact
      <3> DEFINE q == The(Entry.cid)
      <3>1. q \in inflight
        BY <2>4, Admitted, Found DEF HandleFact, Receive, Entry
      <3>2. inflight' = Update(q, [q EXCEPT !.fact = TRUE])
        BY <2>4 DEF HandleFact
      <3> HIDE DEF q
      <3>3. q \in InFlight
        BY <3>1 DEF Shape, TasksShape
      <3>4. Mine([q EXCEPT !.fact = TRUE])
        BY <2>2, <3>1, <3>3 DEF InFlight
      <3>5. QED
        BY <2>2, <3>2, <3>4 DEF Update, Current
    <2>5. CASE Converges
      <3>1. PICK e \in Endured : inflight' \in {Kept(e), RecordsAfter(e)}
        BY <1>5, <2>5, ConvergedRecords
      <3>2. \A q \in inflight : Mine(Converged(q, e))
        BY <2>2, ConvergedIs
      <3>3. QED
        BY <3>1, <3>2 DEF Kept, RecordsAfter, Current
    <2> HIDE DEF Mine
    <2>6. \A r \in inflight' : Mine(r)
      <3>1. CASE inflight' = inflight \/ Drops
        BY <2>2, <3>1 DEF Drops
      <3>2. CASE Reopens
        BY <2>2, <2>3, <3>2 DEF Reopens
      <3>3. CASE HandleFact \/ Converges
        BY <2>4, <2>5, <3>3 DEF Current, Mine
      <3>4. QED
        BY <1>5, <2>3, <3>1, <3>2, <3>3, Launches
    <2>7. QED
      BY <2>6 DEF Mine, Current
  <1>6. QED
    BY <1>1, <1>2, <1>3, <1>4, <1>5, SessionStays

\* What runs while the dispatch loop waits leaves the manager's own state alone.
LEMMA OutsideKeeps ==
    ASSUME Work \/ Recover \/ AckElapses \/ World
    PROVE  /\ flow.at = "receive"
           /\ UNCHANGED <<state, session, pending, cids, flow, readOpen, faultKeys, asrNotice,
                          shutting, waiter, begun, scenario, mic>>
           /\ timer' = timer \/ timer' = 0
           /\ inflight' = inflight \/ Work
           /\ AckElapses \/ timer' = timer
  <1>1. CASE Recover \/ AckElapses \/ World
    BY <1>1 DEF Recover, RecoveryEnds, AckElapses, World, Signalled, Input, Ingest, EngineDies,
                Outside, Keep, manager
  <1>2. ASSUME NEW r, ReturnWorker(r) \/ \E keys : FaultWorker(r, keys)
        PROVE  Outside /\ Keep /\ UNCHANGED <<timer, mic>>
    BY <1>2 DEF ReturnWorker, FaultWorker, world
  <1>3. ASSUME NEW r, PublishHeard(r) \/ PublishRead(r) \/ PublishThought(r) \/ PublishDone(r)
        PROVE  Outside /\ Keep /\ UNCHANGED <<timer, mic>>
    BY <1>3 DEF PublishHeard, PublishRead, PublishThought, PublishDone, Publish
  <1>4. ASSUME NEW r, OpenEnds(r) \/ CloseEnds(r)
        PROVE  Outside /\ Keep /\ UNCHANGED <<timer, mic>>
    BY <1>4 DEF OpenEnds, CloseEnds, EndLifecycle
  <1>5. Work => Outside /\ Keep /\ UNCHANGED <<timer, mic>>
    BY <1>2, <1>3, <1>4 DEF Work
  <1>6. QED
    BY <1>1, <1>5 DEF Outside, Keep, manager

\* A task that goes on is still of its session, phase and number.
LEMMA WorkedIs ==
    ASSUME Shape, NEW r \in inflight, NEW task
    PROVE  LET s == [r EXCEPT !.task = task]
           IN /\ s.task = task /\ s.sid = r.sid /\ s.turn = r.turn /\ s.phase = r.phase
              /\ s.kind = r.kind /\ s.cid = r.cid /\ s.fact = r.fact /\ s.cancel = r.cancel
              /\ s.proven = r.proven
  BY DEF Shape, TasksShape, InFlight

\* The invariant of the session.
SessionInv == ShutsDown /\ Entering /\ Quiet /\ Owned /\ Current

\* Steps outside the dispatch loop keep it.
LEMMA OutsideSession ==
    ASSUME Shape, Numbered, SessionInv, Work \/ Recover \/ AckElapses \/ World
    PROVE  SessionInv'
  <1>1. ShutsDown'
    BY OutsideKeeps DEF SessionInv, ShutsDown, Going, Converging
  <1>2. Entering'
    BY OutsideKeeps DEF Entering
  <1>3. inflight = {} => inflight' = {}
    BY OutsideKeeps DEF Work
  <1>4. Quiet'
    BY <1>3, OutsideKeeps DEF SessionInv, Quiet
  <1>5. Owned'
    BY <1>3, OutsideKeeps DEF SessionInv, Owned, Going, Converging
  <1>6. Current'
    <2>1. CASE inflight' = inflight
      BY <2>1, OutsideKeeps DEF SessionInv, Current
    <2>2. CASE Work
      <3>1. PICK r \in inflight, task \in TaskStates : WorkOf(r, task)
        BY <2>2, WorkIs
      <3>2. inflight' = Update(r, [r EXCEPT !.task = task]) /\ UNCHANGED session
        BY <3>1 DEF WorkOf, manager
      <3>3. [r EXCEPT !.task = task].sid = r.sid /\ [r EXCEPT !.task = task].turn = r.turn
        BY WorkedIs
      <3>4. QED
        BY <3>2, <3>3 DEF SessionInv, Current, Update
    <2>3. QED
      BY <2>1, <2>2, OutsideKeeps
  <1>7. QED
    BY <1>1, <1>2, <1>4, <1>5, <1>6 DEF SessionInv

\* In every run of the manager its session is whole: every record is of it and of its
\* turn, and IDLE is quiet.
THEOREM SessionHolds == Spec => []SessionInv
  <1>1. Init => SessionInv
    BY DEF Init, SessionInv, ShutsDown, Entering, Quiet, Owned, Current, Going, Converging,
           NoContext, NotPending
  <1>2. Shape /\ Numbered /\ RecoveryInv /\ ReportsInv /\ SessionInv /\ [Next]_vars
        => SessionInv'
    <2> SUFFICES ASSUME Shape, Numbered, RecoveryInv, ReportsInv, SessionInv, [Next]_vars
                 PROVE  SessionInv'
      OBVIOUS
    <2>1. CASE UNCHANGED vars
      BY <2>1 DEF vars, manager, tasks, flags, world, SessionInv, ShutsDown, Entering, Quiet,
                  Owned, Current, Going, Converging
    <2>2. CASE Dispatch
      BY <2>2, DispatchShuts, DispatchEnters, DispatchQuiet, DispatchOwned, DispatchCurrent
      DEF RecoveryInv, ReportsInv, SessionInv
    <2>3. CASE Work \/ Recover \/ AckElapses \/ World
      BY <2>3, OutsideSession
    <2>4. QED
      BY <2>1, <2>2, <2>3 DEF Next
  <1>3. QED
    BY <1>1, <1>2, ShapeHolds, RecoveryHolds, ReportsHold, PTL DEF Spec

\* In IDLE nothing is left of the last session, and no record in flight is of an
\* earlier session or turn.
THEOREM IdleQuiet == Spec => [](IdleIsQuiet /\ InFlightIsCurrent)
  <1>1. SessionInv => IdleIsQuiet /\ InFlightIsCurrent
    BY DEF SessionInv, Quiet, IdleIsQuiet, Current, InFlightIsCurrent
  <1>2. QED
    BY <1>1, SessionHolds, PTL

-----------------------------------------------------------------------------
(* The conversation.  A lifecycle operation is alone in flight; while the  *)
(* session converges its workers are cancelled; what is in flight is of    *)
(* the state; and where a thought may be asked for, the conversation is    *)
(* ready and the backend holds it, unless the backend died.                *)

ErrorWhy ==
    /\ flow.at = "converge" /\ flow.why = "error" => state = "ERROR"
    /\ pending.trigger = "error" => state = "ERROR"
Stopping(r) ==
    Private(r) \/ (r.cancel /\ ~Active(r)) \/ (r.phase = "error_notice" /\ state = "ERROR")
Cancelled == Converging => \A r \in inflight : Stopping(r)
CancelConverging == ~Converging => \A r \in inflight : ~r.cancel
OfState ==
    ~Converging /\ state # "ERROR" => \A r \in inflight : Private(r) \/ StateOf(r.phase) = state
Alone == \A r \in inflight : Private(r) => inflight = {r}
Replacing == /\ state = "ACTION" /\ session.route = "REPLACE_NEXT"
             /\ session.done = "none" /\ session.aphase = "none"
Opens == \A r \in inflight :
    r.phase = "open" => state = "WAKE" \/ Replacing \/ state = "ERROR"
Closes == \A r \in inflight :
    r.phase = "close" => /\ session.conv = "closing"
                         /\ Converging \/ Replacing \/ state = "ERROR"
Speaking == \/ state \in {"PERCEPTION", "THINK"}
            \/ state = "ACTION" /\ session.route # "REPLACE_NEXT"
Ready == Going /\ ~Converging /\ Speaking => session.conv = "ready" /\ ~session.blocked
ThinkReady == ~Converging => \A r \in inflight : r.phase = "think" => session.conv = "ready"
Holding == session.conv = "ready" \/ \E r \in inflight : r.task = "ready"
EngineHolds == ~Converging /\ engine.alive /\ Holding => engine.conv = Ours

\* A convergence goes on until the session is over; only converge() begins one.
LEMMA ConvergingStays ==
    ASSUME Shape, RecoveryInv, Triggered, ErrorConverges, ShutsDown, Dispatch
    PROVE  /\ Converging => Converging' \/ FinishStop \/ FinishIdle
           /\ ~Converging => ~Converging' \/ Converges
           /\ Begins => ~Converging /\ ~Converging'
  <1>1. FinishingConverges /\ Triggered'
    BY DispatchTriggered DEF RecoveryInv
  <1>2. Begins => ~Converging
    BY DEF Begins, RecoveryInv, ConvergingIsBlocked, ShutsDown
  <1>3. Begins => ~Converging'
    BY Begun DEF Converging
  <1>4. Converging' \/ pending'.trigger = "none"
    BY DEF Converging, NotPending
  <1>5. Converging \/ pending.trigger = "none"
    BY DEF Converging, NotPending
  <1>6. ASSUME Converges, Converging PROVE Converging'
    <2>1. PICK e \in Endured :
             Converge(e) \/ ConvergeToShutdown(e) \/ LifecycleErrorConverging(e)
      BY <1>6 DEF Converges
    <2>2. pending \in Pending
      BY DEF Shape, ManagerShape
    <2>3. CASE \E cause : Raise(cause)
      BY <1>6, <2>3 DEF Raise, manager, Converging
    <2>4. CASE ConvergeToShutdown(e) /\ ~\E cause : Raise(cause)
      <3>1. pending'.trigger = "shutdown"
        BY <2>2, <2>4 DEF ConvergeToShutdown, Pending
      <3>2. QED
        BY <3>1, <1>4
    <2>5. CASE LifecycleErrorConverging(e) /\ ~\E cause : Raise(cause)
      <3> DEFINE toShutdown == pending.trigger = "shutdown"
                 recover == Destroyed(e) # {} /\ ~toShutdown
                 new == [pending EXCEPT !.trigger = IF toShutdown THEN @ ELSE "error",
                                        !.policy = IF toShutdown THEN @ ELSE "discard",
                                        !.phase = "recovery",
                                        !.ticket = IF recover THEN rm.ticket + 1 ELSE @]
      <3>1. pending' = new
        BY <2>5 DEF LifecycleErrorConverging
      <3>2. new.phase = "recovery"
        BY <2>2 DEF Pending
      <3> HIDE DEF new
      <3>3. QED
        BY <3>1, <3>2 DEF Converging, NotPending
    <2>6. QED
      BY <1>6, <2>1, <2>3, <2>4, <2>5 DEF Converge
  <1>7. FinishStop \/ FinishIdle => Converging
    BY <1>1 DEF FinishStop, FinishIdle, FinishLast, FinishReady, Finishing, FinishingConverges
  <1>8. QED
    BY <1>1, <1>2, <1>3, <1>4, <1>5, <1>6, <1>7, TriggerStays DEF Triggered

\* What a step of the dispatch loop does to the session: but for an acknowledgement, a
\* fact and the end of a lifecycle operation, nothing is in flight.
Steps == \/ ProgressToPerception \/ ProgressHeard \/ ProgressThought \/ ProgressRest
         \/ ProgressEnd \/ ProgressReplace \/ ProgressKeep
         \/ EnterPerception \/ EnterThink \/ EnterAction

\* A dispatch changes the session in one of these ways.
LEMMA SessionMoves ==
    ASSUME Shape, ErrorConverges, Entering, Dispatch
    PROVE  \/ session' = session
           \/ session' = [session EXCEPT !.blocked = TRUE] /\ (Converges \/ ConvergeAgain)
           \/ HandleAck /\ state = "WAKE" /\ session' = [session EXCEPT !.ack = TRUE]
           \/ HandleFact
           \/ HandleOpened /\ session' = Opened
           \/ HandleRejected /\ Reopens
           \/ HandleClosed /\ Reopens /\ session.route = "REPLACE_NEXT"
           \/ /\ HandleClosed /\ Drops /\ (Converging \/ session.route # "REPLACE_NEXT")
              /\ session' = [session EXCEPT !.conv = "none"]
           \/ Steps /\ inflight = {} /\ ~Converging
           \/ FinishClose /\ inflight = {}
           \/ FinishStop \/ FinishIdle \/ Begins
  <1>1. UNCHANGED manager => session' = session
    BY DEF manager
  <1>2. ASSUME NEW cause, Raise(cause) PROVE session' = session
    BY <1>1, <1>2 DEF Raise
  <1>3. CASE HandleWake \/ HandleMessage
    BY <1>1, <1>2, <1>3, Beginning
  <1>4. CASE \/ IgnoreItem \/ HandleUnknownMessage \/ HandleInterrupt \/ HandleDone
             \/ HandleLifecycleFailed \/ HandleRecovered \/ HandlePlannedRecovery
             \/ HandleError \/ HandleShutdown \/ ShutdownCleanupFails
    BY <1>1, <1>2, <1>4
    DEF IgnoreItem, HandleUnknownMessage, HandleInterrupt, HandleDone, HandleLifecycleFailed,
        HandleRecovered, HandlePlannedRecovery, HandleError, HandleShutdown,
        ShutdownCleanupFails
  <1>5. CASE HandleAck
    BY <1>5, Admitted DEF HandleAck, Receive, Entry
  <1>6. CASE HandleOpened
    BY <1>6 DEF HandleOpened
  <1>7. ASSUME NEW ctx, NextConversation(inflight \ {The(Entry.cid)}, ctx), ~Converging,
               Has(Entry.cid), HandleRejected \/ HandleClosed
        PROVE  session' = session \/ Reopens
    BY <1>1, <1>2, <1>7 DEF NextConversation, Clash, Launch, Reopens
  <1>8. CASE HandleRejected \/ HandleClosed
    <2>1. Has(Entry.cid)
      BY <1>8, Admitted DEF HandleRejected, HandleClosed, Receive, Entry
    <2>2. CASE HandleRejected
      BY <1>1, <1>7, <2>1, <2>2 DEF HandleRejected
    <2>3. CASE HandleClosed
      BY <1>1, <1>7, <2>1, <2>3 DEF HandleClosed, Drops
    <2>4. QED
      BY <1>8, <2>2, <2>3
  <1>9. CASE \/ ProgressToPerception \/ ProgressHeard \/ ProgressThought \/ ProgressRest
             \/ ProgressEnd \/ ProgressReplace \/ ProgressKeep
    <2>1. inflight = {} /\ ~Converging
      BY <1>9 DEF ProgressToPerception, ProgressHeard, ProgressThought, ProgressRest,
                  ProgressEnd, ProgressReplace, ProgressKeep, Acted, MayProgress
    <2>2. QED
      BY <1>9, <2>1 DEF Steps
  <1>10. CASE ProgressConverging \/ ProgressWaits \/ ProgressStop
    BY <1>1, <1>2, <1>10 DEF ProgressConverging, ProgressWaits, ProgressStop
  <1>11. CASE EnterPerception \/ EnterThink \/ EnterAction
    <2>1. inflight = {} /\ ~Converging
      BY SMTT(60), <1>11 DEF EnterPerception, EnterThink, EnterAction, Entering
    <2>2. QED
      BY <1>11, <2>1 DEF Steps
  <1>12. CASE ConvergeAgain \/ LifecycleError \/ Converges
    BY <1>1, <1>2, <1>12
    DEF Converges, ConvergeAgain, LifecycleError, Converge, ConvergeToShutdown,
        LifecycleErrorConverging
  <1>13. CASE FinishLater \/ FinishClose \/ FinishRecycle \/ FinishAnnounce
    BY <1>1, <1>2, <1>13 DEF FinishLater, FinishClose, FinishRecycle, FinishAnnounce, FinishWaits
  <1>14. QED
    BY <1>3, <1>4, <1>5, <1>6, <1>8, <1>9, <1>10, <1>11, <1>12, <1>13
    DEF Dispatch, Converges

\* A convergence is called for an error only in ERROR.
LEMMA ErrorCalls ==
    ASSUME Shape, ErrorConverges, Dispatch, flow'.at = "converge", flow'.why = "error"
    PROVE  state' = "ERROR"
  <1>1. ~(flow.at \notin {"stopped", "dead"} /\ Return)
    BY Returns DEF Shape
  <1>2. ASSUME NEW cause, Raise(cause) PROVE FALSE
    BY <1>2 DEF Raise
  <1>3. ASSUME NEW method, NEW why, Call(method, why) PROVE method = "converge" /\ why = "error"
    BY <1>3 DEF Call
  <1>4. CASE \/ IgnoreItem \/ HandleWake \/ HandleMessage \/ HandleUnknownMessage
             \/ HandleInterrupt \/ HandleAck \/ HandleFact \/ HandleDone
    BY <1>1, <1>2, <1>3, <1>4
    DEF IgnoreItem, HandleWake, HandleMessage, HandleUnknownMessage, HandleInterrupt,
        HandleAck, HandleFact, HandleDone, Receive, BeginSession
  <1>5. CASE \/ HandleOpened \/ HandleRejected \/ HandleClosed \/ HandleLifecycleFailed
             \/ HandleRecovered \/ HandlePlannedRecovery \/ HandleError \/ HandleShutdown
             \/ ShutdownCleanupFails
    BY <1>1, <1>2, <1>3, <1>5
    DEF HandleOpened, HandleRejected, HandleClosed, HandleLifecycleFailed, HandleRecovered,
        HandlePlannedRecovery, HandleError, HandleShutdown, ShutdownCleanupFails,
        NextConversation, Receive
  <1>6. CASE \/ ProgressConverging \/ ProgressWaits \/ ProgressToPerception \/ ProgressHeard
             \/ ProgressThought \/ ProgressRest \/ ProgressEnd \/ ProgressReplace
             \/ ProgressKeep
    BY <1>1, <1>2, <1>3, <1>6
    DEF ProgressConverging, ProgressWaits, ProgressToPerception, ProgressHeard,
        ProgressThought, ProgressRest, ProgressEnd, ProgressReplace, ProgressKeep, Acted,
        MayProgress, Progress
  <1>7. CASE ProgressStop
    BY <1>2, <1>7 DEF ProgressStop
  <1>8. CASE EnterPerception \/ EnterThink \/ EnterAction \/ ConvergeAgain \/ LifecycleError
    BY <1>1, <1>2, <1>3, <1>8
    DEF EnterPerception, EnterThink, EnterAction, ConvergeAgain, LifecycleError
  <1>9. CASE Converges
    BY <1>1, <1>2, <1>3, <1>9
    DEF Converges, Converge, ConvergeToShutdown, LifecycleErrorConverging
  <1>10. CASE FinishLater \/ FinishClose \/ FinishRecycle \/ FinishAnnounce \/ FinishIdle
    BY <1>1, <1>2, <1>10
    DEF FinishLater, FinishClose, FinishRecycle, FinishAnnounce, FinishIdle,
        FinishLast, FinishReady, Finishing
  <1>11. CASE FinishStop
    BY <1>2, <1>11 DEF FinishStop
  <1>12. QED
    BY <1>4, <1>5, <1>6, <1>7, <1>8, <1>9, <1>10, <1>11 DEF Dispatch, Converges

\* In ERROR the state stays until the session is over, so a convergence of an error is
\* one in ERROR.
LEMMA DispatchErrorWhy ==
    ASSUME Shape, RecoveryInv, Triggered, ErrorConverges, ShutsDown, ErrorWhy, Dispatch
    PROVE  ErrorWhy'
  <1>1. FinishingConverges
    BY DEF RecoveryInv
  <1>2. SUFFICES ASSUME pending'.trigger = "error" PROVE state' = "ERROR"
    BY ErrorCalls DEF ErrorWhy
  <1>3. pending' # NotPending
    BY <1>2 DEF NotPending
  <1>4. CASE pending.trigger = "error"
    <2>1. state = "ERROR" /\ Converging
      BY <1>4 DEF ErrorWhy, Converging, NotPending
    <2>2. CASE FinishIdle
      BY <1>3, <2>1, <2>2 DEF FinishIdle, Raise, manager
    <2>3. CASE ~FinishIdle
      BY <2>1, <2>3, StateMoves, ConvergingStays
      DEF ProgressToPerception, ProgressKeep, ProgressHeard, ProgressThought, Acted, MayProgress
    <2>4. QED
      BY <2>2, <2>3
  <1>5. CASE Converges /\ pending.trigger # "error"
    <2>1. PICK e \in Endured :
             Converge(e) \/ ConvergeToShutdown(e) \/ LifecycleErrorConverging(e)
      BY <1>5 DEF Converges
    <2>2. pending \in Pending
      BY DEF Shape, ManagerShape
    <2>3. CASE \E cause : Raise(cause)
      BY <1>2, <1>5, <2>3 DEF Raise, manager
    <2>4. CASE Converge(e) /\ ~\E cause : Raise(cause)
      <3>1. flow.at = "converge" /\ flow.why = "error"
        BY <1>2, <2>4 DEF Converge, NotPending
      <3>2. state = "ERROR"
        BY <3>1 DEF ErrorWhy
      <3>3. QED
        BY <2>4, <3>2 DEF Converge
    <2>5. CASE ConvergeToShutdown(e) /\ ~\E cause : Raise(cause)
      BY <1>2, <2>2, <2>5 DEF ConvergeToShutdown, Pending
    <2>6. CASE LifecycleErrorConverging(e) /\ ~\E cause : Raise(cause)
      BY <2>6 DEF LifecycleErrorConverging
    <2>7. QED
      BY <2>1, <2>3, <2>4, <2>5, <2>6
  <1>6. CASE FinishStop \/ FinishIdle \/ Begins
    <2>1. pending' = pending /\ state' = state
      BY <1>3, <1>6, Begun DEF FinishStop, FinishIdle, Raise, manager
    <2>2. QED
      BY <1>2, <2>1 DEF ErrorWhy
  <1>7. QED
    BY <1>1, <1>2, <1>4, <1>5, <1>6, TriggerStays

\* The handling of a fact marks the record of its worker, and leaves the conversation,
\* the state and the convergence alone.
LEMMA FactHandled ==
    ASSUME Shape, HandleFact
    PROVE  LET q == The(Entry.cid)
           IN /\ q \in inflight /\ ~Private(q) /\ StateOf(q.phase) = state /\ ~q.fact
              /\ inflight' = Update(q, [q EXCEPT !.fact = TRUE])
              /\ \A r \in inflight' :
                    \/ r \in inflight
                    \/ /\ r = [q EXCEPT !.fact = TRUE] /\ r.phase = q.phase /\ r.kind = q.kind
                       /\ r.task = q.task /\ r.cancel = q.cancel /\ r.cid = q.cid /\ r.fact
                       /\ (Private(r) <=> Private(q)) /\ (Active(r) <=> Active(q))
              /\ UNCHANGED <<state, pending, engine>> /\ flow.at = "receive"
              /\ session'.id = session.id /\ session'.gen = session.gen
              /\ session'.conv = session.conv /\ session'.blocked = session.blocked
              /\ session'.route = session.route
  <1> DEFINE q == The(Entry.cid)
  <1>1. Has(Entry.cid) /\ StateOf(q.phase) = state /\ ~q.fact
    BY Admitted DEF HandleFact, Receive, Entry
  <1>2. q \in inflight
    BY <1>1, Found
  <1>3. ~Private(q)
    BY <1>1 DEF Shape, ManagerShape, States, StateOf, Private
  <1>4. inflight' = Update(q, [q EXCEPT !.fact = TRUE]) /\ UNCHANGED <<state, pending, engine>>
        /\ flow.at = "receive"
    BY DEF HandleFact, Receive, world
  <1>5. LET new == [q EXCEPT !.fact = TRUE]
        IN /\ new.phase = q.phase /\ new.kind = q.kind /\ new.task = q.task
           /\ new.cancel = q.cancel /\ new.cid = q.cid /\ new.fact
    BY <1>2 DEF Shape, TasksShape, InFlight
  <1>6. \E x, y : session' \in {session, [session EXCEPT !.results = x],
                                [session EXCEPT !.resp = y], [session EXCEPT !.done = y]}
    BY DEF HandleFact
  <1>7. /\ session'.id = session.id /\ session'.gen = session.gen
        /\ session'.conv = session.conv /\ session'.blocked = session.blocked
        /\ session'.route = session.route
    BY <1>6 DEF Shape, ManagerShape, Context
  <1> HIDE DEF q
  <1>8. QED
    BY <1>1, <1>2, <1>3, <1>4, <1>5, <1>7 DEF Update, Private, Active, q

\* The records of the next state that are neither there now nor changed: what is
\* launched, by which step, in which state.
LEMMA NewRecords ==
    ASSUME Shape, Numbered, FinishingConverges, ErrorConverges, Entering, Quiet, Dispatch,
           ~HandleFact, ~Converges, NEW r \in inflight', r \notin inflight
    PROVE  /\ r.task = "running" /\ ~r.cancel /\ ~r.fact /\ r.cid > cids
           /\ \/ Begins /\ r.phase = "open" /\ state' = "WAKE" /\ inflight' = {r}
              \/ EnterPerception /\ r.phase = "perception" /\ state' = "PERCEPTION"
              \/ Reopens /\ r.phase = "open" /\ state' = state
              \/ ProgressEnd /\ r.phase = "action_rest" /\ state = "ACTION" /\ state' = "ACTION"
                 /\ inflight' = {r}
              \/ ProgressReplace /\ r.phase = "close" /\ state = "ACTION" /\ state' = "ACTION"
                 /\ inflight' = {r}
              \/ FinishClose /\ r.phase = "close" /\ inflight' = {r}
              \/ EnterThink /\ r.phase = "think" /\ state = "THINK" /\ state' = "THINK"
                 /\ inflight' = {r} /\ session.conv = "ready"
              \/ EnterAction /\ r.phase = "action_primary" /\ state = "ACTION"
                 /\ state' = "ACTION" /\ inflight' = {r}
              \/ FinishAnnounce /\ r.phase = "error_notice" /\ pending.trigger = "error"
                 /\ state' = state /\ inflight' = {r}
  <1> USE DEF Shape
  <1>1. cids + 1 > cids
    BY DEF TasksShape
  <1>2. CASE Begins
    <2>1. inflight = {} /\ state' = "WAKE"
      BY <1>2, Begun DEF Quiet
    <2>2. PICK selected \in SUBSET PerceptionKinds : BeginSession(selected)
      BY <1>2 DEF Begins
    <2>3. PICK opens \in InFlight : /\ Fresh(opens) /\ opens.phase = "open"
                                    /\ inflight' = inflight \cup {opens}
      BY <2>2, FirstRequest
    <2>4. QED
      BY <1>2, <2>1, <2>3 DEF Fresh
  <1>3. CASE EnterPerception
    <2>1. inflight' # inflight /\ inflight = {}
      BY <1>3 DEF EnterPerception, Entering
    <2>2. state' = "PERCEPTION"
      BY <1>3, <2>1 DEF EnterPerception, Entering, tasks
    <2>3. Fresh(r) /\ r.phase = "perception"
      BY <1>3, <2>1, SensesStart DEF tasks
    <2>4. QED
      BY <1>3, <2>2, <2>3 DEF Fresh
  <1>4. CASE Reopens
    <2>1. r = Record(cids + 1, "open", "conversation")
      BY <1>4 DEF Reopens
    <2>2. state' = state
      BY <1>4, StateMoves, <1>2
      DEF Reopens, HandleRejected, HandleClosed, NextConversation, Raise, manager
    <2>3. QED
      BY <1>1, <1>4, <2>1, <2>2 DEF Record
  <1>5. ASSUME NEW phase, NEW kind, inflight' = {Record(cids + 1, phase, kind)}
        PROVE  /\ r.task = "running" /\ ~r.cancel /\ ~r.fact /\ r.cid > cids
               /\ r.phase = phase /\ inflight' = {r}
    <2>1. r = Record(cids + 1, phase, kind)
      BY <1>5
    <2>2. inflight' = {r}
      BY <1>5, <2>1
    <2>3. QED
      BY <1>1, <2>1, <2>2 DEF Record
  <1>6. CASE inflight = {} /\ ProgressEnd /\ inflight' = {Record(cids + 1, "action_rest", "rest")}
    <2>1. state = "ACTION" /\ state' = "ACTION"
      BY <1>6 DEF ProgressEnd, Acted
    <2>2. QED
      BY <1>5, <1>6, <2>1
  <1>7. CASE /\ inflight = {} /\ (ProgressReplace \/ FinishClose)
             /\ inflight' = {Record(cids + 1, "close", "conversation")}
    <2>1. ProgressReplace => state = "ACTION" /\ state' = "ACTION"
      BY DEF ProgressReplace, Acted
    <2>2. QED
      BY <1>5, <1>7, <2>1
  <1>8. CASE inflight = {} /\ EnterThink /\ inflight' = {Record(cids + 1, "think", "reasoner")}
    <2>1. inflight' # inflight /\ state = "THINK"
      BY <1>8 DEF EnterThink, Entering
    <2>2. state' = state /\ session.conv = "ready"
      BY <1>8, <2>1 DEF EnterThink, Raise, tasks
    <2>3. QED
      BY <1>5, <1>8, <2>1, <2>2
  <1>9. CASE /\ inflight = {}
             /\ \/ /\ EnterAction
                   /\ inflight' = {Record(cids + 1, "action_primary", session.resp.kind)}
                \/ FinishAnnounce /\ inflight' = {Record(cids + 1, "error_notice", "speak")}
    <2>1. EnterAction => state = "ACTION" /\ state' = "ACTION"
      BY DEF EnterAction, Entering
    <2>2. FinishAnnounce => pending.trigger = "error" /\ state' = state
      BY DEF FinishAnnounce, MustAnnounce
    <2>3. QED
      BY <1>5, <1>9, <2>1, <2>2
  <1>10. ~(inflight' = inflight) /\ ~Drops
    BY DEF Drops
  <1>11. QED
    BY <1>2, <1>3, <1>4, <1>5, <1>6, <1>7, <1>8, <1>9, <1>10, Launches

\* While a session converges its workers are cancelled, but for the notice of its error.
LEMMA DispatchCancelled ==
    ASSUME Shape, Numbered, RecoveryInv, Triggered, ErrorConverges, ShutsDown, Entering, Quiet,
           ErrorWhy, Cancelled, Dispatch
    PROVE  Cancelled'
  <1> SUFFICES ASSUME Converging', NEW r \in inflight' PROVE Stopping(r)'
    BY DEF Cancelled
  <1>1. Fits /\ FinishingConverges
    BY DEF RecoveryInv
  <1>2. ASSUME NEW e \in Endured, NEW q \in inflight, r = Converged(q, e)
        PROVE  Stopping(r)'
    BY <1>1, <1>2, ConvergedIs DEF Stopping, Active
  <1>3. CASE Converges /\ ~\E cause : Raise(cause)
    <2>1. PICK e \in Endured : inflight' \in {Kept(e), RecordsAfter(e)}
      BY <1>3, ConvergedRecords
    <2>2. \E q \in inflight : r = Converged(q, e)
      BY <2>1 DEF Kept, RecordsAfter
    <2>3. QED
      BY <1>2, <2>2
  <1>4. CASE ~(Converges /\ ~\E cause : Raise(cause))
    <2>1. Converging
      BY <1>4, ConvergingStays DEF Raise, manager, Converging
    <2>2. \A q \in inflight : Stopping(q)
      BY <2>1 DEF Cancelled
    <2>3. state = "ERROR" => state' = "ERROR"
      <3>1. CASE \E cause : Raise(cause)
        BY <3>1 DEF Raise, manager
      <3>2. CASE ~\E cause : Raise(cause)
        <4>1. ~FinishIdle
          BY <3>2, SessionOver DEF Converging
        <4>2. QED
          BY <2>1, <4>1, StateMoves
          DEF Begins, ProgressToPerception, ProgressKeep, ProgressHeard, ProgressThought,
              Acted, MayProgress
      <3>3. QED
        BY <3>1, <3>2
    <2>4. CASE r \in inflight
      BY <2>2, <2>3, <2>4 DEF Stopping, Private, Active
    <2>5. CASE r \notin inflight /\ HandleFact
      BY <2>2, <2>3, <2>5, FactHandled DEF Stopping
    <2>6. CASE r \notin inflight /\ ~HandleFact
      <3>1. ~Converges
        BY <1>4, <2>6 DEF Raise, tasks
      <3>2. ~Begins
        BY <2>1, ConvergingStays
      <3>3. QED
        BY <1>1, <2>1, <2>3, <2>6, <3>1, <3>2, NewRecords
        DEF Stopping, Private, ErrorWhy, EnterPerception, EnterThink, EnterAction, Entering,
            Reopens, ProgressEnd, ProgressReplace, Acted, MayProgress
    <2>7. QED
      BY <2>4, <2>5, <2>6
  <1>5. QED
    BY <1>3, <1>4

\* What converge() begins or goes on with is a convergence.
LEMMA ConvergesOn ==
    ASSUME Shape, RecoveryInv, Triggered, ErrorConverges, ShutsDown, Dispatch, Converges,
           ~\E cause : Raise(cause)
    PROVE  Converging'
  <1>1. CASE Converging
    BY <1>1, ConvergingStays DEF Converges, Converge, ConvergeToShutdown,
       LifecycleErrorConverging, FinishStop, FinishIdle, FinishLast, FinishReady, Finishing
  <1>2. CASE ~Converging
    <2>1. PICK e \in Endured : Converge(e)
      BY <1>2 DEF Converges, ConvergeToShutdown, LifecycleErrorConverging
    <2>2. pending'.trigger = flow.why /\ flow.at = "converge"
      BY <2>1 DEF Converge, NotPending
    <2>3. flow.why # "none"
      BY <2>2 DEF Shape, FlowShape, Triggers
    <2>4. QED
      BY <2>2, <2>3 DEF Converging, NotPending
  <1>3. QED
    BY <1>1, <1>2

\* A step after which the session does not converge: the last one leaves nothing in
\* flight, the others find and leave none converging.
LEMMA NotConverging ==
    ASSUME Shape, RecoveryInv, Triggered, ErrorConverges, ShutsDown, Dispatch, ~Converging'
    PROVE  \/ /\ FinishStop \/ FinishIdle
              /\ inflight' = {} /\ session' = NoContext
           \/ ~Converging /\ ~FinishStop /\ ~FinishIdle /\ (~Converges \/ \E cause : Raise(cause))
  <1>1. CASE FinishStop \/ FinishIdle
    <2>1. Converging
      BY <1>1 DEF FinishStop, FinishIdle, FinishLast, FinishReady, Finishing, FinishingConverges,
                  RecoveryInv
    <2>2. ~\E cause : Raise(cause)
      BY <2>1 DEF Raise, manager, Converging
    <2>3. QED
      BY <1>1, <2>2, SessionOver
  <1>2. CASE ~FinishStop /\ ~FinishIdle
    BY <1>2, ConvergingStays, ConvergesOn
  <1>3. QED
    BY <1>1, <1>2

\* Only converge() cancels.
LEMMA DispatchUncancelled ==
    ASSUME Shape, Numbered, RecoveryInv, Triggered, ErrorConverges, ShutsDown, Entering, Quiet,
           CancelConverging, Dispatch
    PROVE  CancelConverging'
  <1> SUFFICES ASSUME ~Converging', NEW r \in inflight' PROVE ~r.cancel
    BY DEF CancelConverging
  <1>1. CASE r \in inflight
    BY <1>1, NotConverging DEF CancelConverging
  <1>2. CASE r \notin inflight /\ HandleFact
    <2>1. ~Converging
      BY <1>2, FactHandled DEF Converging
    <2>2. QED
      BY <1>2, <2>1, FactHandled DEF CancelConverging
  <1>3. CASE r \notin inflight /\ ~HandleFact
    <2>1. ~Converges
      <3>1. ~\E cause : Raise(cause)
        BY <1>3 DEF Raise, tasks
      <3>2. QED
        BY <1>3, <3>1, NotConverging
    <2>2. QED
      BY <1>3, <2>1, NewRecords DEF RecoveryInv
  <1>4. QED
    BY <1>1, <1>2, <1>3

\* Work in flight is work of the state.
LEMMA DispatchOfState ==
    ASSUME Shape, Numbered, RecoveryInv, Triggered, ErrorConverges, ShutsDown, Entering, Quiet,
           OfState, Dispatch
    PROVE  OfState'
  <1> SUFFICES ASSUME ~Converging', state' # "ERROR", NEW r \in inflight', ~Private(r)
               PROVE  StateOf(r.phase) = state'
    BY DEF OfState, Private
  <1>1. CASE r \in inflight
    <2>1. ~Converging /\ ~FinishIdle
      BY <1>1, NotConverging
    <2>2. state' = state
      <3>1. inflight # {}
        BY <1>1
      <3>2. ~Begins
        BY <3>1, Begun DEF Quiet
      <3>3. QED
        BY <2>1, <3>1, <3>2, StateMoves
        DEF ProgressToPerception, ProgressKeep, ProgressHeard, ProgressThought, Acted,
            MayProgress
    <2>3. QED
      BY <1>1, <2>1, <2>2 DEF OfState
  <1>2. CASE r \notin inflight /\ HandleFact
    BY <1>2, FactHandled
  <1>3. CASE r \notin inflight /\ ~HandleFact
    <2>1. ~Converges
      <3>1. ~\E cause : Raise(cause)
        BY <1>3 DEF Raise, tasks
      <3>2. QED
        BY <1>3, <3>1, NotConverging
    <2>2. ~FinishAnnounce
      BY NotConverging
      DEF FinishAnnounce, FinishReady, Finishing, RecoveryInv, FinishingConverges
    <2>3. QED
      BY <1>3, <2>1, <2>2, NewRecords DEF RecoveryInv, Private, StateOf
  <1>4. QED
    BY <1>1, <1>2, <1>3

\* A lifecycle operation is alone in flight.
LEMMA DispatchAlone ==
    ASSUME Shape, Numbered, RecoveryInv, Triggered, ErrorConverges, ShutsDown, Entering, Quiet,
           Alone, Dispatch
    PROVE  Alone'
  <1> SUFFICES ASSUME NEW r \in inflight', Private(r) PROVE inflight' = {r}
    BY DEF Alone, Private
  <1>0. Fits
    BY DEF RecoveryInv
  <1>1. CASE Converges
    <2>1. CASE \E cause : Raise(cause)
      BY <2>1 DEF Raise, tasks, Alone
    <2>2. CASE ~\E cause : Raise(cause)
      <3>1. PICK e \in Endured : inflight' \in {Kept(e), RecordsAfter(e)}
        BY <1>1, <2>2, ConvergedRecords
      <3>2. inflight' \subseteq RecordsAfter(e)
        BY <3>1 DEF Kept
      <3>3. PICK q \in inflight : r = Converged(q, e)
        BY <3>2 DEF RecordsAfter
      <3>4. inflight = {q}
        BY <1>0, <3>3, ConvergedIs DEF Alone, Private
      <3>5. RecordsAfter(e) = {r}
        BY <3>3, <3>4 DEF RecordsAfter
      <3>6. QED
        BY <3>2, <3>5
    <2>3. QED
      BY <2>1, <2>2
  <1>2. CASE HandleFact
    <2>1. \A q \in inflight : ~Private(q)
      BY <1>2, FactHandled DEF Alone
    <2>2. QED
      BY <1>2, <2>1, FactHandled
  <1>3. CASE Reopens
    <2> DEFINE q == The(Entry.cid)
    <2>1. q \in inflight /\ q.task \in {"rejected", "closed"}
      BY <1>3, Found DEF Reopens, HandleRejected, HandleClosed
    <2>2. Private(q)
      BY <1>0, <2>1 DEF Fits, Private
    <2>3. inflight = {q}
      BY <2>1, <2>2 DEF Alone
    <2> HIDE DEF q
    <2>4. inflight' = {Record(cids + 1, "open", "conversation")}
      BY <1>3, <2>3 DEF Reopens, q
    <2>5. QED
      BY <2>4
  <1>4. CASE r \in inflight /\ ~Converges /\ ~HandleFact /\ ~Reopens
    <2>1. inflight = {r}
      BY <1>4 DEF Alone
    <2>2. ~Begins /\ ~EnterPerception
      BY <2>1, Begun DEF Quiet, Entering, EnterPerception
    <2>3. QED
      BY <1>4, <2>1, <2>2, Launches DEF Drops
  <1>5. CASE r \notin inflight /\ ~Converges /\ ~HandleFact /\ ~Reopens
    BY <1>5, NewRecords DEF RecoveryInv, Private
  <1>6. QED
    BY <1>1, <1>2, <1>3, <1>4, <1>5

\* What progress leaves of the conversation; only the replacement closes it.
ConversationKept ==
    /\ session'.id = session.id /\ session'.gen = session.gen
    /\ session'.conv = session.conv /\ session'.blocked = session.blocked

\* Progress and entries keep it.
LEMMA StepsKeep ==
    ASSUME Shape, Steps
    PROVE  /\ ConversationKept \/ ProgressReplace
           /\ ProgressReplace =>
                 /\ session'.id = session.id /\ session'.gen = session.gen
                 /\ session'.conv = "closing" /\ session'.route = "REPLACE_NEXT"
                 /\ session'.done = "none" /\ session'.aphase = "none"
                 /\ state = "ACTION" /\ state' = "ACTION"
  <1>1. session \in Context
    BY DEF Shape, ManagerShape
  <1>2. AfterAction \in Context
    BY <1>1 DEF AfterAction, Context, Outcomes
  <1>3. /\ AfterAction.id = session.id /\ AfterAction.gen = session.gen
        /\ AfterAction.conv = session.conv /\ AfterAction.blocked = session.blocked
        /\ AfterAction.route = session.route /\ AfterAction.done = "none"
        /\ AfterAction.aphase = "none"
    BY <1>1 DEF AfterAction, Context
  <1>4. ASSUME session' = session PROVE ConversationKept
    BY <1>4 DEF ConversationKept
  <1>5. ASSUME ProgressToPerception \/ EnterThink \/ EnterAction PROVE ConversationKept
    <2>1. session' \in {session, [session EXCEPT !.route = "none"],
                        [session EXCEPT !.results = {}], [session EXCEPT !.aphase = "primary"]}
      BY <1>5 DEF ProgressToPerception, EnterThink, EnterAction, Raise, manager
    <2>2. QED
      BY <1>1, <2>1 DEF Context, ConversationKept
  <1>6. ASSUME ProgressHeard PROVE ConversationKept
    <2>1. session' = session \/ session' = [session EXCEPT !.streak = 0]
          \/ \E w, x, y, z : session' = [session EXCEPT !.resp = w, !.route = x, !.next = y,
                                                        !.streak = z]
      <3> DEFINE silent == <<"listen", "silent">> \in session.results
                 answer == LocalAnswer(IF silent THEN "silent" ELSE "several", session.streak)
      <3>1. CASE session' = [session EXCEPT !.resp = answer, !.route = answer.route,
                                 !.next = answer.next,
                                 !.streak = IF silent THEN @ + 1 ELSE @]
        BY <3>1
      <3>2. QED
        BY <1>6, <3>1 DEF ProgressHeard
    <2>2. QED
      BY <1>1, <2>1 DEF Context, ConversationKept
  <1>7. ASSUME ProgressThought PROVE ConversationKept
    <2>1. session' = session
          \/ \E x, y : session' = [session EXCEPT !.route = x, !.next = y]
      BY <1>7 DEF ProgressThought
    <2>2. QED
      BY <1>1, <2>1 DEF Context, ConversationKept
  <1>8. ASSUME ProgressRest PROVE ConversationKept
    BY <1>3, <1>8 DEF ProgressRest, ConversationKept
  <1>9. ASSUME ProgressEnd PROVE ConversationKept
    <2>1. \E y : session' = [AfterAction EXCEPT !.aphase = "post_action_rest", !.resp = y]
      BY <1>9 DEF ProgressEnd
    <2>2. QED
      BY <1>2, <1>3, <2>1 DEF Context, ConversationKept
  <1>10. ASSUME ProgressKeep PROVE ConversationKept
    <2>1. session' = [AfterAction EXCEPT !.sel = Selected]
      BY <1>10 DEF ProgressKeep
    <2>2. QED
      BY <1>2, <1>3, <2>1 DEF Context, ConversationKept
  <1>11. ASSUME EnterPerception PROVE ConversationKept
    <2>1. session' = [session EXCEPT !.turn = NextTurn, !.results = {}, !.resp = NoResponse,
                                     !.done = "none"]
      BY <1>11 DEF EnterPerception
    <2>2. QED
      BY <1>1, <2>1 DEF Context, ConversationKept
  <1>12. ASSUME ProgressReplace
         PROVE  /\ session'.id = session.id /\ session'.gen = session.gen
                /\ session'.conv = "closing" /\ session'.route = "REPLACE_NEXT"
                /\ session'.done = "none" /\ session'.aphase = "none"
                /\ state = "ACTION" /\ state' = "ACTION"
    <2>1. session' = [AfterAction EXCEPT !.sel = Selected, !.blocked = TRUE, !.conv = "closing"]
          /\ session.route = "REPLACE_NEXT" /\ state = "ACTION" /\ state' = "ACTION"
      BY <1>12 DEF ProgressReplace, Acted
    <2>2. QED
      BY <1>2, <1>3, <2>1 DEF Context
  <1>13. QED
    BY <1>5, <1>6, <1>7, <1>8, <1>9, <1>10, <1>11, <1>12 DEF Steps

\* A conversation that is opened again: the operation that ended was alone in flight.
LEMMA ReopenIs ==
    ASSUME Shape, Numbered, Fits, Alone, Opens, Closes, ErrorConverges, Reopens
    PROVE  /\ \E r : inflight' = {r} /\ r.phase = "open" /\ r.task = "running"
           /\ session'.conv = "opening" /\ session'.gen = session.gen + 1
           /\ session'.id = session.id
           /\ UNCHANGED <<state, pending>> /\ (state = "WAKE" \/ Replacing)
           /\ state' = "WAKE" \/ Replacing'
  <1> DEFINE q == The(Entry.cid)
             new == Record(cids + 1, "open", "conversation")
  <1>1. q \in inflight /\ flow.at = "receive" /\ ~Converging
    BY Found DEF Reopens, HandleRejected, HandleClosed, Receive
  <1>2. new.cid = cids + 1 /\ new.phase = "open" /\ new.task = "running"
    BY DEF Record
  <1>3. new \notin inflight
    BY <1>2 DEF Numbered, Shape, TasksShape
  <1> HIDE DEF new
  <1>4. inflight' = (inflight \ {q}) \cup {new}
    BY DEF Reopens, new
  <1>5. ~\E cause : Raise(cause)
    BY <1>3, <1>4 DEF Raise, tasks
  <1>6. \/ HandleRejected /\ q.task = "rejected" /\ NextConversation(inflight \ {q}, session)
        \/ /\ HandleClosed /\ q.task = "closed"
           /\ NextConversation(inflight \ {q}, [session EXCEPT !.conv = "none"])
    <2>1. inflight' # inflight \ {q}
      BY <1>3, <1>4
    <2>2. CASE HandleRejected
      BY <1>1, <2>2 DEF HandleRejected
    <2>3. CASE HandleClosed
      BY <1>1, <2>1, <2>3 DEF HandleClosed
    <2>4. QED
      BY <2>2, <2>3 DEF Reopens
  <1> HIDE DEF q
  <1>7. state # "ERROR"
    BY <1>1 DEF ErrorConverges
  <1>8. Private(q) /\ (state = "WAKE" \/ Replacing)
    BY <1>1, <1>6, <1>7 DEF Fits, Opens, Closes, Private
  <1>9. inflight' = {new}
    BY <1>1, <1>4, <1>8 DEF Alone
  <1>10. session \in Context /\ [session EXCEPT !.conv = "none"] \in Context
    BY DEF Shape, ManagerShape, Context
  <1>11. PICK ctx \in {session, [session EXCEPT !.conv = "none"]} :
             /\ session' = [ctx EXCEPT !.gen = @ + 1, !.conv = "opening", !.blocked = TRUE]
             /\ UNCHANGED <<state, pending>>
    BY <1>5, <1>6 DEF NextConversation
  <1>12. /\ ctx \in Context /\ ctx.gen = session.gen /\ ctx.id = session.id
         /\ ctx.route = session.route /\ ctx.done = session.done /\ ctx.aphase = session.aphase
    BY <1>10, <1>11 DEF Context
  <1>13. /\ session'.conv = "opening" /\ session'.gen = session.gen + 1
         /\ session'.id = session.id /\ session'.route = session.route
         /\ session'.done = session.done /\ session'.aphase = session.aphase
    BY <1>11, <1>12 DEF Context
  <1>14. state' = "WAKE" \/ Replacing'
    BY <1>8, <1>11, <1>13 DEF Replacing
  <1>15. QED
    BY <1>2, <1>8, <1>9, <1>11, <1>13, <1>14

\* While a lifecycle operation is in flight nothing else of the session changes, but
\* that it is acknowledged or blocked.
LEMMA OperationRuns ==
    ASSUME Shape, Numbered, Fits, Alone, ErrorConverges, Entering, Quiet, Dispatch,
           NEW r \in inflight, r \in inflight', Private(r), ~Reopens
    PROVE  /\ session'.conv = session.conv /\ session'.route = session.route
           /\ session'.done = session.done /\ session'.aphase = session.aphase
           /\ state' = state \/ state' = "ERROR"
  <1>1. inflight = {r}
    BY DEF Alone
  <1>2. ~HandleFact /\ ~Begins
    BY <1>1, FactHandled, Begun DEF Quiet
  <1>3. (FinishStop \/ FinishIdle) => \E cause : Raise(cause)
    BY <1>1, SessionOver
  <1>4. (\E cause : Raise(cause)) => session' = session /\ state' = state
    BY DEF Raise, manager
  <1>5. ~HandleOpened /\ ~Drops
    <2>1. Has(Entry.cid) => The(Entry.cid) = r
      BY <1>1, Found
    <2>2. ~Drops
      BY <2>1 DEF Drops
    <2>3. HandleOpened => Drops
      BY Admitted DEF HandleOpened, Receive, Entry, Drops
    <2>4. QED
      BY <2>2, <2>3
  <1>6. session' \in {session, [session EXCEPT !.blocked = TRUE], [session EXCEPT !.ack = TRUE]}
    BY <1>1, <1>2, <1>3, <1>4, <1>5, SessionMoves
  <1>7. state' = state \/ state' = "ERROR"
    BY <1>1, <1>2, <1>3, <1>4, StateMoves
    DEF ProgressToPerception, ProgressKeep, ProgressHeard, ProgressThought, Acted, MayProgress
  <1>8. QED
    BY <1>6, <1>7 DEF Shape, ManagerShape, Context

\* Where a conversation may be opening.
LEMMA DispatchOpens ==
    ASSUME Shape, Numbered, RecoveryInv, RecoveryInv', Triggered, ErrorConverges, ShutsDown,
           Entering, Quiet, Alone, Opens, Closes, Dispatch
    PROVE  Opens'
  <1> SUFFICES ASSUME NEW r \in inflight', r.phase = "open"
               PROVE  state' = "WAKE" \/ Replacing' \/ state' = "ERROR"
    BY DEF Opens
  <1>0. Fits /\ FinishingConverges
    BY DEF RecoveryInv
  <1>1. ~Converging'
    BY DEF RecoveryInv, ConvergingIsBlocked
  <1>2. CASE Reopens
    BY <1>0, <1>2, ReopenIs
  <1>3. CASE r \in inflight /\ ~Reopens
    <2>1. state = "WAKE" \/ Replacing \/ state = "ERROR"
      BY <1>3 DEF Opens
    <2>2. Private(r)
      BY DEF Private
    <2>3. QED
      BY <1>0, <1>3, <2>1, <2>2, OperationRuns DEF Replacing
  <1>4. CASE r \notin inflight /\ ~Reopens
    <2>1. ~HandleFact
      BY <1>4, FactHandled DEF Private
    <2>2. ~Converges
      <3>1. ~\E cause : Raise(cause)
        BY <1>4 DEF Raise, tasks
      <3>2. QED
        BY <1>1, <3>1, ConvergesOn
    <2>3. QED
      BY <1>0, <1>4, <2>1, <2>2, NewRecords
  <1>5. QED
    BY <1>2, <1>3, <1>4

\* Where a conversation may be closing.
LEMMA DispatchCloses ==
    ASSUME Shape, Numbered, RecoveryInv, Triggered, ErrorConverges, ShutsDown,
           Entering, Quiet, Alone, Opens, Closes, Dispatch
    PROVE  Closes'
  <1> SUFFICES ASSUME NEW r \in inflight', r.phase = "close"
               PROVE  /\ session'.conv = "closing"
                      /\ Converging' \/ Replacing' \/ state' = "ERROR"
    BY DEF Closes
  <1>0. Fits /\ FinishingConverges
    BY DEF RecoveryInv
  <1>1. ~Reopens
    <2>1. Reopens => \E q : inflight' = {q} /\ q.phase = "open"
      BY <1>0, ReopenIs
    <2>2. QED
      BY <2>1
  <1>2. CASE r \in inflight
    <2>1. session.conv = "closing" /\ (Converging \/ Replacing \/ state = "ERROR")
      BY <1>2 DEF Closes
    <2>2. Private(r)
      BY DEF Private
    <2>3. Converging => Converging'
      <3>1. ~((FinishStop \/ FinishIdle) /\ ~\E cause : Raise(cause))
        BY <1>2, SessionOver
      <3>2. QED
        BY <3>1, ConvergingStays DEF Raise, manager, Converging
    <2>4. QED
      BY <1>0, <1>1, <1>2, <2>1, <2>2, <2>3, OperationRuns DEF Replacing
  <1>3. CASE r \notin inflight /\ Converges
    <2>1. ~\E cause : Raise(cause)
      BY <1>3 DEF Raise, tasks
    <2>2. Converging'
      BY <1>3, <2>1, ConvergesOn
    <2>3. PICK e \in Endured : inflight' \in {Kept(e), RecordsAfter(e)}
      BY <1>3, <2>1, ConvergedRecords
    <2>4. PICK q \in inflight : r = Converged(q, e)
      BY <2>3 DEF Kept, RecordsAfter
    <2>5. session.conv = "closing"
      BY <1>0, <2>4, ConvergedIs DEF Closes
    <2>6. session' \in {session, [session EXCEPT !.blocked = TRUE]}
      BY <1>3, <2>1 DEF Converges, Converge, ConvergeToShutdown, LifecycleErrorConverging
    <2>7. session'.conv = "closing"
      BY <2>5, <2>6 DEF Shape, ManagerShape, Context
    <2>8. QED
      BY <2>2, <2>7
  <1>4. CASE r \notin inflight /\ ~Converges
    <2>1. ~HandleFact
      BY <1>4, FactHandled DEF Private
    <2>2. ProgressReplace \/ FinishClose
      BY <1>0, <1>1, <1>4, <2>1, NewRecords
    <2>3. CASE ProgressReplace
      BY <2>3, StepsKeep DEF Steps, Replacing
    <2>4. CASE FinishClose
      <3>1. Converging /\ ~FinishStop /\ ~FinishIdle
        BY <1>0, <2>4 DEF FinishClose, Finishing, FinishingConverges, FinishStop, FinishIdle,
                          FinishLast, FinishReady
      <3>2. session'.conv = "closing"
        BY <2>4 DEF FinishClose, Shape, ManagerShape, Context
      <3>3. QED
        BY <3>1, <3>2, ConvergingStays
    <2>5. QED
      BY <2>2, <2>3, <2>4
  <1>5. QED
    BY <1>2, <1>3, <1>4

\* A session that converges no more, or not yet, changes by one of these.
LEMMA SessionRuns ==
    ASSUME Shape, Numbered, RecoveryInv, Triggered, ErrorConverges, ShutsDown, Entering, Quiet,
           Alone, Opens, Closes, Dispatch, ~Converging'
    PROVE  \/ (FinishStop \/ FinishIdle) /\ inflight' = {} /\ session' = NoContext
           \/ /\ ~Converging
              /\ \/ session' = session /\ ~Begins
                 \/ HandleAck /\ session' = [session EXCEPT !.ack = TRUE]
                 \/ HandleFact
                 \/ HandleOpened /\ session' = Opened
                 \/ Reopens
                 \/ HandleClosed /\ Drops /\ session.route # "REPLACE_NEXT"
                    /\ session' = [session EXCEPT !.conv = "none"]
                 \/ Steps /\ inflight = {}
                 \/ Begins
  <1>1. CASE FinishStop \/ FinishIdle
    BY <1>1, NotConverging
  <1>2. CASE ~FinishStop /\ ~FinishIdle
    <2>1. ~Converging /\ (~Converges \/ \E cause : Raise(cause))
      BY <1>2, NotConverging
    <2>2. ~ConvergeAgain /\ ~FinishClose
      BY <2>1 DEF ConvergeAgain, FinishClose, Finishing, RecoveryInv, FinishingConverges
    <2>3. (\E cause : Raise(cause)) => session' = session
      BY DEF Raise, manager
    <2>4. QED
      BY <1>2, <2>1, <2>2, <2>3, SessionMoves
  <1>3. QED
    BY <1>1, <1>2

\* In PERCEPTION and THINK, and in an action that does not replace it, the conversation
\* is ready.
LEMMA DispatchReady ==
    ASSUME Shape, Numbered, RecoveryInv, Triggered, ErrorConverges, ShutsDown, Entering, Quiet,
           Alone, Opens, Closes, Ready, Dispatch
    PROVE  Ready'
  <1> SUFFICES ASSUME Going', ~Converging', Speaking'
               PROVE  session'.conv = "ready" /\ ~session'.blocked
    BY DEF Ready
  <1>0. Fits
    BY DEF RecoveryInv
  <1>1. Going
    BY GoesOn DEF ProgressStop, Raise, Going
  <1>2. ~FinishStop /\ ~FinishIdle /\ ~Begins
    <2>1. ~\E cause : Raise(cause)
      BY DEF Raise, Going
    <2>2. ~FinishStop /\ ~FinishIdle
      BY <2>1, SessionOver DEF Going, Speaking
    <2>3. ~Begins
      BY Begun DEF Speaking
    <2>4. QED
      BY <2>2, <2>3
  <1>3. ~Converging
    BY <1>2, SessionRuns
  <1>4. Speaking => session.conv = "ready" /\ ~session.blocked
    BY <1>1, <1>3 DEF Ready
  <1>5. CASE session' = session
    <2>1. CASE state' = state
      BY <1>4, <1>5, <2>1 DEF Speaking
    <2>2. CASE ProgressToPerception
      BY <1>5, <2>2 DEF ProgressToPerception, MayPerceive, Replaced
    <2>3. CASE ProgressKeep \/ ProgressHeard \/ ProgressThought
      BY <1>4, <1>5, <2>3
      DEF ProgressKeep, Acted, ProgressHeard, Heard, ProgressThought, Speaking
    <2>4. QED
      BY <1>2, <2>1, <2>2, <2>3, StateMoves DEF Speaking
  <1>6. CASE HandleAck /\ session' = [session EXCEPT !.ack = TRUE]
    BY <1>6, Admitted DEF HandleAck, Receive, Entry, Speaking
  <1>7. CASE HandleFact
    BY <1>4, <1>7, FactHandled DEF Speaking
  <1>8. CASE HandleOpened /\ session' = Opened
    BY <1>8 DEF Opened, Shape, ManagerShape, Context
  <1>9. CASE Reopens
    BY <1>0, <1>9, ReopenIs DEF Speaking, Replacing
  <1>10. CASE HandleClosed /\ Drops /\ session.route # "REPLACE_NEXT"
    <2> DEFINE q == The(Entry.cid)
    <2>1. q \in inflight /\ q.task = "closed" /\ flow.at = "receive"
      BY <1>10, Found DEF HandleClosed, Drops, Receive
    <2>2. Replacing \/ state = "ERROR"
      BY <1>0, <1>3, <2>1 DEF Fits, Closes
    <2>3. state # "ERROR"
      BY <1>3, <2>1 DEF ErrorConverges
    <2>4. QED
      BY <1>10, <2>2, <2>3 DEF Replacing
  <1>11. CASE Steps /\ ~ProgressReplace
    <2>1. session'.conv = session.conv /\ session'.blocked = session.blocked
      BY <1>11, StepsKeep DEF ConversationKept
    <2>2. CASE ProgressToPerception
      BY <2>1, <2>2 DEF ProgressToPerception, MayPerceive, Replaced
    <2>3. CASE ~ProgressToPerception
      <3>1. Speaking
        <4>1. CASE ProgressHeard \/ ProgressThought \/ ProgressKeep
          BY <4>1 DEF ProgressHeard, Heard, ProgressThought, ProgressKeep, Acted, Speaking
        <4>2. CASE ProgressEnd
          BY <4>2 DEF ProgressEnd, Acted, Speaking
        <4>3. CASE ProgressRest
          <5>1. session'.route = session.route /\ state' = state
            BY <4>3 DEF ProgressRest, AfterAction, Shape, ManagerShape, Context
          <5>2. QED
            BY <5>1 DEF Speaking
        <4>4. CASE EnterPerception \/ EnterThink
          BY <4>4 DEF EnterPerception, EnterThink, Entering, Speaking
        <4>5. CASE EnterAction
          <5>1. session'.route = session.route /\ state' = state
            BY <4>5 DEF EnterAction, Shape, ManagerShape, Context
          <5>2. QED
            BY <5>1 DEF Speaking
        <4>6. QED
          BY <1>11, <2>3, <4>1, <4>2, <4>3, <4>4, <4>5 DEF Steps
      <3>2. QED
        BY <1>4, <2>1, <3>1
    <2>4. QED
      BY <2>2, <2>3
  <1>12. CASE ProgressReplace
    BY <1>12, StepsKeep DEF Steps, Speaking
  <1>13. QED
    BY <1>2, <1>5, <1>6, <1>7, <1>8, <1>9, <1>10, <1>11, <1>12, SessionRuns

\* A thought is asked for in a ready conversation, and it stays so.
LEMMA DispatchThinkReady ==
    ASSUME Shape, Numbered, RecoveryInv, Triggered, ErrorConverges, ShutsDown, Entering, Quiet,
           Alone, Opens, Closes, ThinkReady, Dispatch
    PROVE  ThinkReady'
  <1> SUFFICES ASSUME ~Converging', NEW r \in inflight', r.phase = "think"
               PROVE  session'.conv = "ready"
    BY DEF ThinkReady
  <1>0. Fits /\ FinishingConverges
    BY DEF RecoveryInv
  <1>1. ~Converging
    BY SessionRuns
  <1>2. CASE HandleFact
    <2>1. \E q \in inflight : q.phase = "think"
      BY <1>2, FactHandled
    <2>2. QED
      BY <1>1, <1>2, <2>1, FactHandled DEF ThinkReady
  <1>3. CASE r \in inflight /\ ~HandleFact
    <2>1. session.conv = "ready"
      BY <1>1, <1>3 DEF ThinkReady
    <2>2. \A q \in inflight : ~Private(q)
      BY <1>3 DEF Alone, Private
    <2>3. ~Reopens
      BY <1>0, <1>3, ReopenIs
    <2>4. ~HandleClosed
      <3>1. HandleClosed => Has(Entry.cid)
        BY Admitted DEF HandleClosed, Receive, Entry
      <3>2. HandleClosed => The(Entry.cid) \in inflight /\ The(Entry.cid).task = "closed"
        BY <3>1, Found DEF HandleClosed
      <3>3. QED
        BY <1>0, <2>2, <3>2 DEF Fits, Private
    <2>5. ~Begins
      BY <1>3, Begun DEF Quiet
    <2>6. session' \in {session, [session EXCEPT !.ack = TRUE], Opened}
      BY <1>3, <2>3, <2>4, <2>5, SessionRuns
    <2>7. QED
      BY <2>1, <2>6 DEF Shape, ManagerShape, Context, Opened
  <1>4. CASE r \notin inflight /\ ~HandleFact
    <2>1. ~Converges
      <3>1. ~\E cause : Raise(cause)
        BY <1>4 DEF Raise, tasks
      <3>2. QED
        BY <3>1, ConvergesOn
    <2>2. EnterThink /\ session.conv = "ready"
      BY <1>0, <1>4, <2>1, NewRecords
    <2>3. ~ProgressReplace
      BY <2>2 DEF EnterThink, ProgressReplace, Acted, MayProgress, Progress
    <2>4. QED
      BY <2>2, <2>3, StepsKeep DEF Steps, ConversationKept
  <1>5. QED
    BY <1>2, <1>3, <1>4

\* The backend's side changes in the dispatch loop only where the session converges.
LEMMA EngineStays ==
    ASSUME Shape, RecoveryInv, Triggered, ErrorConverges, ShutsDown, Dispatch,
           ~Converging', ~Converging
    PROVE  engine' = engine
  <1>1. world' = world => engine' = engine
    BY DEF world
  <1>2. rm.keys = {}
    BY DEF RecoveryInv, Awaited
  <1>3. ASSUME NEW cause, Raise(cause) PROVE engine' = engine
    BY <1>1, <1>3 DEF Raise
  <1>4. CASE \/ IgnoreItem \/ HandleWake \/ HandleMessage \/ HandleUnknownMessage
             \/ HandleInterrupt \/ HandleAck \/ HandleFact \/ HandleDone
    BY <1>1, <1>3, <1>4
    DEF IgnoreItem, HandleWake, HandleMessage, HandleUnknownMessage, HandleInterrupt,
        HandleAck, HandleFact, HandleDone
  <1>5. CASE \/ HandleOpened \/ HandleRejected \/ HandleClosed \/ HandleLifecycleFailed
             \/ HandleRecovered \/ HandlePlannedRecovery \/ HandleError \/ HandleShutdown
             \/ ShutdownCleanupFails
    BY <1>1, <1>2, <1>3, <1>5
    DEF HandleOpened, HandleRejected, HandleClosed, HandleLifecycleFailed, HandleRecovered,
        HandlePlannedRecovery, HandleError, HandleShutdown, ShutdownCleanupFails,
        NextConversation
  <1>6. CASE \/ ProgressConverging \/ ProgressWaits \/ ProgressToPerception \/ ProgressHeard
             \/ ProgressThought \/ ProgressRest \/ ProgressEnd \/ ProgressReplace
             \/ ProgressKeep \/ ProgressStop
    BY <1>1, <1>3, <1>6
    DEF ProgressConverging, ProgressWaits, ProgressToPerception, ProgressHeard,
        ProgressThought, ProgressRest, ProgressEnd, ProgressReplace, ProgressKeep, ProgressStop
  <1>7. CASE EnterPerception \/ EnterThink \/ EnterAction \/ ConvergeAgain \/ LifecycleError
    BY <1>1, <1>3, <1>7
    DEF EnterPerception, EnterThink, EnterAction, ConvergeAgain, LifecycleError
  <1>8. CASE Converges
    BY <1>3, <1>8, ConvergesOn
  <1>9. CASE \/ FinishLater \/ FinishClose \/ FinishRecycle \/ FinishAnnounce \/ FinishStop
             \/ FinishIdle
    BY <1>1, <1>3, <1>9
    DEF FinishLater, FinishClose, FinishRecycle, FinishAnnounce, FinishStop, FinishIdle
  <1>10. QED
    BY <1>4, <1>5, <1>6, <1>7, <1>8, <1>9 DEF Dispatch, Converges

\* The backend holds the conversation the session works with.
LEMMA DispatchEngine ==
    ASSUME Shape, Numbered, RecoveryInv, Triggered, ErrorConverges, ShutsDown, Entering, Quiet,
           Alone, Opens, Closes, EngineHolds, Dispatch
    PROVE  EngineHolds'
  <1> SUFFICES ASSUME ~Converging', engine'.alive, Holding'
               PROVE  engine'.conv = Ours'
    BY DEF EngineHolds
  <1>0. Fits /\ FinishingConverges
    BY DEF RecoveryInv
  <1>1. ~(inflight' = {} /\ session' = NoContext)
    BY DEF Holding, NoContext
  <1>2. ~Converging
    BY <1>1, SessionRuns
  <1>3. engine' = engine
    BY <1>2, EngineStays
  <1>4. SUFFICES ASSUME TRUE
                 PROVE  /\ Holding
                        /\ session'.id = session.id /\ session'.gen = session.gen
    BY <1>2, <1>3 DEF EngineHolds, Ours
  <1>5. ~Begins
    <2>1. Begins => inflight' = {} \/ \E r : inflight' = {r} /\ r.task = "running"
      <3> HAVE Begins
      <3>1. inflight = {}
        BY Begun DEF Quiet
      <3>2. PICK selected \in SUBSET PerceptionKinds : BeginSession(selected)
        BY DEF Begins
      <3>3. PICK opens \in InFlight : Fresh(opens) /\ inflight' = inflight \cup {opens}
        BY <3>2, FirstRequest
      <3>4. QED
        BY <3>1, <3>3 DEF Fresh
    <2>2. QED
      BY <2>1, Begun DEF Holding
  <1>6. ~Reopens
    <2>1. Reopens => /\ session'.conv = "opening"
                     /\ \E r : inflight' = {r} /\ r.task = "running"
      BY <1>0, ReopenIs
    <2>2. QED
      BY <2>1 DEF Holding
  <1>7. ASSUME NEW r \in inflight', r.task = "ready"
        PROVE  \E q \in inflight : q.task = "ready"
    <2>1. CASE HandleFact
      BY <1>7, <2>1, FactHandled
    <2>2. CASE r \notin inflight /\ ~HandleFact
      <3>1. ~Converges
        <4>1. ~\E cause : Raise(cause)
          BY <2>2 DEF Raise, tasks
        <4>2. QED
          BY <4>1, ConvergesOn
      <3>2. QED
        BY <1>0, <1>7, <2>2, <3>1, NewRecords
    <2>3. QED
      BY <1>7, <2>1, <2>2
  <1>8. session \in Context
    BY DEF Shape, ManagerShape
  <1>9. CASE session' \in {session, [session EXCEPT !.ack = TRUE]}
    <2>1. session'.id = session.id /\ session'.gen = session.gen /\ session'.conv = session.conv
      BY <1>8, <1>9 DEF Context
    <2>2. QED
      BY <1>7, <2>1 DEF Holding
  <1>10. CASE HandleFact
    BY <1>7, <1>10, FactHandled DEF Holding
  <1>11. CASE HandleOpened /\ session' = Opened
    <2>1. session'.id = session.id /\ session'.gen = session.gen
      BY <1>8, <1>11 DEF Opened, Context
    <2>2. Has(Entry.cid)
      BY <1>11, Admitted DEF HandleOpened, Receive, Entry
    <2>3. The(Entry.cid) \in inflight /\ The(Entry.cid).task = "ready"
      BY <1>11, <2>2, Found DEF HandleOpened
    <2>4. QED
      BY <2>1, <2>3 DEF Holding
  <1>12. CASE session' = [session EXCEPT !.conv = "none"]
    <2>1. session'.id = session.id /\ session'.gen = session.gen /\ session'.conv = "none"
      BY <1>8, <1>12 DEF Context
    <2>2. QED
      BY <1>7, <2>1 DEF Holding
  <1>13. CASE Steps
    <2>1. session'.id = session.id /\ session'.gen = session.gen
          /\ session'.conv \in {session.conv, "closing"}
      BY <1>13, StepsKeep DEF ConversationKept
    <2>2. QED
      BY <1>7, <2>1 DEF Holding
  <1>14. QED
    BY <1>1, <1>5, <1>6, <1>9, <1>10, <1>11, <1>12, <1>13, SessionRuns

\* What a task that goes on or ends does to the backend: it opens or closes its
\* conversation, breaks it, or leaves the conversation as it was.
LEMMA WorkEngine ==
    ASSUME Shape, Work
    PROVE  \E r \in inflight, task \in TaskStates :
              /\ WorkOf(r, task) /\ Active(r)
              /\ task = "ready" => engine'.conv = Ours
              /\ task = "closed" => r.phase = "close"
              /\ engine'.alive => /\ engine.alive
                                  /\ task \in {"ready", "closed"} \/ engine'.conv = engine.conv
  <1> DEFINE Holds(task) ==
                engine'.alive => /\ engine.alive
                                 /\ task \in {"ready", "closed"} \/ engine'.conv = engine.conv
             Good(r, task) == /\ WorkOf(r, task) /\ Active(r) /\ task \in TaskStates
                              /\ task = "ready" => engine'.conv = Ours
                              /\ task = "closed" => r.phase = "close"
                              /\ Holds(task)
  <1>1. PICK r \in inflight :
              \/ PublishHeard(r) \/ PublishRead(r) \/ PublishThought(r) \/ PublishDone(r)
              \/ ReturnWorker(r) \/ OpenEnds(r) \/ CloseEnds(r)
              \/ \E keys \in {{}, Key(r)} : FaultWorker(r, keys)
    BY DEF Work
  <1>2. engine \in Adapter
    BY DEF Shape, WorldShape
  <1>3. ~Broken.alive
    BY <1>2 DEF Broken, Adapter
  <1>4. LET new == [engine EXCEPT !.conv = Ours]
        IN new.conv = Ours /\ new.alive = engine.alive
    BY <1>2 DEF Adapter
  <1>5. LET new == [engine EXCEPT !.conv = NoConversation] IN new.alive = engine.alive
    BY <1>2 DEF Adapter
  <1>6. LET new == [engine EXCEPT !.recycle = TRUE]
        IN new.conv = engine.conv /\ new.alive = engine.alive
    BY <1>2 DEF Adapter
  <1>7. ASSUME NEW task \in TaskStates, inflight' = Update(r, [r EXCEPT !.task = task]), Keep,
               UNCHANGED rm
        PROVE  WorkOf(r, task)
    BY <1>7 DEF WorkOf, Keep
  <1>8. ASSUME NEW value, Publish(r, value),
               engine' = engine \/ engine' = [engine EXCEPT !.recycle = TRUE]
        PROVE  Good(r, "published")
    BY <1>6, <1>7, <1>8 DEF Publish, Active, TaskStates
  <1>9. CASE PublishHeard(r) \/ PublishRead(r) \/ PublishThought(r) \/ PublishDone(r)
    BY <1>8, <1>9 DEF PublishHeard, PublishRead, PublishThought, PublishDone
  <1>10. CASE ReturnWorker(r)
    <2>1. Good(r, "returned")
      BY <1>7, <1>10 DEF ReturnWorker, world, Active, TaskStates
    <2>2. QED
      BY <2>1
  <1>11. ASSUME NEW how \in TaskStates, NEW eng, EndLifecycle(r, how, eng)
         PROVE  WorkOf(r, how) /\ Active(r) /\ engine' = eng
    BY <1>7, <1>11 DEF EndLifecycle, Active
  <1>12. CASE OpenEnds(r)
    <2>1. \/ EndLifecycle(r, "ready", [engine EXCEPT !.conv = Ours])
          \/ EndLifecycle(r, "rejected", engine)
          \/ \E eng \in {engine, Broken} : EndLifecycle(r, "raised", eng)
      BY <1>12 DEF OpenEnds
    <2>2. {"ready", "rejected", "raised"} \subseteq TaskStates
      BY DEF TaskStates
    <2>3. Good(r, "ready") \/ Good(r, "rejected") \/ Good(r, "raised")
      BY <1>3, <1>4, <1>11, <2>1, <2>2
    <2>4. QED
      BY <2>3
  <1>13. CASE CloseEnds(r)
    <2>1. \/ EndLifecycle(r, "closed", [engine EXCEPT !.conv = NoConversation])
          \/ EndLifecycle(r, "raised", Broken)
          \/ EndLifecycle(r, "fault", Broken)
      BY <1>13 DEF CloseEnds
    <2>2. {"closed", "raised", "fault"} \subseteq TaskStates /\ r.phase = "close"
      BY <1>13 DEF CloseEnds, TaskStates
    <2>3. Good(r, "closed") \/ Good(r, "raised") \/ Good(r, "fault")
      BY <1>3, <1>5, <1>11, <2>1, <2>2
    <2>4. QED
      BY <2>3
  <1>14. CASE \E keys \in {{}, Key(r)} : FaultWorker(r, keys)
    <2>1. PICK keys \in {{}, Key(r)} : FaultWorker(r, keys)
      BY <1>14
    <2> DEFINE task == IF keys = {} THEN "raised" ELSE "fault"
    <2>2. WorkOf(r, task) /\ Active(r) /\ task \in {"raised", "fault"} /\ task \in TaskStates
      BY <1>7, <2>1 DEF FaultWorker, Active, TaskStates
    <2>3. engine' = engine \/ engine' = Broken
      BY <2>1 DEF FaultWorker, Broken
    <2> HIDE DEF task
    <2>4. Good(r, task)
      BY <1>3, <2>2, <2>3
    <2>5. QED
      BY <2>4
  <1>15. QED
    BY <1>1, <1>9, <1>10, <1>12, <1>13, <1>14

\* The invariant of the conversation.
ConversationInv == /\ ErrorWhy /\ Cancelled /\ CancelConverging /\ OfState /\ Alone
                   /\ Opens /\ Closes /\ Ready /\ ThinkReady /\ EngineHolds

\* Steps outside the dispatch loop keep it.
LEMMA OutsideConversation ==
    ASSUME Shape, RecoveryInv, ConversationInv, Work \/ Recover \/ AckElapses \/ World
    PROVE  ConversationInv'
  <1>1. UNCHANGED <<state, session, pending, flow>>
    BY OutsideKeeps
  <1> DEFINE Same(s, q) == /\ s.phase = q.phase /\ s.kind = q.kind /\ s.cancel = q.cancel
                           /\ s = q \/ Active(q)
  <1>2. \/ inflight' = inflight
        \/ \E r \in inflight : \E s : Same(s, r) /\ inflight' = Update(r, s)
    <2>1. CASE Work
      <3>1. PICK r \in inflight, task \in TaskStates : WorkOf(r, task) /\ Active(r)
        BY <2>1, WorkEngine
      <3>2. Same([r EXCEPT !.task = task], r)
        BY <3>1, WorkedIs
      <3>3. QED
        BY <3>1, <3>2 DEF WorkOf
    <2>2. QED
      BY <2>1, OutsideKeeps
  <1>3. \A s \in inflight' : \E q \in inflight : Same(s, q)
    BY <1>2 DEF Update
  <1>4. (ErrorWhy /\ Ready)'
    BY <1>1 DEF ConversationInv, ErrorWhy, Ready, Going, Converging, Speaking
  <1>5. (Cancelled /\ CancelConverging)'
    BY <1>1, <1>3
    DEF ConversationInv, Cancelled, CancelConverging, Stopping, Converging, Private, Active
  <1>6. (OfState /\ Opens /\ Closes /\ ThinkReady)'
    BY <1>1, <1>3
    DEF ConversationInv, OfState, Opens, Closes, ThinkReady, Replacing, Converging, Private
  <1>7. Alone'
    BY <1>2 DEF ConversationInv, Alone, Private, Update
  <1>8. EngineHolds'
    <2> SUFFICES ASSUME ~Converging, engine'.alive, Holding' PROVE engine'.conv = Ours
      BY <1>1 DEF EngineHolds, Ours, Converging
    <2>1. CASE Work
      <3>1. PICK r \in inflight, task \in TaskStates :
               /\ WorkOf(r, task)
               /\ task = "ready" => engine'.conv = Ours
               /\ task = "closed" => r.phase = "close"
               /\ engine'.alive => /\ engine.alive
                                   /\ task \in {"ready", "closed"} \/ engine'.conv = engine.conv
        BY <2>1, WorkEngine
      <3> DEFINE s == [r EXCEPT !.task = task]
      <3>2. inflight' = Update(r, s) /\ s.task = task
        BY <3>1, WorkedIs DEF WorkOf
      <3> HIDE DEF s
      <3>3. task # "closed"
        <4>1. ASSUME task = "closed" PROVE session.conv = "closing" /\ inflight' = {s}
          BY <3>1, <3>2, <4>1 DEF ConversationInv, Closes, Alone, Private, Update
        <4>2. QED
          BY <1>1, <3>2, <4>1 DEF Holding
      <3>4. CASE task # "ready"
        <4>1. Holding
          BY <1>1, <3>2, <3>4 DEF Holding, Update
        <4>2. QED
          BY <3>1, <3>3, <3>4, <4>1 DEF ConversationInv, EngineHolds
      <3>5. QED
        BY <3>1, <3>4
    <2>2. CASE inflight' = inflight /\ engine' = engine
      BY <1>1, <2>2 DEF Holding, ConversationInv, EngineHolds
    <2>3. ~Recover
      BY DEF Recover, RecoveryEnds, RecoveryInv, Awaited
    <2>4. CASE AckElapses \/ World
      <3>1. ~Broken.alive
        BY DEF Broken, Shape, WorldShape, Adapter
      <3>2. ~EngineDies
        BY <3>1 DEF EngineDies
      <3>3. inflight' = inflight /\ engine' = engine
        BY <2>4, <3>2 DEF AckElapses, World, Signalled, Input, Ingest
      <3>4. QED
        BY <2>2, <3>3
    <2>5. QED
      BY <2>1, <2>3, <2>4
  <1>9. QED
    BY <1>4, <1>5, <1>6, <1>7, <1>8 DEF ConversationInv

\* In every run of the manager the handshake with the backend is kept.
THEOREM ConversationHolds == Spec => []ConversationInv
  <1>1. Init => ConversationInv
    BY DEF Init, ConversationInv, ErrorWhy, Cancelled, CancelConverging, OfState, Alone, Opens,
           Closes, Ready, ThinkReady, EngineHolds, Holding, Speaking, Converging, NoContext,
           NotPending
  <1>2. /\ Shape /\ Numbered /\ RecoveryInv /\ RecoveryInv' /\ ReportsInv /\ SessionInv
        /\ ConversationInv /\ [Next]_vars
        => ConversationInv'
    <2> SUFFICES ASSUME Shape, Numbered, RecoveryInv, RecoveryInv', ReportsInv, SessionInv,
                        ConversationInv, [Next]_vars
                 PROVE  ConversationInv'
      OBVIOUS
    <2>1. CASE UNCHANGED vars
      <3>1. UNCHANGED <<state, session, pending, flow, inflight, engine>>
        BY <2>1 DEF vars, manager, tasks, world
      <3>2. (ErrorWhy /\ Cancelled /\ CancelConverging /\ OfState /\ Alone)'
        BY <3>1 DEF ConversationInv, ErrorWhy, Cancelled, CancelConverging, OfState, Alone,
                    Stopping, Converging, Private, Active
      <3>3. (Opens /\ Closes /\ Ready /\ ThinkReady /\ EngineHolds)'
        BY <3>1 DEF ConversationInv, Opens, Closes, Ready, ThinkReady, EngineHolds, Replacing,
                    Converging, Going, Speaking, Holding, Ours
      <3>4. QED
        BY <3>2, <3>3 DEF ConversationInv
    <2>2. CASE Dispatch
      <3>1. /\ Triggered /\ ErrorConverges /\ ShutsDown /\ Entering /\ Quiet
            /\ ErrorWhy /\ Cancelled /\ CancelConverging /\ OfState /\ Alone
            /\ Opens /\ Closes /\ Ready /\ ThinkReady /\ EngineHolds
        BY DEF ReportsInv, SessionInv, ConversationInv
      <3>2. (ErrorWhy /\ Cancelled /\ CancelConverging /\ OfState /\ Alone)'
        BY <2>2, <3>1, DispatchErrorWhy, DispatchCancelled, DispatchUncancelled,
           DispatchOfState, DispatchAlone
      <3>3. (Opens /\ Closes /\ Ready /\ ThinkReady /\ EngineHolds)'
        BY <2>2, <3>1, DispatchOpens, DispatchCloses, DispatchReady, DispatchThinkReady,
           DispatchEngine
      <3>4. QED
        BY <3>2, <3>3 DEF ConversationInv
    <2>3. CASE Work \/ Recover \/ AckElapses \/ World
      BY <2>3, OutsideConversation
    <2>4. QED
      BY <2>1, <2>2, <2>3 DEF Next
  <1>3. QED
    BY <1>1, <1>2, ShapeHolds, RecoveryHolds, ReportsHold, SessionHolds, PTL DEF Spec

\* While the reasoner works, the backend holds the conversation of this session and
\* generation, unless the backend died.
THEOREM ReasonerConverses == Spec => []ReasonerHasConversation
  <1>1. ConversationInv => ReasonerHasConversation
    <2> SUFFICES ASSUME ConversationInv, NEW r \in inflight, r.phase = "think", Active(r),
                        engine.alive
                 PROVE  engine.conv = Ours
      BY DEF ReasonerHasConversation
    <2>1. ~Converging
      BY DEF ConversationInv, Cancelled, Stopping, Private
    <2>2. session.conv = "ready"
      BY <2>1 DEF ConversationInv, ThinkReady
    <2>3. QED
      BY <2>1, <2>2 DEF ConversationInv, EngineHolds, Holding
  <1>2. QED
    BY <1>1, ConversationHolds, PTL

=============================================================================
