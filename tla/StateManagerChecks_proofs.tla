---------------------- MODULE StateManagerChecks_proofs ----------------------
(***************************************************************************)
(* More about StateManager for every scenario, from the invariants of its  *)
(* session and its conversation: its own checks never end the dispatch     *)
(* task, the microphone has one owner, the state keeps its types, what a   *)
(* turn answers is sound, no message of the buffer is forgotten, and the   *)
(* manager implements the lifecycle SessionLifecycle promises.             *)
(***************************************************************************)
EXTENDS StateManager_proofs

-----------------------------------------------------------------------------
(* The inbox.  What a worker says comes in order: its fact before the      *)
(* notice that it is over, the error before the notice that it failed; and *)
(* a fault that names its backend is in flight until its error is handled. *)

Before(i, r) == \A j \in DOMAIN inbox : inbox[j] = Completed(r) => i < j
NoticesMatch ==
    \A i \in DOMAIN inbox : inbox[i].type \in {"done", "lifecycle"} =>
        \A r \in inflight : r.cid = inbox[i].cid => inbox[i] = Completed(r)
NoNotice == \A r \in inflight : Active(r) => \A i \in DOMAIN inbox : inbox[i] # Completed(r)
FactSilent ==
    \A r \in inflight : r.task \in {"running", "raised", "fault"} =>
        ~r.fact /\ \A i \in DOMAIN inbox : ~(inbox[i].type = "fact" /\ inbox[i].cid = r.cid)
FactFirst ==
    \A r \in inflight : r.task \in {"published", "returned"} /\ ~r.fact /\ ~r.cancel /\ Going =>
        \E i \in DOMAIN inbox : inbox[i].type = "fact" /\ inbox[i].cid = r.cid /\ Before(i, r)
ErrorFirst ==
    \A r \in inflight : ~Private(r) /\ r.task \in {"raised", "fault"} =>
        state = "ERROR" \/ \E i \in DOMAIN inbox : inbox[i].type = "error" /\ Before(i, r)
Declared(ks, i) ==
    \E r \in inflight : r.task = "fault" /\ ~Private(r) /\ Key(r) = ks /\ Before(i, r)
FaultKeys ==
    faultKeys # {} => \/ shutting \/ flow.at = "dead"
                      \/ /\ flow.at = "converge" /\ flow.why = "error" /\ ~Converging
                         /\ Declared(faultKeys, 0)
ErrorKeys ==
    \A i \in DOMAIN inbox : inbox[i].type = "error" /\ inbox[i].keys # {} =>
        Declared(inbox[i].keys, i) /\ (shutting \/ state = "ERROR" \/ ~Converging)

\* An inbox of which the first k items are taken and to which some are added.
Carried(k) ==
    /\ \A i \in DOMAIN inbox : i > k => i - k \in DOMAIN inbox' /\ inbox'[i - k] = inbox[i]
    /\ \A j \in DOMAIN inbox' : \/ j + k \in DOMAIN inbox /\ inbox'[j] = inbox[j + k]
                                \/ j + k > Len(inbox)
Passed == IF flow.at = "receive" THEN 1 ELSE 0
Aborts == Converges /\ ~\E cause : Raise(cause)
New(x) == \/ x.type \notin {"fact", "done", "lifecycle", "error", "message"}
          \/ /\ FinishIdle /\ x.type = "message"
             /\ \E m \in Present(ReadClosed) : x = MessageArrived(m)
          \/ Aborts /\ \E r \in Targets : Active(r) /\ x = Completed(r)
Added(k) == \A j \in DOMAIN inbox' : j + k > Len(inbox) => New(inbox'[j])

\* The inbox with an item taken, with items added, or both.
LEMMA CarriedIs ==
    ASSUME Shape
    PROVE  /\ inbox' = inbox => Carried(0) /\ Added(0)
           /\ inbox # <<>> /\ inbox' = Tail(inbox) => Carried(1) /\ Added(1)
           /\ \A t \in Seq(Items) : inbox' = inbox \o t =>
                 /\ Carried(0)
                 /\ \A j \in DOMAIN inbox' : j > Len(inbox) => \E i \in DOMAIN t : inbox'[j] = t[i]
           /\ \A x \in Items : inbox # <<>> /\ inbox' = Append(Tail(inbox), x) =>
                 Carried(1) /\ (New(x) => Added(1))
  <1>1. inbox \in Seq(Items) /\ Len(inbox) \in Nat /\ DOMAIN inbox = 1 .. Len(inbox)
    BY DEF Shape, InboxShape
  <1>2. ASSUME inbox' = inbox PROVE Carried(0) /\ Added(0)
    BY <1>1, <1>2 DEF Carried, Added
  <1>3. ASSUME inbox # <<>>
        PROVE  /\ Tail(inbox) \in Seq(Items) /\ Len(Tail(inbox)) = Len(inbox) - 1
               /\ DOMAIN Tail(inbox) = 1 .. (Len(inbox) - 1)
               /\ \A j \in 1 .. (Len(inbox) - 1) : Tail(inbox)[j] = inbox[j + 1]
    BY <1>1, <1>3
  <1>4. ASSUME inbox # <<>>, inbox' = Tail(inbox) PROVE Carried(1) /\ Added(1)
    BY <1>1, <1>3, <1>4 DEF Carried, Added
  <1>5. ASSUME NEW t \in Seq(Items), inbox' = inbox \o t
        PROVE  /\ Carried(0)
               /\ \A j \in DOMAIN inbox' : j > Len(inbox) => \E i \in DOMAIN t : inbox'[j] = t[i]
    <2>1. \A j \in DOMAIN inbox' : j \in Nat
      BY <1>1, <1>5
    <2> DEFINE joined == inbox \o t
    <2>a. inbox \in Seq(Items) /\ t \in Seq(Items)
      BY <1>1, <1>5
    <2>0. /\ \A i \in DOMAIN inbox : i \in DOMAIN joined /\ joined[i] = inbox[i]
          /\ \A i \in DOMAIN joined : \/ i \in DOMAIN inbox /\ joined[i] = inbox[i]
                                      \/ \E j \in DOMAIN t : /\ joined[i] = t[j]
                                                             /\ i = j + Len(inbox)
      BY ONLY <2>a, Joined
    <2> HIDE DEF joined
    <2>2. /\ \A i \in DOMAIN inbox : i \in DOMAIN inbox' /\ inbox'[i] = inbox[i]
          /\ \A i \in DOMAIN inbox' : \/ i \in DOMAIN inbox /\ inbox'[i] = inbox[i]
                                      \/ \E j \in DOMAIN t : /\ inbox'[i] = t[j]
                                                             /\ i = j + Len(inbox)
      <3>1. inbox' = joined
        BY <1>5 DEF joined
      <3>2. QED
        BY <2>0, <3>1
    <2>3. \A j \in DOMAIN t : j \in Nat /\ j > 0
      BY <1>5
    <2>4. Carried(0)
      BY <1>1, <2>1, <2>2, <2>3 DEF Carried
    <2>5. QED
      BY <1>1, <2>1, <2>2, <2>4
  <1>6. ASSUME NEW x \in Items, inbox # <<>>, inbox' = Append(Tail(inbox), x)
        PROVE  Carried(1) /\ (New(x) => Added(1))
    <2>1. /\ DOMAIN inbox' = 1 .. Len(inbox)
          /\ \A j \in 1 .. (Len(inbox) - 1) : inbox'[j] = inbox[j + 1]
          /\ inbox'[Len(inbox)] = x
      BY <1>1, <1>3, <1>6
    <2>2. QED
      BY <1>1, <2>1 DEF Carried, Added
  <1>7. QED
    BY <1>2, <1>4, <1>5, <1>6

\* Every step of the dispatch loop takes the first item, if it waits for one, and adds
\* at most the notices of the tasks that it aborts.
LEMMA DispatchCarries ==
    ASSUME Shape, Numbered, Dispatch
    PROVE  /\ Carried(Passed) /\ Added(Passed) /\ Passed \in {0, 1}
           /\ Passed = 1 => inbox # <<>>
  <1> DEFINE Good == /\ Carried(Passed) /\ Added(Passed) /\ Passed \in {0, 1}
                     /\ Passed = 1 => inbox # <<>>
  <1>1. ASSUME flow.at = "receive", inbox # <<>>, inbox' = Tail(inbox) PROVE Good
    BY <1>1, CarriedIs DEF Passed
  <1>2. ASSUME flow.at # "receive", inbox' = inbox PROVE Good
    BY <1>2, CarriedIs DEF Passed
  <1> HIDE DEF Good
  <1>0. SUFFICES ASSUME TRUE PROVE Good
    BY DEF Good
  <1>3. CASE \/ IgnoreItem \/ HandleWake \/ HandleMessage \/ HandleUnknownMessage
             \/ HandleInterrupt \/ HandleAck \/ HandleFact \/ HandleDone
    BY <1>1, <1>3 DEF IgnoreItem, HandleWake, HandleMessage, HandleUnknownMessage,
       HandleInterrupt, HandleAck, HandleFact, HandleDone, Receive
  <1>4. CASE \/ HandleOpened \/ HandleRejected \/ HandleClosed \/ HandleLifecycleFailed
             \/ HandleRecovered \/ HandlePlannedRecovery \/ HandleError \/ ShutdownCleanupFails
    BY <1>1, <1>4 DEF HandleOpened, HandleRejected, HandleClosed, HandleLifecycleFailed,
       HandleRecovered, HandlePlannedRecovery, HandleError, ShutdownCleanupFails, Receive
  <1>5. CASE HandleShutdown
    <2> DEFINE report == [type |-> IF pending.planned THEN "planned" ELSE "recovered",
                          waiter |-> rm.ticket, how |-> "cancelled"]
    <2>1. report \in Items
      BY DEF Items, Recoveries, Shape, WorldShape, Resources
    <2>2. report.type \in {"planned", "recovered"}
      OBVIOUS
    <2>3. flow.at = "receive" /\ inbox # <<>>
      BY <1>5 DEF HandleShutdown
    <2>4. inbox' = Tail(inbox) \/ inbox' = Append(Tail(inbox), report)
      BY <1>5 DEF HandleShutdown
    <2> HIDE DEF report
    <2>5. New(report)
      BY <2>2 DEF New
    <2>6. QED
      BY <1>1, <2>1, <2>3, <2>4, <2>5, CarriedIs DEF Good, Passed
  <1>6. CASE \/ ProgressConverging \/ ProgressWaits \/ ProgressToPerception \/ ProgressHeard
             \/ ProgressThought \/ ProgressRest \/ ProgressEnd \/ ProgressReplace
             \/ ProgressKeep \/ ProgressStop
    BY <1>2, <1>6 DEF ProgressConverging, ProgressWaits, ProgressToPerception, ProgressHeard,
       ProgressThought, ProgressRest, ProgressEnd, ProgressReplace, ProgressKeep,
       ProgressStop, Acted, MayProgress, Progress
  <1>7. CASE EnterPerception \/ EnterThink \/ EnterAction \/ ConvergeAgain \/ LifecycleError
    BY <1>2, <1>7 DEF EnterPerception, EnterThink, EnterAction, ConvergeAgain, LifecycleError
  <1>8. CASE FinishLater \/ FinishClose \/ FinishRecycle \/ FinishAnnounce \/ FinishStop
    BY <1>2, <1>8 DEF FinishLater, FinishClose, FinishRecycle, FinishAnnounce, FinishStop,
       FinishLast, FinishReady, Finishing
  <1>9. ASSUME flow.at # "receive", NEW t \in Seq(Items), inbox' = inbox \o t,
               \A i \in DOMAIN t : New(t[i])
        PROVE  Good
    <2>1. Carried(0)
      BY <1>9, CarriedIs
    <2>2. \A j \in DOMAIN inbox' : j > Len(inbox) => \E i \in DOMAIN t : inbox'[j] = t[i]
      BY <1>9, CarriedIs
    <2>3. \A j \in DOMAIN inbox' : j \in Nat
      BY <1>9 DEF Shape, InboxShape
    <2>4. Added(0)
      BY <1>9, <2>2, <2>3 DEF Added
    <2>5. QED
      BY <1>9, <2>1, <2>4 DEF Good, Passed
  <1>10. CASE FinishIdle
    <2> DEFINE list == Signals(Present(ReadClosed))
    <2>1. /\ list \in Seq(Items)
          /\ \A i \in DOMAIN list : \E m \in Present(ReadClosed) : list[i] = MessageArrived(m)
      BY SignalsAre DEF Items
    <2>2. \A i \in DOMAIN list : list[i].type = "message"
      BY <2>1 DEF MessageArrived
    <2>3. flow.at # "receive" /\ (inbox' = inbox \/ inbox' = inbox \o list)
      BY <1>10 DEF FinishIdle, FinishLast, FinishReady, Finishing
    <2> HIDE DEF list
    <2>4. \A i \in DOMAIN list : New(list[i])
      BY <1>10, <2>1, <2>2 DEF New
    <2>5. QED
      BY <1>2, <1>9, <2>1, <2>3, <2>4
  <1>11. CASE Converges
    <2> DEFINE R == {r \in Targets : Active(r)}
               list == Completions(R)
    <2>1. flow.at # "receive"
      BY <1>11 DEF Converges, Converge, ConvergeToShutdown, LifecycleErrorConverging
    <2>2. inbox' = inbox \/ (inbox' = inbox \o list /\ ~\E cause : Raise(cause))
      <3>1. PICK e \in Endured :
               Converge(e) \/ ConvergeToShutdown(e) \/ LifecycleErrorConverging(e)
        BY <1>11 DEF Converges
      <3>2. NewCompletions(e) = list
        BY DEF NewCompletions
      <3> HIDE DEF list
      <3>3. \A cause : Raise(cause) => flow'.at = "dead"
        BY DEF Raise
      <3>4. \A method, why : Call(method, why) => flow'.at = method
        BY DEF Call
      <3>5. flow.at \in Methods /\ Shape => (Return => flow'.at \in {"receive", "progress"})
        BY Returns DEF Shape, Methods
      <3>6. flow.at \in Methods
        BY <3>1 DEF Converge, ConvergeToShutdown, LifecycleErrorConverging, Methods
      <3>7. inbox' = inbox \/ (inbox' = inbox \o list /\ flow'.at # "dead")
        BY <3>1, <3>2, <3>4, <3>5, <3>6
        DEF Converge, ConvergeToShutdown, LifecycleErrorConverging
      <3>8. QED
        BY <3>3, <3>7
    <2>3. R \subseteq inflight
      BY DEF Targets
    <2> HIDE DEF R
    <2>4. list \in Seq(Items)
      <3>1. list \in Seq(Notices) /\ Notices \subseteq Items
        BY <2>3, CompletionsAre DEF Items
      <3>2. QED
        BY <3>1
    <2>5. \A i \in DOMAIN list : \E r \in R : list[i] = Completed(r)
      BY <2>3, CompletionsAre
    <2> HIDE DEF list
    <2>6. ASSUME ~\E cause : Raise(cause) PROVE \A i \in DOMAIN list : New(list[i])
      BY <1>11, <2>5, <2>6 DEF New, Aborts, R
    <2>7. QED
      BY <1>2, <1>9, <2>1, <2>2, <2>4, <2>6
  <1>12. QED
    BY <1>3, <1>4, <1>5, <1>6, <1>7, <1>8, <1>10, <1>11 DEF Dispatch, Converges

\* The record of the next state that goes on from one there is.
Descends(s, q) ==
    /\ s.cid = q.cid /\ s.phase = q.phase /\ s.kind = q.kind
    /\ \/ s = q /\ ~Aborts
       \/ /\ HandleFact /\ q = The(Entry.cid) /\ s.fact /\ s.task = q.task
          /\ s.cancel = q.cancel
       \/ /\ Aborts /\ s.cancel /\ ~Active(s) /\ s.fact = q.fact
          /\ ~Active(q) => s.task = q.task
          /\ s.task \in {"raised", "fault"} /\ ~Private(s) => s.task = q.task
          /\ s.task = "rejected" => s.task = q.task
Leaves(q) == flow.at = "receive" /\ Entry.type \in {"done", "lifecycle"} /\ Entry.cid = q.cid

\* What converge() leaves of the records.
LEMMA AbortedRecords ==
    ASSUME Shape, Fits, Aborts
    PROVE  /\ \A s \in inflight' : \E q \in inflight : Descends(s, q)
           /\ \A q \in inflight : Private(q) \/ \E s \in inflight' : Descends(s, q)
  <1>1. PICK e \in Endured : inflight' \in {Kept(e), RecordsAfter(e)}
    BY ConvergedRecords DEF Aborts
  <1>2. ASSUME NEW q \in inflight PROVE Descends(Converged(q, e), q)
    <2> DEFINE s == Converged(q, e)
    <2>1. /\ s.cid = q.cid /\ s.phase = q.phase /\ s.kind = q.kind /\ s.fact = q.fact
          /\ s.cancel /\ ~Active(s) /\ (~Active(q) => s.task = q.task)
          /\ s.task \in {"raised", "fault"} /\ ~Private(s) => s.task = q.task
          /\ s.task = "rejected" => s.task = q.task
      BY ConvergedIs
    <2> HIDE DEF s
    <2>2. Descends(s, q)
      BY <2>1 DEF Descends
    <2>3. QED
      BY <2>2 DEF s
  <1>3. inflight' \subseteq RecordsAfter(e)
    BY <1>1 DEF Kept
  <1>4. ASSUME NEW q \in inflight, ~Private(q) PROVE Converged(q, e) \in inflight'
    <2>1. Converged(q, e).phase = q.phase
      BY ConvergedIs
    <2>2. ~Private(Converged(q, e))
      BY <1>4, <2>1 DEF Private
    <2>3. QED
      BY <1>1, <2>2 DEF Kept, RecordsAfter
  <1>5. QED
    BY <1>2, <1>3, <1>4 DEF RecordsAfter

\* Every record is new or goes on from one there was.
Anew(s) == s.task = "running" /\ ~s.fact /\ ~s.cancel /\ s.cid > cids

\* A record in flight after a dispatch is anew, or descends from one before it.
LEMMA Origins ==
    ASSUME Shape, Numbered, RecoveryInv, ErrorConverges, Entering, Quiet, Dispatch,
           NEW s \in inflight'
    PROVE  Anew(s) \/ \E q \in inflight : Descends(s, q)
  <1>0. Fits /\ FinishingConverges
    BY DEF RecoveryInv
  <1>1. CASE Aborts
    BY <1>0, <1>1, AbortedRecords
  <1>2. CASE s \in inflight /\ ~Aborts
    BY <1>2 DEF Descends
  <1>3. CASE s \notin inflight /\ ~Aborts
    <2>1. ~Converges
      BY <1>3 DEF Aborts, Raise, tasks
    <2>2. CASE HandleFact
      <3> DEFINE q == The(Entry.cid)
      <3>1. /\ q \in inflight /\ s.phase = q.phase /\ s.kind = q.kind /\ s.task = q.task
            /\ s.cancel = q.cancel /\ s.cid = q.cid /\ s.fact
        BY <1>3, <2>2, FactHandled
      <3> HIDE DEF q
      <3>2. QED
        BY <2>2, <3>1 DEF Descends, q
    <2>3. CASE ~HandleFact
      BY <1>0, <1>3, <2>1, <2>3, NewRecords DEF Anew
    <2>4. QED
      BY <2>2, <2>3
  <1>4. QED
    BY <1>1, <1>2, <1>3

\* Every record goes on, but the one whose notice is taken and, at a convergence, those
\* of lifecycle operations.
LEMMA Fates ==
    ASSUME Shape, Numbered, RecoveryInv, ErrorConverges, Entering, Quiet, Dispatch,
           NEW q \in inflight
    PROVE  \/ \E s \in inflight' : Descends(s, q)
           \/ Leaves(q)
           \/ Aborts /\ Private(q)
  <1>0. Fits
    BY DEF RecoveryInv
  <1>1. CASE Aborts
    BY <1>0, <1>1, AbortedRecords
  <1>2. CASE q \in inflight' /\ ~Aborts
    BY <1>2 DEF Descends
  <1>3. CASE q \notin inflight' /\ ~Aborts
    <2>1. ~Converges
      BY <1>3 DEF Aborts, Raise, tasks
    <2>2. CASE HandleFact
      <3> DEFINE p == The(Entry.cid)
                 s == [p EXCEPT !.fact = TRUE]
      <3>1. p \in inflight /\ inflight' = Update(p, s)
        BY <2>2, FactHandled
      <3>2. /\ s.phase = p.phase /\ s.kind = p.kind /\ s.task = p.task
            /\ s.cancel = p.cancel /\ s.cid = p.cid /\ s.fact
        BY <3>1 DEF Shape, TasksShape, InFlight
      <3> HIDE DEF s
      <3>3. q = p /\ s \in inflight'
        BY <1>3, <3>1 DEF Update
      <3> HIDE DEF p
      <3>4. QED
        BY <2>2, <3>2, <3>3 DEF Descends, p
    <2>3. CASE Drops \/ Reopens
      <3>1. Has(Entry.cid) /\ q = The(Entry.cid)
        BY <1>3, <2>3 DEF Drops, Reopens
      <3>2. q.cid = Entry.cid
        BY <3>1, Found
      <3>3. flow.at = "receive" /\ Entry.type \in {"done", "lifecycle"}
        BY <2>3 DEF Drops, Reopens, HandleDone, HandleOpened, HandleClosed, HandleRejected,
                    HandleLifecycleFailed, Receive, Entry
      <3>4. QED
        BY <3>2, <3>3 DEF Leaves
    <2>4. CASE Begins
      <3>1. PICK selected \in SUBSET PerceptionKinds : BeginSession(selected)
        BY <2>4 DEF Begins
      <3>2. inflight \subseteq inflight'
        BY <3>1 DEF BeginSession
      <3>3. QED
        BY <1>3, <3>2
    <2>5. CASE EnterPerception
      BY <1>3, <2>5 DEF EnterPerception, Entering
    <2>6. QED
      BY <1>3, <2>1, <2>2, <2>3, <2>4, <2>5, Launches
  <1>4. QED
    BY <1>1, <1>2, <1>3

\* An item that comes before the notice of a record still does.
LEMMA CarriedBefore ==
    ASSUME Shape, Shape', NEW k \in {0, 1}, Carried(k), NEW i \in DOMAIN inbox, i > k,
           NEW r, NEW s, Completed(s) = Completed(r), Before(i, r)
    PROVE  /\ i - k \in DOMAIN inbox' /\ inbox'[i - k] = inbox[i]
           /\ Before(i - k, s)'
  <1>1. Len(inbox) \in Nat /\ DOMAIN inbox = 1 .. Len(inbox)
    BY DEF Shape, InboxShape
  <1>2. i - k \in DOMAIN inbox' /\ inbox'[i - k] = inbox[i]
    BY DEF Carried
  <1>3. \A j \in DOMAIN inbox' : j \in Nat
    BY DEF Shape, InboxShape
  <1>4. ASSUME NEW j \in DOMAIN inbox', inbox'[j] = Completed(r) PROVE i - k < j
    BY <1>1, <1>3, <1>4 DEF Carried, Before
  <1>5. Completed(s)' = Completed(r)
    BY DEF Completed, Private
  <1>6. QED
    BY <1>2, <1>4, <1>5 DEF Before

\* What the earlier theorems say of every state.
Known == Shape /\ Numbered /\ RecoveryInv /\ ReportsInv /\ SessionInv /\ ConversationInv

\* In every run of the manager all of it holds.
THEOREM KnownHolds == Spec => []Known
  <1>1. Shape /\ Numbered /\ RecoveryInv /\ ReportsInv /\ SessionInv /\ ConversationInv => Known
    BY DEF Known
  <1>2. QED
    BY <1>1, ShapeHolds, RecoveryHolds, ReportsHold, SessionHolds, ConversationHolds, PTL

\* A step of the dispatch loop, by what becomes of the items and the records.
LEMMA DispatchStep ==
    ASSUME Known, Dispatch
    PROVE  /\ Carried(Passed) /\ Passed \in {0, 1} /\ (Passed = 1 => inbox # <<>>)
           /\ \A j \in DOMAIN inbox' : (\E i \in DOMAIN inbox : inbox'[j] = inbox[i])
                                       \/ New(inbox'[j])
           /\ \A s \in inflight' : Anew(s) \/ \E q \in inflight : Descends(s, q)
           /\ \A q \in inflight : \/ \E s \in inflight' : Descends(s, q)
                                  \/ Leaves(q)
                                  \/ Aborts /\ Private(q)
           /\ \A s, q : Descends(s, q) => Completed(s) = Completed(q)
  <1>1. Shape /\ Numbered /\ RecoveryInv /\ ErrorConverges /\ Entering /\ Quiet
    BY DEF Known, ReportsInv, SessionInv
  <1>2. Carried(Passed) /\ Added(Passed) /\ Passed \in {0, 1} /\ (Passed = 1 => inbox # <<>>)
    BY <1>1, DispatchCarries
  <1>3. \A j \in DOMAIN inbox' : (\E i \in DOMAIN inbox : inbox'[j] = inbox[i]) \/ New(inbox'[j])
    BY <1>2 DEF Carried, Added
  <1>4. \A s, q : Descends(s, q) => Completed(s) = Completed(q)
    BY DEF Descends, Completed, Private
  <1>5. QED
    BY <1>1, <1>2, <1>3, <1>4, Origins, Fates

\* A notice is of the record's number and kind.
LEMMA DispatchMatches ==
    ASSUME Known, NoticesMatch, Dispatch
    PROVE  NoticesMatch'
  <1> SUFFICES ASSUME NEW j \in DOMAIN inbox', inbox'[j].type \in {"done", "lifecycle"},
                      NEW s \in inflight', s.cid = inbox'[j].cid
               PROVE  inbox'[j] = Completed(s)
    BY DEF NoticesMatch, Completed, Private
  <1>1. Numbered
    BY DEF Known
  <1>2. inbox'[j].cid \in 1 .. cids
    BY <1>1, DispatchStep DEF New, Targets, Completed, Numbered
  <1>3. PICK q \in inflight : Descends(s, q)
    <2>1. ~Anew(s)
      BY <1>2 DEF Anew, Known, Shape, TasksShape
    <2>2. QED
      BY <2>1, DispatchStep
  <1>4. q.cid = inbox'[j].cid /\ Completed(s) = Completed(q)
    BY <1>3, DispatchStep DEF Descends
  <1>5. CASE \E i \in DOMAIN inbox : inbox'[j] = inbox[i]
    BY <1>4, <1>5 DEF NoticesMatch
  <1>6. CASE New(inbox'[j])
    <2>1. PICK r \in inflight : inbox'[j] = Completed(r)
      BY <1>6 DEF New, Targets
    <2>2. r.cid = q.cid
      BY <1>4, <2>1 DEF Completed
    <2>3. QED
      BY <1>1, <1>4, <2>1, <2>2 DEF Numbered
  <1>7. QED
    BY <1>5, <1>6, DispatchStep

\* A task that works has given no notice.
LEMMA DispatchUnnoticed ==
    ASSUME Known, NoNotice, Dispatch
    PROVE  NoNotice'
  <1> SUFFICES ASSUME NEW s \in inflight', Active(s), NEW j \in DOMAIN inbox',
                      inbox'[j] = Completed(s)
               PROVE  FALSE
    BY DEF NoNotice, Active, Completed, Private
  <1>1. Numbered
    BY DEF Known
  <1>2. inbox'[j].type \in {"done", "lifecycle"} /\ inbox'[j].cid = s.cid
    BY DEF Completed
  <1>3. inbox'[j].cid \in 1 .. cids
    BY <1>1, <1>2, DispatchStep DEF New, Targets, Completed, Numbered
  <1>4. PICK q \in inflight : Descends(s, q)
    <2>1. ~Anew(s)
      BY <1>2, <1>3 DEF Anew, Known, Shape, TasksShape
    <2>2. QED
      BY <2>1, DispatchStep
  <1>5. ~Aborts /\ Active(q) /\ inbox'[j] = Completed(q)
    <2>1. ~Aborts /\ Active(q)
      <3>1. HandleFact => ~Aborts
        BY DEF HandleFact, Receive, Aborts, Converges, Converge, ConvergeToShutdown,
               LifecycleErrorConverging
      <3>2. QED
        BY <1>4, <3>1 DEF Descends, Active
    <2>2. QED
      BY <1>4, <2>1, DispatchStep
  <1>6. \E i \in DOMAIN inbox : inbox'[j] = inbox[i]
    BY <1>2, <1>5, DispatchStep DEF New
  <1>7. QED
    BY <1>5, <1>6 DEF NoNotice

\* A task that works, or failed, has published nothing.
LEMMA DispatchSilent ==
    ASSUME Known, FactSilent, Dispatch
    PROVE  FactSilent'
  <1> SUFFICES ASSUME NEW s \in inflight', s.task \in {"running", "raised", "fault"}
               PROVE  /\ ~s.fact
                      /\ \A j \in DOMAIN inbox' : ~(inbox'[j].type = "fact" /\ inbox'[j].cid = s.cid)
    BY DEF FactSilent
  <1>1. Numbered /\ Fits
    BY DEF Known, RecoveryInv
  <1>2. \A j \in DOMAIN inbox' : inbox'[j].type = "fact" => \E i \in DOMAIN inbox : inbox'[j] = inbox[i]
    <2>1. \A r : Completed(r).type # "fact"
      BY DEF Completed
    <2>2. QED
      BY <2>1, DispatchStep DEF New
  <1>3. CASE Anew(s)
    <2>1. \A i \in DOMAIN inbox : inbox[i].type = "fact" => inbox[i].cid # s.cid
      BY <1>1, <1>3 DEF Anew, Numbered, Known, Shape, TasksShape
    <2>2. QED
      BY <1>2, <1>3, <2>1 DEF Anew
  <1>4. CASE ~Anew(s)
    <2>1. PICK q \in inflight : Descends(s, q)
      BY <1>4, DispatchStep
    <2>2. CASE q.task \in {"running", "raised", "fault"}
      <3>1. /\ ~q.fact
            /\ \A i \in DOMAIN inbox : ~(inbox[i].type = "fact" /\ inbox[i].cid = s.cid)
        BY <2>1, <2>2 DEF FactSilent, Descends
      <3>2. ~s.fact
        <4>1. ~(HandleFact /\ q = The(Entry.cid))
          <5>1. HandleFact => Entry.type = "fact" /\ inbox # <<>> /\ The(Entry.cid).cid = Entry.cid
            <6>1. HandleFact => Has(Entry.cid)
              BY Admitted DEF HandleFact, Receive, Entry
            <6>2. QED
              BY <6>1, Found DEF HandleFact, Receive, Entry
          <5>2. inbox # <<>> => Entry = inbox[1] /\ 1 \in DOMAIN inbox
            BY DEF Entry, Known, Shape, InboxShape
          <5>3. QED
            BY <2>1, <3>1, <5>1, <5>2 DEF Descends
        <4>2. QED
          BY <2>1, <3>1, <4>1 DEF Descends
      <3>3. QED
        BY <1>2, <3>1, <3>2
    <2>3. CASE q.task \notin {"running", "raised", "fault"}
      <3>1. Aborts /\ Active(q) /\ Private(q)
        <4>1. q.task # s.task
          BY <2>3
        <4>2. QED
          BY <2>1, <4>1 DEF Descends, Active, Private
      <3>2. q.task = "running"
        BY <1>1, <3>1 DEF Fits, Active
      <3>3. QED
        BY <2>3, <3>2
    <2>4. QED
      BY <2>2, <2>3
  <1>5. QED
    BY <1>3, <1>4

\* An item of the inbox that the step does not take keeps its place before a notice.
LEMMA StaysBefore ==
    ASSUME Known, Known', Dispatch, NEW k \in {0, 1}, k = Passed,
           NEW i \in DOMAIN inbox, i > k, NEW s, NEW q,
           Completed(s) = Completed(q), Before(i, q)
    PROVE  i - k \in DOMAIN inbox' /\ inbox'[i - k] = inbox[i] /\ Before(i - k, s)'
  <1>1. Shape /\ Shape'
    BY DEF Known
  <1>2. Carried(k)
    BY DispatchStep DEF Carried
  <1>3. QED
    BY <1>1, <1>2, CarriedBefore

\* The first item, when the loop takes it.
LEMMA FirstTaken ==
    ASSUME Known, Dispatch, NEW k \in {0, 1}, k = Passed, NEW i \in DOMAIN inbox, ~(i > k)
    PROVE  flow.at = "receive" /\ inbox[i] = Entry /\ i = 1 /\ k = 1
  <1>1. inbox \in Seq(Items) /\ i \in Nat /\ i > 0
    BY DEF Known, Shape, InboxShape
  <1>2. QED
    BY <1>1 DEF Passed, Entry

\* ERROR is left with nothing in flight.
LEMMA ErrorStays ==
    ASSUME Known, Dispatch, state = "ERROR"
    PROVE  state' = "ERROR" \/ inflight' = {}
  <1>1. Shape /\ ErrorConverges
    BY DEF Known, ReportsInv
  <1>2. (\E cause : Raise(cause)) => state' = "ERROR"
    BY DEF Raise, manager
  <1>3. FinishIdle => state' = "ERROR" \/ inflight' = {}
    BY <1>2, SessionOver
  <1>4. QED
    BY <1>1, <1>3, StateMoves DEF Begins

\* Who takes a fact or an error.
LEMMA TakenBy ==
    ASSUME Dispatch, flow.at = "receive"
    PROVE  /\ Entry.type = "fact" => HandleFact \/ (IgnoreItem /\ Ignored(Entry))
           /\ Entry.type = "error" => HandleError /\ state' = "ERROR"
           /\ Entry.type \in {"fact", "error"} => ~Aborts
  <1>1. Entry.type = "error" => ~Ignored(Entry)
    BY SMTT(60) DEF Ignored
  <1>2. CASE \/ IgnoreItem \/ HandleWake \/ HandleMessage \/ HandleUnknownMessage
             \/ HandleInterrupt \/ HandleAck \/ HandleFact \/ HandleDone
             \/ HandleOpened \/ HandleRejected \/ HandleClosed \/ HandleLifecycleFailed
             \/ HandleRecovered \/ HandlePlannedRecovery \/ HandleShutdown
             \/ ShutdownCleanupFails
    BY <1>1, <1>2 DEF IgnoreItem, HandleWake, HandleMessage, HandleUnknownMessage,
       HandleInterrupt, HandleAck, HandleFact, HandleDone, HandleOpened, HandleRejected,
       HandleClosed, HandleLifecycleFailed, HandleRecovered, HandlePlannedRecovery,
       HandleShutdown, ShutdownCleanupFails, Receive, Entry, Aborts, Converges, Converge,
       ConvergeToShutdown, LifecycleErrorConverging
  <1>3. CASE HandleError
    <2>1. state' = "ERROR"
      BY <1>3 DEF HandleError
    <2>2. QED
      BY <1>3, <2>1 DEF HandleError, Receive, Entry, Aborts, Converges, Converge,
                        ConvergeToShutdown, LifecycleErrorConverging
  <1>4. QED
    BY <1>2, <1>3 DEF Dispatch, ProgressConverging, ProgressWaits, ProgressToPerception,
       ProgressHeard, ProgressThought, ProgressRest, ProgressEnd, ProgressReplace,
       ProgressKeep, ProgressStop, Acted, MayProgress, Progress, EnterPerception, EnterThink,
       EnterAction, Converge, ConvergeToShutdown, LifecycleErrorConverging, ConvergeAgain,
       LifecycleError, FinishLater, FinishClose, FinishRecycle, FinishAnnounce, FinishStop,
       FinishIdle, FinishLast, FinishReady, Finishing

\* The loop goes on only where it went on.
LEMMA WentOn ==
    ASSUME Dispatch, Going'
    PROVE  Going /\ ~\E cause : Raise(cause)
  BY GoesOn DEF ProgressStop, Raise, Going

\* The fact of a worker comes before its notice, unless it is handled or cancelled.
LEMMA DispatchFactFirst ==
    ASSUME Known, Known', FactFirst, Dispatch
    PROVE  FactFirst'
  <1> SUFFICES ASSUME NEW s \in inflight', s.task \in {"published", "returned"}, ~s.fact,
                      ~s.cancel, Going'
               PROVE  \E i \in DOMAIN inbox' : /\ inbox'[i].type = "fact"
                                               /\ inbox'[i].cid = s.cid /\ Before(i, s)'
    BY DEF FactFirst
  <1>1. s \in inflight
    BY DispatchStep DEF Anew, Descends
  <1>2. Going
    BY WentOn
  <1>3. PICK i \in DOMAIN inbox : inbox[i].type = "fact" /\ inbox[i].cid = s.cid /\ Before(i, s)
    BY <1>1, <1>2 DEF FactFirst
  <1>0. PICK k \in {0, 1} : k = Passed
    BY DispatchStep
  <1>4. i > k
    <2> SUFFICES ASSUME ~(i > k) PROVE FALSE
      OBVIOUS
    <2>1. /\ flow.at = "receive" /\ inbox[i] = Entry
          /\ HandleFact \/ (IgnoreItem /\ Ignored(Entry))
      BY <1>0, <1>3, FirstTaken, TakenBy
    <2>2. Has(Entry.cid) /\ The(Entry.cid) = s
      <3>1. Has(Entry.cid)
        BY <1>1, <1>3, <2>1 DEF Has
      <3>2. QED
        BY <1>1, <1>3, <2>1, <3>1, Found DEF Known, Numbered
    <2>3. CASE HandleFact
      <3>1. inflight' = Update(s, [s EXCEPT !.fact = TRUE])
        BY <2>2, <2>3 DEF HandleFact
      <3>2. [s EXCEPT !.fact = TRUE].fact
        BY <1>1 DEF Known, Shape, TasksShape, InFlight
      <3>3. QED
        BY <3>1, <3>2 DEF Update
    <2>4. CASE Ignored(Entry)
      <3>1. \/ StateOf(s.phase) # state \/ s.sid # session.id \/ s.turn # session.turn
        BY <1>3, <2>1, <2>2, <2>4 DEF Ignored
      <3>2. StateOf(s.phase) # state
        BY <1>1, <3>1 DEF Known, SessionInv, Current
      <3>3. ~Private(s)
        BY <1>1 DEF Known, RecoveryInv, Fits
      <3>4. CASE Converging
        <4>1. s.phase = "error_notice" /\ state = "ERROR"
          BY <1>1, <3>3, <3>4 DEF Known, ConversationInv, Cancelled, Stopping
        <4>2. QED
          BY <3>2, <4>1 DEF StateOf
      <3>5. CASE ~Converging
        <4>1. state # "ERROR"
          BY <2>1, <3>5 DEF Known, ReportsInv, ErrorConverges
        <4>2. QED
          BY <1>1, <3>2, <3>3, <3>5, <4>1 DEF Known, ConversationInv, OfState
      <3>6. QED
        BY <3>4, <3>5
    <2>5. QED
      BY <2>1, <2>3, <2>4
  <1>5. i - k \in DOMAIN inbox' /\ inbox'[i - k] = inbox[i] /\ Before(i - k, s)'
    BY <1>0, <1>3, <1>4, StaysBefore
  <1>6. QED
    BY <1>3, <1>5 DEF Before

\* The error of a worker that failed comes before its notice, unless it is handled.
LEMMA DispatchErrorFirst ==
    ASSUME Known, Known', ErrorFirst, Dispatch
    PROVE  ErrorFirst'
  <1> SUFFICES ASSUME NEW s \in inflight', ~Private(s), s.task \in {"raised", "fault"},
                      state' # "ERROR"
               PROVE  \E i \in DOMAIN inbox' : inbox'[i].type = "error" /\ Before(i, s)'
    BY DEF ErrorFirst, Private
  <1>1. PICK q \in inflight : Descends(s, q)
    BY DispatchStep DEF Anew
  <1>2. ~Private(q) /\ q.task \in {"raised", "fault"} /\ Completed(s) = Completed(q)
    BY <1>1, DispatchStep DEF Descends, Private
  <1>3. state # "ERROR"
    BY ErrorStays
  <1>4. PICK i \in DOMAIN inbox : inbox[i].type = "error" /\ Before(i, q)
    BY <1>2, <1>3 DEF ErrorFirst
  <1>0. PICK k \in {0, 1} : k = Passed
    BY DispatchStep
  <1>5. i > k
    BY <1>0, <1>4, FirstTaken, TakenBy
  <1>6. i - k \in DOMAIN inbox' /\ inbox'[i - k] = inbox[i] /\ Before(i - k, s)'
    BY <1>0, <1>2, <1>4, <1>5, StaysBefore
  <1>7. QED
    BY <1>4, <1>6 DEF Before

\* A fault whose error is still to be handled is in flight.
LEMMA DeclaredStays ==
    ASSUME Known, Known', NoticesMatch, Dispatch, NEW k \in {0, 1}, k = Passed,
           NEW ks, NEW i \in DOMAIN inbox, i > k,
           Declared(ks, i)
    PROVE  Declared(ks, i - k)'
  <1>1. PICK q \in inflight : q.task = "fault" /\ ~Private(q) /\ Key(q) = ks /\ Before(i, q)
    BY DEF Declared
  <1>2. ~Leaves(q)
    <2> SUFFICES ASSUME Leaves(q) PROVE FALSE
      OBVIOUS
    <2>1. k = 1 /\ inbox # <<>>
      BY DispatchStep DEF Leaves, Passed
    <2>2. 1 \in DOMAIN inbox /\ Entry = inbox[1] /\ i \in Nat
      BY <2>1 DEF Entry, Known, Shape, InboxShape
    <2>3. inbox[1] = Completed(q)
      BY <2>2 DEF Leaves, NoticesMatch
    <2>4. QED
      BY <1>1, <2>1, <2>2, <2>3 DEF Before
  <1>3. PICK s \in inflight' : Descends(s, q)
    BY <1>1, <1>2, DispatchStep
  <1>4. s.task = "fault" /\ ~Private(s) /\ Key(s) = ks /\ Completed(s) = Completed(q)
    BY <1>1, <1>3, DispatchStep DEF Descends, Private, Key, Active
  <1>5. Before(i - k, s)'
    BY <1>1, <1>4, StaysBefore
  <1>6. QED
    BY <1>3, <1>4, <1>5 DEF Declared, Private, Key

\* A task that failed with a fault is aborted by destroying its backend, or not at all.
LEMMA FaultDestroyed ==
    ASSUME Shape, NEW e \in Endured, ~Lost(e), NEW r \in inflight, r.task = "fault"
    PROVE  Key(r) \subseteq Destroyed(e)
  <1>1. r \in Targets
    BY DEF Targets
  <1>2. e[r] \in {"destroyed", "lost"}
    BY <1>1, EnduredIs DEF Ending
  <1>3. e[r] = "destroyed"
    BY <1>1, <1>2 DEF Lost
  <1>4. QED
    BY <1>1, <1>3 DEF Destroyed

\* The keys of a fault are set when its error is handled and cleared by converge().
LEMMA FaultKeysMove ==
    ASSUME Dispatch
    PROVE  \/ faultKeys' = faultKeys
           \/ HandleError
           \/ \E e \in Endured : Converge(e) /\ faultKeys' = {}
  <1>1. UNCHANGED flags => faultKeys' = faultKeys
    BY DEF flags
  <1>2. ASSUME NEW cause, Raise(cause) PROVE faultKeys' = faultKeys
    BY <1>1, <1>2 DEF Raise
  <1>3. CASE \/ IgnoreItem \/ HandleWake \/ HandleMessage \/ HandleUnknownMessage
             \/ HandleInterrupt \/ HandleAck \/ HandleFact \/ HandleDone
    BY <1>1, <1>2, <1>3 DEF IgnoreItem, HandleWake, HandleMessage, HandleUnknownMessage,
       HandleInterrupt, HandleAck, HandleFact, HandleDone, BeginSession
  <1>4. CASE \/ HandleOpened \/ HandleRejected \/ HandleClosed \/ HandleLifecycleFailed
             \/ HandleRecovered \/ HandlePlannedRecovery \/ HandleShutdown
             \/ ShutdownCleanupFails
    BY <1>1, <1>2, <1>4 DEF HandleOpened, HandleRejected, HandleClosed, HandleLifecycleFailed,
       HandleRecovered, HandlePlannedRecovery, HandleShutdown, ShutdownCleanupFails,
       NextConversation
  <1>5. CASE \/ ProgressConverging \/ ProgressWaits \/ ProgressToPerception \/ ProgressHeard
             \/ ProgressThought \/ ProgressRest \/ ProgressEnd \/ ProgressReplace
             \/ ProgressKeep \/ ProgressStop
    BY <1>1, <1>2, <1>5 DEF ProgressConverging, ProgressWaits, ProgressToPerception,
       ProgressHeard, ProgressThought, ProgressRest, ProgressEnd, ProgressReplace,
       ProgressKeep, ProgressStop
  <1>6. CASE \/ EnterPerception \/ EnterThink \/ EnterAction \/ ConvergeAgain \/ LifecycleError
             \/ \E e \in Endured : ConvergeToShutdown(e) \/ LifecycleErrorConverging(e)
    BY <1>1, <1>2, <1>6 DEF EnterPerception, EnterThink, EnterAction, ConvergeAgain,
       LifecycleError, ConvergeToShutdown, LifecycleErrorConverging
  <1>7. ASSUME NEW e \in Endured, Converge(e) PROVE faultKeys' = faultKeys \/ faultKeys' = {}
    BY <1>2, <1>7 DEF Converge
  <1>8. CASE \/ FinishLater \/ FinishClose \/ FinishRecycle \/ FinishAnnounce \/ FinishStop
             \/ FinishIdle
    BY <1>1, <1>2, <1>8 DEF FinishLater, FinishClose, FinishRecycle, FinishAnnounce,
       FinishStop, FinishIdle
  <1>9. QED
    BY <1>3, <1>4, <1>5, <1>6, <1>7, <1>8 DEF Dispatch

\* The keys that a convergence is given are those of a fault in flight.
LEMMA DispatchFaultKeys ==
    ASSUME Known, Known', FaultKeys, ErrorKeys, Dispatch
    PROVE  FaultKeys'
  <1> SUFFICES ASSUME faultKeys' # {}, ~shutting', flow'.at # "dead"
               PROVE  /\ flow'.at = "converge" /\ flow'.why = "error" /\ ~Converging'
                      /\ Declared(faultKeys, 0)'
    BY DEF FaultKeys
  <1>1. ~shutting
    BY GoesOn DEF HandleShutdown
  <1>2. ~\E cause : Raise(cause)
    BY DEF Raise
  <1>3. faultKeys # {} => /\ flow.at = "converge" /\ flow.why = "error" /\ ~Converging
    BY <1>1, GoesOn DEF FaultKeys, Going, ProgressStop
  <1>4. HandleError
    <2>1. ASSUME NEW e \in Endured, Converge(e) PROVE faultKeys' = {}
      BY <1>2, <2>1 DEF Converge
    <2>2. faultKeys # {} => \E e \in Endured : Converge(e)
      BY <1>3, GoesOn DEF Converges, ConvergeToShutdown, LifecycleErrorConverging,
                          ConvergeAgain
    <2>3. QED
      BY <2>1, <2>2, FaultKeysMove
  <1>5. flow.at = "receive" /\ Entry.type = "error" /\ 1 \in DOMAIN inbox /\ inbox[1] = Entry
    BY <1>4 DEF HandleError, Receive, Entry, Known, Shape, InboxShape
  <1>6. faultKeys = {}
    BY <1>3, <1>5
  <1>7. state # "ERROR" /\ faultKeys' = Entry.keys
    BY <1>4, <1>6 DEF HandleError
  <1>8. flow'.at = "converge" /\ flow'.why = "error" /\ pending' = pending /\ inflight' = inflight
    BY <1>4, <1>7 DEF HandleError, Call, tasks
  <1>9. Declared(Entry.keys, 1) /\ ~Converging
    BY <1>1, <1>5, <1>7 DEF ErrorKeys
  <1>10. \A j \in DOMAIN inbox' : 0 < j
    BY DEF Known, Shape, InboxShape
  <1>11. Declared(faultKeys, 0)'
    BY <1>7, <1>8, <1>9, <1>10 DEF Declared, Before, Private, Key
  <1>12. QED
    BY <1>8, <1>9, <1>11 DEF Converging

\* The keys of an error in the inbox are those of a fault in flight.
LEMMA DispatchErrorKeys ==
    ASSUME Known, Known', NoticesMatch, ErrorKeys, Dispatch
    PROVE  ErrorKeys'
  <1> SUFFICES ASSUME NEW j \in DOMAIN inbox', inbox'[j].type = "error", inbox'[j].keys # {}
               PROVE  /\ Declared(inbox[j].keys, j)'
                      /\ shutting' \/ state' = "ERROR" \/ ~Converging'
    BY DEF ErrorKeys
  <1>1. PICK k \in {0, 1} : k = Passed
    BY DispatchStep
  <1>2. PICK ks : ks = inbox'[j].keys
    OBVIOUS
  <1>3. Shape /\ Numbered /\ \A r : Completed(r).type # "error"
    BY DEF Known, Completed
  <1>4. j \in Nat /\ j > 0
    BY DEF Known, Shape, InboxShape
  <1>5. j + k \in DOMAIN inbox /\ inbox'[j] = inbox[j + k]
    BY <1>1, <1>3, DispatchCarries DEF Carried, Added, New
  <1>6. PICK i \in DOMAIN inbox : i = j + k
    BY <1>5
  <1>7. inbox[i].type = "error" /\ inbox[i].keys = ks /\ ks # {} /\ i > k /\ i - k = j
    BY <1>2, <1>4, <1>5, <1>6
  <1>8. Declared(ks, i) /\ (shutting \/ state = "ERROR" \/ ~Converging)
    BY <1>7 DEF ErrorKeys
  <1>9. Declared(ks, i - k)'
    BY <1>1, <1>7, <1>8, DeclaredStays
  <1>10. Declared(inbox[j].keys, j)'
    BY <1>2, <1>7, <1>9
  <1>11. inflight' # {}
    BY <1>9 DEF Declared
  <1>12. CASE shutting
    BY <1>10, <1>12, GoesOn DEF HandleShutdown
  <1>13. CASE state = "ERROR"
    BY <1>10, <1>11, <1>13, ErrorStays
  <1>14. CASE ~shutting /\ state # "ERROR" /\ ~Converging
    <2> SUFFICES ASSUME Converging' PROVE state' = "ERROR"
      BY <1>10
    <2>1. PICK e \in Endured : Converge(e)
      BY <1>14, ConvergingStays
      DEF Known, ReportsInv, SessionInv, Converges, ConvergeToShutdown, LifecycleErrorConverging
    <2>2. ~\E cause : Raise(cause)
      BY <1>14 DEF Raise, manager, Converging
    <2>3. flow.at = "converge" /\ flow.why # "shutdown"
      BY <1>14, <2>1 DEF Known, RecoveryInv, WhyConverge, Converge
    <2>4. PICK r \in inflight : r.task = "fault" /\ Key(r) = ks
      BY <1>8 DEF Declared
    <2>5. ~Lost(e)
      BY <2>1, <2>2 DEF Converge
    <2>6. Destroyed(e) # {}
      BY <1>3, <1>7, <2>4, <2>5, FaultDestroyed
    <2>7. QED
      BY <2>1, <2>2, <2>3, <2>6 DEF Converge
  <1>15. QED
    BY <1>8, <1>10, <1>12, <1>13, <1>14

\* The invariant of the inbox.
InboxInv == /\ NoticesMatch /\ NoNotice /\ FactSilent /\ FactFirst /\ ErrorFirst
            /\ FaultKeys /\ ErrorKeys

\* The manager's own checks: none of them fails.
LEMMA DispatchChecks ==
    ASSUME Known, InboxInv, Dispatch, flow'.at = "dead"
    PROVE  flow'.why \notin {"contract", "invariant"}
  <1> DEFINE Good == flow'.why \notin {"contract", "invariant"}
  <1>1. ASSUME flow.at \notin {"stopped", "dead"}, Return PROVE FALSE
    BY <1>1, Returns DEF Known, Shape
  <1>2. ASSUME NEW method, NEW why, Call(method, why), method # "dead" PROVE FALSE
    BY <1>2 DEF Call
  <1>3. ASSUME NEW cause, cause \notin {"contract", "invariant"}, Raise(cause) PROVE Good
    BY <1>3 DEF Raise
  <1> HIDE DEF Good
  <1>4. SUFFICES ASSUME TRUE PROVE Good
    BY DEF Good
  <1>5. CASE \/ IgnoreItem \/ HandleWake \/ HandleMessage \/ HandleUnknownMessage
             \/ HandleInterrupt \/ HandleAck \/ HandleFact
    BY <1>1, <1>2, <1>3, <1>5 DEF IgnoreItem, HandleWake, HandleMessage, HandleUnknownMessage,
       HandleInterrupt, HandleAck, HandleFact, BeginSession, Receive, Refused
  <1>6. CASE HandleDone
    <2> DEFINE r == The(Entry.cid)
    <2>1. Has(Entry.cid) /\ Entry.type = "done" /\ flow.at = "receive" /\ inbox # <<>>
      BY <1>6, Admitted DEF HandleDone, Receive, Entry
    <2>2. r \in inflight /\ r.cid = Entry.cid
      BY <2>1, Found
    <2>3. 1 \in DOMAIN inbox /\ Entry = inbox[1] /\ \A i \in DOMAIN inbox : ~(i < 1)
      BY <2>1 DEF Entry, Known, Shape, InboxShape
    <2>4. \/ r.task \in {"raised", "fault"} /\ (r.fact \/ state # "ERROR")
          \/ r.task = "returned" /\ ~r.fact /\ ~r.cancel
      BY <1>1, <1>6, <2>1 DEF HandleDone
    <2> HIDE DEF r
    <2>5. inbox[1] = Completed(r)
      BY <2>1, <2>2, <2>3 DEF InboxInv, NoticesMatch
    <2>6. ~Private(r)
      BY <2>1, <2>3, <2>5 DEF Completed
    <2>7. ASSUME NEW i \in DOMAIN inbox, Before(i, r) PROVE FALSE
      BY <2>3, <2>5, <2>7 DEF Before
    <2>8. CASE r.task \in {"raised", "fault"} /\ (r.fact \/ state # "ERROR")
      BY <2>2, <2>6, <2>7, <2>8 DEF InboxInv, FactSilent, ErrorFirst
    <2>9. CASE r.task = "returned" /\ ~r.fact /\ ~r.cancel
      BY <2>1, <2>2, <2>7, <2>9 DEF InboxInv, FactFirst, Going
    <2>10. QED
      BY <2>4, <2>8, <2>9
  <1>7. CASE HandleRejected \/ HandleClosed
    <2> DEFINE r == The(Entry.cid)
               rest == inflight \ {r}
    <2>1. Has(Entry.cid) /\ flow.at = "receive"
      BY <1>7, Admitted DEF HandleRejected, HandleClosed, Receive, Entry
    <2>2. r \in inflight /\ r.task \in {"rejected", "closed"}
      BY <1>7, <2>1, Found DEF HandleRejected, HandleClosed
    <2>3. rest = {}
      BY <2>2 DEF Known, RecoveryInv, Fits, ConversationInv, Alone, Private
    <2>4. ~Clash(rest)
      BY <2>3 DEF Clash
    <2> HIDE DEF r
    <2>5. ASSUME NEW ctx, NextConversation(rest, ctx) PROVE FALSE
      BY <1>1, <2>1, <2>4, <2>5 DEF NextConversation
    <2>6. QED
      BY <1>1, <1>2, <1>7, <2>1, <2>5 DEF HandleRejected, HandleClosed, r
  <1>8. CASE \/ HandleOpened \/ HandleLifecycleFailed \/ HandleRecovered
             \/ HandlePlannedRecovery \/ HandleError \/ HandleShutdown \/ ShutdownCleanupFails
    BY <1>1, <1>2, <1>3, <1>8 DEF HandleOpened, HandleLifecycleFailed, HandleRecovered,
       HandlePlannedRecovery, HandleError, HandleShutdown, ShutdownCleanupFails, Receive
  <1>9. CASE \/ ProgressConverging \/ ProgressWaits \/ ProgressToPerception \/ ProgressHeard
             \/ ProgressThought \/ ProgressRest \/ ProgressEnd \/ ProgressReplace
             \/ ProgressKeep
    BY <1>1, <1>2, <1>9 DEF ProgressConverging, ProgressWaits, ProgressToPerception,
       ProgressHeard, ProgressThought, ProgressRest, ProgressEnd, ProgressReplace,
       ProgressKeep, Acted, MayProgress, Progress
  <1>10. CASE ProgressStop
    BY <1>3, <1>10 DEF ProgressStop
  <1>11. CASE EnterPerception \/ EnterAction \/ ConvergeAgain \/ LifecycleError
    BY <1>1, <1>2, <1>11 DEF EnterPerception, EnterAction, ConvergeAgain, LifecycleError
  <1>12. CASE EnterThink
    <2>1. state = "THINK" /\ ~Converging /\ flow.at = "think"
      BY <1>12 DEF EnterThink, Known, SessionInv, Entering
    <2>2. session.conv = "ready" /\ ~session.blocked
      BY <2>1 DEF Known, ConversationInv, Ready, Going, Speaking
    <2>3. QED
      BY <1>1, <1>12, <2>2 DEF EnterThink
  <1>13. ASSUME NEW e \in Endured, Converge(e) PROVE Good
    <2> DEFINE declared == IF flow.why = "error" THEN faultKeys ELSE {}
    <2>1. ASSUME ~Lost(e), declared # {} PROVE declared \subseteq Destroyed(e)
      <3>1. flow.at = "converge" /\ flow.why = "error" /\ ~Converging /\ faultKeys # {}
        BY <1>13, <2>1 DEF Converge
      <3>2. ~shutting
        BY <3>1 DEF Known, SessionInv, ShutsDown, Going
      <3>3. PICK r \in inflight : r.task = "fault" /\ Key(r) = faultKeys
        BY <3>1, <3>2 DEF InboxInv, FaultKeys, Declared
      <3>4. QED
        BY <2>1, <3>1, <3>3, FaultDestroyed DEF Known
    <2> HIDE DEF declared
    <2>2. CASE Lost(e)
      BY <1>3, <1>13, <2>2 DEF Converge
    <2>3. CASE ~Lost(e)
      <3>1. ~(declared # {} /\ ~(declared \subseteq Destroyed(e)))
        BY <2>1, <2>3
      <3>2. QED
        BY <1>2, <1>3, <1>13, <2>3, <3>1 DEF Converge, declared
    <2>4. QED
      BY <2>2, <2>3
  <1>14. ASSUME NEW e \in Endured, ConvergeToShutdown(e) \/ LifecycleErrorConverging(e)
         PROVE  Good
    BY <1>1, <1>2, <1>3, <1>14 DEF ConvergeToShutdown, LifecycleErrorConverging
  <1>15. CASE \/ FinishLater \/ FinishClose \/ FinishRecycle \/ FinishAnnounce \/ FinishIdle
    BY <1>1, <1>2, <1>3, <1>15 DEF FinishLater, FinishClose, FinishRecycle, FinishAnnounce,
       FinishIdle, FinishLast, FinishReady, Finishing
  <1>16. CASE FinishStop
    BY <1>3, <1>16 DEF FinishStop
  <1>17. QED
    BY <1>5, <1>6, <1>7, <1>8, <1>9, <1>10, <1>11, <1>12, <1>13, <1>14, <1>15, <1>16
    DEF Dispatch

\* What a task puts into the inbox as it goes on or ends.
Says(r, task, t) ==
    \/ /\ r.task = "running" /\ task = "published" /\ ~Private(r)
       /\ \E value : t = <<Fact(r, value)>>
    \/ /\ t = <<Completed(r)>>
       /\ \/ r.task = "published" /\ task = "returned"
          \/ /\ r.task = "running" /\ Private(r)
             /\ task \notin {"running", "published", "returned"}
    \/ /\ r.task = "running" /\ task \in {"raised", "fault"} /\ ~Private(r)
       /\ \E keys \in {{}, Key(r)}, asr \in BOOLEAN :
             /\ t = <<ErrorOccurred(keys, asr), Completed(r)>>
             /\ (keys = {}) = (task = "raised")

\* Every step of a task is one of these.
LEMMA WorkSays ==
    ASSUME Shape, Numbered, Work
    PROVE  \E r \in inflight, task \in TaskStates, t \in Seq(Items) :
              WorkOf(r, task) /\ Says(r, task, t) /\ inbox' = inbox \o t
  <1>1. PICK r \in inflight, task \in TaskStates :
              /\ WorkOf(r, task)
              /\ \/ /\ r.task = "running" /\ task = "published" /\ ~Private(r)
                    /\ \E value \in ValuesOf(r.phase) : Put(<<Fact(r, value)>>)
                 \/ /\ r.task = "published" /\ task = "returned"
                    /\ Put(<<Completed(r)>>)
                 \/ /\ r.task = "running" /\ task \in {"raised", "fault"} /\ ~Private(r)
                    /\ \E keys \in {{}, Key(r)} :
                          /\ Put(<<ErrorOccurred(keys, r.kind = "listen"), Completed(r)>>)
                          /\ (keys = {}) = (task = "raised")
                 \/ /\ r.task = "running" /\ r.phase = "open"
                    /\ task \in {"ready", "rejected", "raised"} /\ Put(<<Completed(r)>>)
                 \/ /\ r.task = "running" /\ r.phase = "close"
                    /\ task \in {"closed", "raised", "fault"} /\ Put(<<Completed(r)>>)
    BY WorkIs
  <1>2. r \in InFlight
    BY DEF Shape, TasksShape
  <1>3. Completed(r) \in Items
    BY <1>2 DEF Completed, InFlight, Items, Notices
  <1>4. <<Completed(r)>> \in Seq(Items)
    BY <1>3
  <1>5. ASSUME NEW value \in ValuesOf(r.phase) PROVE <<Fact(r, value)>> \in Seq(Items)
    <2>1. value \in Heards \cup Response \cup Outcomes
      BY DEF ValuesOf
    <2>2. Fact(r, value) \in Items
      BY <1>2, <2>1 DEF Fact, InFlight, Items, Facts
    <2>3. QED
      BY <2>2
  <1>6. ASSUME NEW keys \in {{}, Key(r)}
        PROVE  <<ErrorOccurred(keys, r.kind = "listen"), Completed(r)>> \in Seq(Items)
    <2>1. ErrorOccurred(keys, r.kind = "listen") \in Items
      BY DEF Key, ErrorOccurred, Items, Errors, Keys
    <2>2. QED
      BY <1>3, <2>1
  <1>7. ASSUME r.task = "running", task = "published", ~Private(r),
               NEW value \in ValuesOf(r.phase), Put(<<Fact(r, value)>>)
        PROVE  \E t \in Seq(Items) : Says(r, task, t) /\ inbox' = inbox \o t
    BY <1>5, <1>7 DEF Says, Put
  <1>8. ASSUME r.task = "running", task \in {"raised", "fault"}, ~Private(r),
               NEW keys \in {{}, Key(r)}, (keys = {}) = (task = "raised"),
               Put(<<ErrorOccurred(keys, r.kind = "listen"), Completed(r)>>)
        PROVE  \E t \in Seq(Items) : Says(r, task, t) /\ inbox' = inbox \o t
    <2>1. (r.kind = "listen") \in BOOLEAN
      OBVIOUS
    <2>2. PICK asr \in BOOLEAN : asr = (r.kind = "listen")
      BY <2>1
    <2>3. QED
      BY <1>6, <1>8, <2>2 DEF Says, Put
  <1>9. ASSUME Put(<<Completed(r)>>),
               \/ r.task = "published" /\ task = "returned"
               \/ /\ r.task = "running" /\ r.phase \in {"open", "close"}
                  /\ task \in {"ready", "rejected", "raised", "closed", "fault"}
        PROVE  \E t \in Seq(Items) : Says(r, task, t) /\ inbox' = inbox \o t
    BY <1>4, <1>9 DEF Says, Put, Private
  <1>10. QED
    BY <1>1, <1>7, <1>8, <1>9

\* A task that goes on or ends keeps what its items tell.
LEMMA WorkInbox ==
    ASSUME Known, Known', InboxInv, Work
    PROVE  InboxInv'
  <1>1. Shape /\ Shape' /\ Numbered
    BY DEF Known
  <1>2. PICK r \in inflight, task \in TaskStates, t \in Seq(Items) :
              WorkOf(r, task) /\ Says(r, task, t) /\ inbox' = inbox \o t
    BY <1>1, WorkSays
  <1>3. PICK s : s = [r EXCEPT !.task = task]
    OBVIOUS
  <1>4. /\ s.task = task /\ s.phase = r.phase /\ s.kind = r.kind /\ s.cid = r.cid
        /\ s.fact = r.fact /\ s.cancel = r.cancel
    BY <1>1, <1>3, WorkedIs
  <1>5. inflight' = (inflight \ {r}) \cup {s}
    BY <1>2, <1>3 DEF WorkOf, Update
  <1>6. UNCHANGED <<state, pending, flow, shutting>> /\ flow.at = "receive"
    BY <1>2, OutsideKeeps DEF WorkOf, manager
  <1>7. /\ Carried(0)
        /\ \A j \in DOMAIN inbox' : j > Len(inbox) => \E i \in DOMAIN t : inbox'[j] = t[i]
    BY <1>1, <1>2, CarriedIs
  <1>8. \A j \in DOMAIN inbox' : \/ j \in DOMAIN inbox /\ inbox'[j] = inbox[j]
                                 \/ j > Len(inbox) /\ \E i \in DOMAIN t : inbox'[j] = t[i]
    <2>1. \A j \in DOMAIN inbox' : j \in Nat
      BY <1>1 DEF Shape, InboxShape
    <2>2. QED
      BY <1>7, <2>1 DEF Carried
  <1>9. \A i \in DOMAIN t : i + Len(inbox) \in DOMAIN inbox' /\ inbox'[i + Len(inbox)] = t[i]
    <2>1. inbox \in Seq(Items) /\ t \in Seq(Items)
      BY <1>1 DEF Shape, InboxShape
    <2>2. \A i \in DOMAIN t : /\ i + Len(inbox) \in DOMAIN (inbox \o t)
                              /\ (inbox \o t)[i + Len(inbox)] = t[i]
      BY ONLY <2>1, Joined
    <2>3. QED
      BY <1>2, <2>2
  <1>10. Completed(s) = Completed(r) /\ Private(s) = Private(r) /\ Key(s) = Key(r)
    BY <1>4 DEF Completed, Private, Key
  <1>11. Active(r) /\ \A i \in DOMAIN inbox : inbox[i] # Completed(r)
    <2>1. Active(r)
      BY <1>2 DEF Says, Active
    <2>2. QED
      BY <2>1 DEF InboxInv, NoNotice
  <1>12. \A q \in inflight : q # r => q.cid # r.cid /\ Completed(q) # Completed(r)
    BY <1>1 DEF Numbered, Completed
  <1>13. \A i \in DOMAIN t : \/ t[i] = Completed(r)
                             \/ t[i].type = "fact" /\ t[i].cid = r.cid /\ task = "published"
                             \/ t[i].type = "error"
    <2>1. \A value : Fact(r, value).type = "fact" /\ Fact(r, value).cid = r.cid
      BY DEF Fact
    <2>2. \A keys, asr : ErrorOccurred(keys, asr).type = "error"
      BY DEF ErrorOccurred
    <2>3. QED
      BY <1>2, <2>1, <2>2 DEF Says
  <1>14. ASSUME NEW i \in DOMAIN inbox, NEW q, Before(i, q)
         PROVE  i \in DOMAIN inbox' /\ inbox'[i] = inbox[i] /\ Before(i, q)'
    <2>1. i > 0 /\ i - 0 = i
      BY <1>1 DEF Shape, InboxShape
    <2>2. PICK k \in {0, 1} : k = 0
      OBVIOUS
    <2>3. i - k \in DOMAIN inbox' /\ inbox'[i - k] = inbox[i] /\ Before(i - k, q)'
      BY <1>1, <1>7, <1>14, <2>1, <2>2, CarriedBefore
    <2>4. QED
      BY <2>1, <2>2, <2>3
  <1>15. NoticesMatch'
    <2> SUFFICES ASSUME NEW j \in DOMAIN inbox', inbox'[j].type \in {"done", "lifecycle"},
                        NEW q \in inflight', q.cid = inbox'[j].cid
                 PROVE  inbox'[j] = Completed(q)
      BY DEF NoticesMatch, Completed, Private
    <2>1. CASE j \in DOMAIN inbox /\ inbox'[j] = inbox[j]
      BY <1>4, <1>5, <1>10, <2>1 DEF InboxInv, NoticesMatch
    <2>2. CASE inbox'[j] = Completed(r)
      BY <1>5, <1>10, <1>12, <2>2 DEF Completed
    <2>3. QED
      BY <1>8, <1>13, <2>1, <2>2
  <1>16. NoNotice'
    <2> SUFFICES ASSUME NEW q \in inflight', Active(q), NEW j \in DOMAIN inbox',
                        inbox'[j] = Completed(q)
                 PROVE  FALSE
      BY DEF NoNotice, Active, Completed, Private
    <2>1. inbox'[j].type \in {"done", "lifecycle"}
      BY DEF Completed
    <2>2. CASE q = s
      <3>1. task = "published" /\ \A i \in DOMAIN t : t[i].type = "fact"
        BY <1>2, <1>4, <2>2 DEF Says, Active, Fact
      <3>2. QED
        BY <1>8, <1>10, <1>11, <2>1, <2>2, <3>1
    <2>3. CASE q \in inflight /\ q # r
      BY <1>8, <1>12, <1>13, <2>1, <2>3 DEF InboxInv, NoNotice
    <2>4. QED
      BY <1>5, <2>2, <2>3
  <1>17. FactSilent'
    <2> SUFFICES ASSUME NEW q \in inflight', q.task \in {"running", "raised", "fault"},
                        NEW j \in DOMAIN inbox'
                 PROVE  ~q.fact /\ ~(inbox'[j].type = "fact" /\ inbox'[j].cid = q.cid)
      <3>1. \A q \in inflight' : q.task \in {"running", "raised", "fault"} => ~q.fact
        BY <1>2, <1>4, <1>5 DEF InboxInv, FactSilent, Says
      <3>2. QED
        BY <3>1 DEF FactSilent
    <2>1. Completed(r).type # "fact"
      BY DEF Completed
    <2>2. CASE q = s
      BY SMTT(60), <1>2, <1>4, <1>8, <1>13, <2>1, <2>2 DEF InboxInv, FactSilent, Says
    <2>3. CASE q \in inflight /\ q # r
      BY <1>8, <1>12, <1>13, <2>1, <2>3 DEF InboxInv, FactSilent
    <2>4. QED
      BY <1>5, <2>2, <2>3
  <1>18. FactFirst'
    <2> SUFFICES ASSUME NEW q \in inflight', q.task \in {"published", "returned"}, ~q.fact,
                        ~q.cancel, Going'
                 PROVE  \E i \in DOMAIN inbox' : /\ inbox'[i].type = "fact"
                                                 /\ inbox'[i].cid = q.cid /\ Before(i, q)'
      BY DEF FactFirst
    <2>1. Going
      BY <1>6 DEF Going
    <2>2. CASE q \in inflight
      BY <1>14, <2>1, <2>2 DEF InboxInv, FactFirst
    <2>3. CASE q = s /\ r.task = "published"
      <3>1. PICK i \in DOMAIN inbox : inbox[i].type = "fact" /\ inbox[i].cid = r.cid /\ Before(i, r)
        BY <1>4, <2>1, <2>3 DEF InboxInv, FactFirst
      <3>2. Before(i, s)
        BY <1>10, <3>1 DEF Before
      <3>3. QED
        BY <1>4, <1>14, <2>3, <3>1, <3>2
    <2>4. CASE q = s /\ r.task # "published"
      <3>1. PICK value : t = <<Fact(r, value)>>
        BY <1>2, <1>4, <2>4 DEF Says
      <3>2. 1 \in DOMAIN t /\ \A i \in DOMAIN t : t[i].type = "fact" /\ t[i].cid = r.cid
        BY <3>1 DEF Fact
      <3>3. /\ 1 + Len(inbox) \in DOMAIN inbox' /\ inbox'[1 + Len(inbox)].type = "fact"
            /\ inbox'[1 + Len(inbox)].cid = s.cid
        BY <1>4, <1>9, <3>2
      <3>4. \A j \in DOMAIN inbox' : inbox'[j] # Completed(s)
        <4>1. Completed(s).type # "fact"
          BY DEF Completed
        <4>2. QED
          BY <1>8, <1>10, <1>11, <3>2, <4>1
      <3>5. Completed(s)' = Completed(s)
        BY DEF Completed, Private
      <3>6. PICK n \in DOMAIN inbox' : n = 1 + Len(inbox)
        BY <3>3
      <3>7. Before(n, s)'
        BY <3>4, <3>5 DEF Before
      <3>8. QED
        BY <2>4, <3>3, <3>6, <3>7
    <2>5. QED
      BY <1>5, <2>2, <2>3, <2>4
  <1>19. /\ ErrorFirst'
         /\ task = "fault" /\ ~Private(r) => \A n \in DOMAIN inbox' :
               n > Len(inbox) /\ inbox'[n].type = "error" => inbox'[n].keys = Key(r) /\ Before(n, s)'
    <2>1. ASSUME task \in {"raised", "fault"}, ~Private(r)
          PROVE  /\ 1 + Len(inbox) \in DOMAIN inbox' /\ inbox'[1 + Len(inbox)].type = "error"
                 /\ \A n \in DOMAIN inbox' : n > Len(inbox) /\ inbox'[n].type = "error" =>
                       /\ inbox'[n].keys = {} \/ (inbox'[n].keys = Key(r) /\ task = "fault")
                       /\ task = "fault" => inbox'[n].keys = Key(r)
                       /\ Before(n, s)'
      <3>1. PICK keys \in {{}, Key(r)}, asr \in BOOLEAN :
                  /\ t = <<ErrorOccurred(keys, asr), Completed(r)>>
                  /\ (keys = {}) = (task = "raised")
        BY <1>2, <2>1 DEF Says
      <3>2. t[1].type = "error" /\ t[1].keys = keys /\ t[2] = Completed(r) /\ DOMAIN t = {1, 2}
        BY <3>1 DEF ErrorOccurred
      <3>3. Len(inbox) \in Nat
        BY <1>1 DEF Shape, InboxShape
      <3>4. /\ 1 + Len(inbox) \in DOMAIN inbox' /\ inbox'[1 + Len(inbox)] = t[1]
            /\ 2 + Len(inbox) \in DOMAIN inbox' /\ inbox'[2 + Len(inbox)] = t[2]
        BY <1>9, <3>2
      <3>5. DOMAIN inbox' = 1 .. (Len(inbox) + 2)
        BY <1>1, <1>2, <3>1 DEF Shape, InboxShape
      <3>6. Completed(r).type # "error" /\ Completed(s)' = Completed(s)
        BY DEF Completed, Private
      <3>7. ASSUME NEW n \in DOMAIN inbox', n > Len(inbox), inbox'[n].type = "error"
            PROVE  n = 1 + Len(inbox)
        BY <3>2, <3>3, <3>4, <3>5, <3>6, <3>7
      <3>8. ASSUME NEW n \in DOMAIN inbox', n = 1 + Len(inbox) PROVE Before(n, s)'
        <4>1. \A j \in DOMAIN inbox' : inbox'[j] = Completed(s) => n < j
          <5>1. TAKE j \in DOMAIN inbox'
          <5>2. j \in DOMAIN inbox \/ j = n \/ j = 2 + Len(inbox)
            BY <1>1, <3>3, <3>5, <3>8 DEF Shape, InboxShape
          <5>3. j \in DOMAIN inbox => inbox'[j] # Completed(s)
            <6>1. j \in DOMAIN inbox => ~(j > Len(inbox))
              BY <1>1 DEF Shape, InboxShape
            <6>2. QED
              BY <1>8, <1>10, <1>11, <6>1
          <5>4. j = n => inbox'[j] # Completed(s)
            BY <1>10, <3>2, <3>4, <3>6, <3>8
          <5>5. QED
            BY <3>3, <3>8, <5>2, <5>3, <5>4
        <4>2. QED
          BY <3>6, <4>1 DEF Before
      <3>9. QED
        BY <3>1, <3>2, <3>4, <3>7, <3>8, <2>1
    <2>2. ASSUME NEW q \in inflight', ~Private(q), q.task \in {"raised", "fault"}, state # "ERROR"
          PROVE  \E i \in DOMAIN inbox' : inbox'[i].type = "error" /\ Before(i, q)'
      <3>1. CASE q \in inflight
        BY <1>14, <2>2, <3>1 DEF InboxInv, ErrorFirst
      <3>2. CASE q = s
        <4>1. task \in {"raised", "fault"} /\ ~Private(r)
          BY <1>4, <1>10, <2>2, <3>2
        <4>2. PICK n \in DOMAIN inbox' : n = 1 + Len(inbox)
          BY <2>1, <4>1
        <4>3. n > Len(inbox)
          BY <1>1, <4>2 DEF Shape, InboxShape
        <4>4. QED
          BY <2>1, <3>2, <4>1, <4>2, <4>3
      <3>3. QED
        BY <1>5, <3>1, <3>2
    <2>3. ErrorFirst'
      BY <1>6, <2>2 DEF ErrorFirst, Private
    <2>4. QED
      BY <2>1, <2>3
  <1>20. FaultKeys'
    <2>1. faultKeys' = faultKeys
      BY OutsideKeeps
    <2>2. QED
      BY <1>6, <2>1 DEF InboxInv, FaultKeys
  <1>21. ErrorKeys'
    <2> SUFFICES ASSUME NEW j \in DOMAIN inbox', inbox'[j].type = "error", inbox'[j].keys # {}
                 PROVE  /\ Declared(inbox[j].keys, j)'
                        /\ shutting' \/ state' = "ERROR" \/ ~Converging'
      BY DEF ErrorKeys
    <2>1. CASE j \in DOMAIN inbox /\ inbox'[j] = inbox[j]
      <3>1. PICK q \in inflight : /\ q.task = "fault" /\ ~Private(q)
                                  /\ Key(q) = inbox'[j].keys /\ Before(j, q)
        BY <2>1 DEF InboxInv, ErrorKeys, Declared
      <3>2. q \in inflight'
        BY <1>5, <1>11, <3>1 DEF Active
      <3>3. Declared(inbox[j].keys, j)'
        BY <1>14, <2>1, <3>1, <3>2 DEF Declared, Private, Key
      <3>4. QED
        BY <1>6, <2>1, <3>3 DEF InboxInv, ErrorKeys, Converging
    <2>2. CASE j > Len(inbox) /\ \E i \in DOMAIN t : inbox'[j] = t[i]
      <3>1. task = "fault" /\ ~Private(r) /\ r.task = "running"
        <4>1. \A value : Fact(r, value).type # "error"
          BY DEF Fact
        <4>2. Completed(r).type # "error"
          BY DEF Completed
        <4>3. PICK keys \in {{}, Key(r)}, asr \in BOOLEAN :
                    /\ t = <<ErrorOccurred(keys, asr), Completed(r)>>
                    /\ (keys = {}) = (task = "raised") /\ r.task = "running"
                    /\ task \in {"raised", "fault"} /\ ~Private(r)
          BY <1>2, <2>2, <4>1, <4>2 DEF Says
        <4>4. inbox'[j].keys = keys
          BY <2>2, <4>2, <4>3 DEF ErrorOccurred
        <4>5. QED
          BY <4>3, <4>4
      <3>2. inbox'[j].keys = Key(r) /\ Before(j, s)'
        BY <1>19, <2>2, <3>1
      <3>3. s \in inflight' /\ s.task = "fault" /\ ~Private(s) /\ Key(s) = Key(r)
        BY <1>4, <1>5, <1>10, <3>1
      <3>4. Declared(inbox[j].keys, j)'
        BY <3>2, <3>3 DEF Declared, Private, Key
      <3>5. Converging => state = "ERROR"
        BY <3>1 DEF Known, ConversationInv, Cancelled, Stopping, Active
      <3>6. QED
        BY <1>6, <3>4, <3>5 DEF Converging
    <2>3. QED
      BY <1>8, <2>1, <2>2
  <1>22. QED
    BY <1>15, <1>16, <1>17, <1>18, <1>19, <1>20, <1>21 DEF InboxInv

\* What else happens while the dispatch loop waits keeps it.
LEMMA OutsideInbox ==
    ASSUME Known, Known', InboxInv, Recover \/ AckElapses \/ World
    PROVE  InboxInv'
  <1>1. Shape /\ Shape'
    BY DEF Known
  <1>2. /\ Keep /\ UNCHANGED inflight /\ flow.at = "receive"
        /\ \/ inbox' = inbox
           \/ \E x \in Items : /\ inbox' = inbox \o <<x>>
                               /\ x.type \notin {"fact", "done", "lifecycle"}
                               /\ x.type = "error" => x.keys = {}
    BY <1>1, OutsideAdds
  <1>3. UNCHANGED <<state, pending, flow, shutting, faultKeys>>
    BY <1>2 DEF Keep, manager
  <1>4. PICK k \in {0, 1} : k = 0
    OBVIOUS
  <1>5. /\ Carried(k)
        /\ \A j \in DOMAIN inbox' :
              \/ j \in DOMAIN inbox /\ inbox'[j] = inbox[j]
              \/ /\ inbox'[j].type \notin {"fact", "done", "lifecycle"}
                 /\ inbox'[j].type = "error" => inbox'[j].keys = {}
    <2>1. CASE inbox' = inbox
      BY <1>1, <1>4, <2>1, CarriedIs
    <2>2. ASSUME NEW x \in Items, inbox' = inbox \o <<x>>,
                 x.type \notin {"fact", "done", "lifecycle"}, x.type = "error" => x.keys = {}
          PROVE  /\ Carried(k)
                 /\ \A j \in DOMAIN inbox' :
                       \/ j \in DOMAIN inbox /\ inbox'[j] = inbox[j]
                       \/ inbox'[j] = x
      <3>1. <<x>> \in Seq(Items)
        OBVIOUS
      <3>2. /\ Carried(0)
            /\ \A j \in DOMAIN inbox' : j > Len(inbox) => inbox'[j] = x
        <4>1. \A i \in DOMAIN <<x>> : <<x>>[i] = x
          OBVIOUS
        <4>2. /\ Carried(0)
              /\ \A j \in DOMAIN inbox' :
                    j > Len(inbox) => \E i \in DOMAIN <<x>> : inbox'[j] = <<x>>[i]
          <5> DEFINE t == <<x>>
          <5>1. t \in Seq(Items) /\ inbox' = inbox \o t
            BY <2>2, <3>1
          <5> HIDE DEF t
          <5>2. /\ Carried(0)
                /\ \A j \in DOMAIN inbox' : j > Len(inbox) => \E i \in DOMAIN t : inbox'[j] = t[i]
            BY <1>1, <5>1, CarriedIs
          <5>3. QED
            BY <5>2 DEF t
        <4>3. QED
          BY <4>1, <4>2
      <3>3. Carried(k)
        BY <1>4, <3>2
      <3>4. \A j \in DOMAIN inbox' : j + 0 = j
        BY <1>1 DEF Shape, InboxShape
      <3>5. QED
        BY <3>2, <3>3, <3>4 DEF Carried
    <2>3. QED
      BY <1>2, <2>1, <2>2
  <1>6. ASSUME NEW i \in DOMAIN inbox, NEW q, Before(i, q)
        PROVE  i \in DOMAIN inbox' /\ inbox'[i] = inbox[i] /\ Before(i, q)'
    <2>1. i > k /\ i - k = i
      BY <1>1, <1>4 DEF Shape, InboxShape
    <2>2. i - k \in DOMAIN inbox' /\ inbox'[i - k] = inbox[i] /\ Before(i - k, q)'
      BY <1>1, <1>5, <1>6, <2>1, CarriedBefore
    <2>3. QED
      BY <2>1, <2>2
  <1>7. \A q : Completed(q).type \in {"done", "lifecycle"} /\ Completed(q)' = Completed(q)
    BY DEF Completed, Private
  <1>8. NoticesMatch' /\ NoNotice' /\ FactSilent'
    BY <1>2, <1>5, <1>7 DEF InboxInv, NoticesMatch, NoNotice, FactSilent, Active, Completed
  <1>9. FactFirst' /\ ErrorFirst'
    BY <1>2, <1>3, <1>6 DEF InboxInv, FactFirst, ErrorFirst, Going, Private
  <1>10. FaultKeys' /\ ErrorKeys'
    <2>1. FaultKeys'
      BY <1>2, <1>3 DEF InboxInv, FaultKeys
    <2>2. ASSUME NEW j \in DOMAIN inbox', inbox'[j].type = "error", inbox'[j].keys # {}
          PROVE  /\ Declared(inbox[j].keys, j)'
                 /\ shutting' \/ state' = "ERROR" \/ ~Converging'
      BY <1>2, <1>3, <1>5, <1>6, <2>2 DEF InboxInv, ErrorKeys, Declared, Private, Key, Converging
    <2>3. QED
      BY <2>1, <2>2 DEF ErrorKeys
  <1>11. QED
    BY <1>8, <1>9, <1>10 DEF InboxInv

\* In every run of the manager the inbox tells in order what became of every task.
THEOREM InboxHolds == Spec => []InboxInv
  <1>1. Init => InboxInv
    BY DEF Init, InboxInv, NoticesMatch, NoNotice, FactSilent, FactFirst, ErrorFirst,
           FaultKeys, ErrorKeys
  <1>2. Known /\ Known' /\ InboxInv /\ [Next]_vars => InboxInv'
    <2> SUFFICES ASSUME Known, Known', InboxInv, [Next]_vars PROVE InboxInv'
      OBVIOUS
    <2>1. CASE UNCHANGED vars
      BY <2>1 DEF vars, manager, tasks, flags, InboxInv, NoticesMatch, NoNotice, FactSilent,
                  FactFirst, ErrorFirst, FaultKeys, ErrorKeys, Declared, Before, Completed,
                  Converging, Private, Active, Key, Going
    <2>2. CASE Dispatch
      BY <2>2, DispatchMatches, DispatchUnnoticed, DispatchSilent, DispatchFactFirst,
         DispatchErrorFirst, DispatchFaultKeys, DispatchErrorKeys DEF InboxInv
    <2>3. CASE Work \/ Recover \/ AckElapses \/ World
      BY <2>3, WorkInbox, OutsideInbox
    <2>4. QED
      BY <2>1, <2>2, <2>3 DEF Next
  <1>3. QED
    BY <1>1, <1>2, KnownHolds, PTL DEF Spec

\* The workers of this model raise only what they have published and name the backends
\* they lost; among them the manager's own bookkeeping never ends the dispatch task: no
\* second lifecycle operation is started, no thought without a ready conversation, and
\* no notice meets a record it does not fit.  One part of TurnIsSound.
LEMMA OwnChecksHold == Spec => []ChecksHold
  <1>1. Init => ChecksHold
    BY DEF Init, ChecksHold
  <1>2. Known /\ InboxInv /\ ChecksHold /\ [Next]_vars => ChecksHold'
    <2> SUFFICES ASSUME Known, InboxInv, ChecksHold, [Next]_vars PROVE ChecksHold'
      OBVIOUS
    <2>1. CASE Dispatch
      BY <2>1, DispatchChecks DEF ChecksHold
    <2>2. CASE UNCHANGED vars \/ Work \/ Recover \/ AckElapses \/ World
      <3>1. flow' = flow
        BY <2>2, WorkIs, OutsideKeeps, OutsideAdds DEF vars, Keep, Known, WorkOf
      <3>2. QED
        BY <3>1 DEF ChecksHold
    <2>3. QED
      BY <2>1, <2>2 DEF Next
  <1>3. QED
    BY <1>1, <1>2, KnownHolds, InboxHolds, PTL DEF Spec

-----------------------------------------------------------------------------
(* The microphone.  Where no message is ever taken, the session that there *)
(* is has begun by a wake, and so has the microphone.                      *)

NoMessages == /\ accepted = 0 /\ Present(buf) = {}
              /\ \A i \in DOMAIN inbox : inbox[i].type # "message"
Wakes == scenario.messages = 0 => NoMessages /\ (session.id # 0 => ~mic.held)
MicInv == Wakes /\ (mic.released => ~mic.held)

\* No operation of its owner puts a message into the buffer.
LEMMA Shrinks ==
    ASSUME NEW b, NEW s, NEW t
    PROVE  /\ Present(CloseRead(b, s, t)) \subseteq Present(b)
           /\ Present(BeginRead(b, s, t)) \subseteq Present(b)
           /\ Present(RestoreAfterRead(b, s, t)) \subseteq Present(b)
           /\ Present(Consume(b, s, t)) \subseteq Present(b)
           /\ Present(Flush(b)) \subseteq Present(b)
           /\ Present(EmptyBuffer) = {}
  <1>1. Present(CloseRead(b, s, t)) \subseteq Present(b)
    BY DEF Present, CloseRead, Matching
  <1>2. Present(BeginRead(b, s, t)) \subseteq Present(b)
    BY DEF Present, BeginRead
  <1>3. Present(Consume(b, s, t)) \subseteq Present(b)
    BY DEF Present, Consume, Absent
  <1>4. Present(Flush(b)) \subseteq Present(b)
    BY DEF Present, Flush, Absent
  <1>5. Present(EmptyBuffer) = {}
    BY DEF Present, EmptyBuffer, Absent
  <1>6. QED
    BY <1>1, <1>2, <1>3, <1>4, <1>5 DEF RestoreAfterRead

\* What the dispatch loop does to the messages and to the microphone.
LEMMA DispatchMessages ==
    ASSUME Dispatch
    PROVE  /\ accepted' = accepted
           /\ \/ Present(buf') \subseteq Present(buf)
              \/ HandleMessage /\ inbox # <<>> /\ Entry.type = "message"
  <1> DEFINE Good == /\ accepted' = accepted
                     /\ \/ Present(buf') \subseteq Present(buf)
                        \/ HandleMessage /\ inbox # <<>> /\ Entry.type = "message"
  <1>1. ASSUME UNCHANGED <<accepted, buf>> PROVE Good
    BY <1>1
  <1>2. ASSUME UNCHANGED world PROVE Good
    BY <1>2 DEF world
  <1>3. ASSUME NEW cause, Raise(cause) PROVE Good
    BY <1>2, <1>3 DEF Raise
  <1>4. ASSUME NEW s, NEW t, accepted' = accepted,
               buf' \in {buf, EmptyBuffer, CloseRead(buf, s, t), BeginRead(buf, s, t),
                         RestoreAfterRead(buf, s, t), Flush(CloseRead(buf, s, t)), Flush(buf)}
        PROVE  Good
    <2> DEFINE closed == CloseRead(buf, s, t)
    <2>4. Present(closed) \subseteq Present(buf)
      BY Shrinks
    <2> HIDE DEF closed
    <2>5. Present(Flush(closed)) \subseteq Present(closed)
      BY Shrinks
    <2>1. Present(Flush(CloseRead(buf, s, t))) \subseteq Present(buf)
      BY <2>4, <2>5 DEF closed
    <2>2. Present(EmptyBuffer) \subseteq Present(buf)
      BY Shrinks
    <2>3. QED
      BY <1>4, <2>1, <2>2, Shrinks
  <1> HIDE DEF Good
  <1>5. SUFFICES ASSUME TRUE PROVE Good
    BY DEF Good
  <1>6. CASE HandleMessage
    BY <1>2, <1>3, <1>6 DEF HandleMessage, Receive, Entry, Good
  <1>7. CASE HandleWake
    BY <1>1, <1>3, <1>7 DEF HandleWake
  <1>8. CASE \/ IgnoreItem \/ HandleUnknownMessage \/ HandleInterrupt \/ HandleAck \/ HandleFact
             \/ HandleDone \/ HandleOpened \/ HandleLifecycleFailed \/ HandleRecovered
             \/ HandlePlannedRecovery \/ HandleError \/ ShutdownCleanupFails
    BY <1>2, <1>3, <1>8 DEF IgnoreItem, HandleUnknownMessage, HandleInterrupt, HandleAck,
       HandleFact, HandleDone, HandleOpened, HandleLifecycleFailed, HandleRecovered,
       HandlePlannedRecovery, HandleError, ShutdownCleanupFails
  <1>9. CASE HandleRejected \/ HandleClosed
    BY <1>2, <1>3, <1>9 DEF HandleRejected, HandleClosed, NextConversation
  <1>10. CASE HandleShutdown
    BY <1>4, <1>10 DEF HandleShutdown
  <1>11. CASE \/ ProgressConverging \/ ProgressWaits \/ ProgressToPerception \/ ProgressThought
              \/ ProgressRest \/ ProgressEnd \/ ProgressReplace \/ ProgressKeep \/ ProgressStop
              \/ EnterThink \/ EnterAction \/ ConvergeAgain \/ LifecycleError
    BY <1>2, <1>3, <1>11 DEF ProgressConverging, ProgressWaits, ProgressToPerception,
       ProgressThought, ProgressRest, ProgressEnd, ProgressReplace, ProgressKeep, ProgressStop,
       EnterThink, EnterAction, ConvergeAgain, LifecycleError
  <1>12. ReadClosed \in {buf, CloseRead(buf, session.id, readOpen)}
    BY DEF ReadClosed
  <1>13. CASE ProgressHeard
    BY <1>4, <1>12, <1>13 DEF ProgressHeard
  <1>14. CASE EnterPerception
    BY <1>4, <1>14 DEF EnterPerception
  <1>15. BufferAfter \in {buf, RestoreAfterRead(buf, session.id, session.turn)}
    BY DEF BufferAfter
  <1>16. ASSUME NEW e \in Endured,
                Converge(e) \/ ConvergeToShutdown(e) \/ LifecycleErrorConverging(e)
         PROVE  Good
    BY <1>1, <1>3, <1>4, <1>15, <1>16 DEF Converge, ConvergeToShutdown, LifecycleErrorConverging
  <1>17. CASE FinishLater \/ FinishClose \/ FinishRecycle \/ FinishAnnounce
    BY <1>1, <1>2, <1>3, <1>17 DEF FinishLater, FinishClose, FinishRecycle, FinishAnnounce
  <1>18. CASE FinishStop
    BY <1>3, <1>4, <1>12, <1>18 DEF FinishStop
  <1>19. CASE FinishIdle
    <2>1. \/ buf' \in {EmptyBuffer, Flush(ReadClosed)} /\ accepted' = accepted
          \/ \E cause : Raise(cause)
      BY <1>19 DEF FinishIdle
    <2>2. QED
      BY <1>3, <1>4, <1>12, <2>1
  <1>20. QED
    BY <1>6, <1>7, <1>8, <1>9, <1>10, <1>11, <1>13, <1>14, <1>16, <1>17, <1>18, <1>19
    DEF Dispatch

\* Only a wake or a message begins a session.
LEMMA WokenBy ==
    ASSUME Dispatch, Begins
    PROVE  HandleWake \/ HandleMessage
  <1>1. flow.at = "receive" /\ state = "IDLE" /\ state' = "WAKE"
    BY DEF Begins, BeginSession
  <1>2. UNCHANGED manager \/ (\E cause : Raise(cause)) \/ state' = state \/ state' = "ERROR" => FALSE
    BY <1>1 DEF manager, Raise
  <1>3. CASE \/ IgnoreItem \/ HandleUnknownMessage \/ HandleInterrupt \/ HandleAck
             \/ HandleFact \/ HandleDone \/ HandleOpened \/ HandleRejected \/ HandleClosed
    BY <1>2, <1>3
    DEF IgnoreItem, HandleUnknownMessage, HandleInterrupt, HandleAck, HandleFact, HandleDone,
        HandleOpened, HandleRejected, HandleClosed, NextConversation
  <1>4. CASE \/ HandleLifecycleFailed \/ HandleRecovered \/ HandlePlannedRecovery
             \/ HandleError \/ HandleShutdown \/ ShutdownCleanupFails
    BY <1>2, <1>4
    DEF HandleLifecycleFailed, HandleRecovered, HandlePlannedRecovery, HandleError,
        HandleShutdown, ShutdownCleanupFails
  <1>5. CASE \/ ProgressConverging \/ ProgressWaits \/ ProgressToPerception \/ ProgressHeard
             \/ ProgressThought \/ ProgressRest \/ ProgressEnd \/ ProgressReplace
             \/ ProgressKeep \/ ProgressStop
    BY <1>1, <1>5
    DEF ProgressConverging, ProgressWaits, ProgressToPerception, ProgressHeard, ProgressThought,
        ProgressRest, ProgressEnd, ProgressReplace, ProgressKeep, ProgressStop, Acted,
        MayProgress, Progress
  <1>6. CASE \/ EnterPerception \/ EnterThink \/ EnterAction \/ ConvergeAgain \/ LifecycleError
             \/ \E e \in Endured : Converge(e) \/ ConvergeToShutdown(e) \/ LifecycleErrorConverging(e)
    BY <1>1, <1>6 DEF EnterPerception, EnterThink, EnterAction, ConvergeAgain, LifecycleError,
       Converge, ConvergeToShutdown, LifecycleErrorConverging
  <1>7. CASE FinishLater \/ FinishClose \/ FinishRecycle \/ FinishAnnounce \/ FinishStop \/ FinishIdle
    BY <1>1, <1>7 DEF FinishLater, FinishClose, FinishRecycle, FinishAnnounce, FinishStop,
       FinishIdle, FinishLast, FinishReady, Finishing
  <1>8. QED
    BY <1>3, <1>4, <1>5, <1>6, <1>7 DEF Dispatch

\* The dispatch loop keeps it.
LEMMA DispatchMic ==
    ASSUME Known, MicInv, Dispatch
    PROVE  MicInv'
  <1>1. Shape /\ ErrorConverges /\ Entering /\ Owned /\ Quiet /\ mic \in Microphone
    BY DEF Known, ReportsInv, SessionInv, Shape, WorldShape
  <1>2. scenario' = scenario
    BY GoesOn
  <1>3. ASSUME scenario.messages = 0 PROVE NoMessages'
    <2>1. NoMessages
      BY <1>3 DEF MicInv, Wakes
    <2>2. inbox # <<>> => Entry.type # "message"
      BY <1>1, <2>1 DEF NoMessages, Entry, Shape, InboxShape
    <2>3. accepted' = 0 /\ Present(buf') = {}
      BY <2>1, <2>2, DispatchMessages DEF NoMessages
    <2>4. ASSUME NEW j \in DOMAIN inbox', inbox'[j].type = "message" PROVE FALSE
      <3>1. (\E i \in DOMAIN inbox : inbox'[j] = inbox[i]) \/ New(inbox'[j])
        BY DispatchStep
      <3>2. New(inbox'[j])
        BY <2>1, <2>4, <3>1 DEF NoMessages
      <3>3. \A r : Completed(r).type # "message"
        BY DEF Completed
      <3>4. \E m : m \in Present(ReadClosed)
        BY <2>4, <3>2, <3>3 DEF New
      <3>5. Present(ReadClosed) \subseteq Present(buf)
        BY Shrinks DEF ReadClosed
      <3>6. QED
        BY <2>1, <3>4, <3>5 DEF NoMessages
    <2>5. QED
      BY <2>3, <2>4 DEF NoMessages
  <1>4. mic' = mic => (mic'.released => ~mic'.held)
    BY DEF MicInv
  <1>5. CASE ~Begins /\ ~FinishIdle
    <2>1. mic' = mic
      BY <1>1, <1>5, WindowMoves
    <2>2. session'.id # 0 => session.id # 0
      <3>1. NoContext.id = 0
        BY DEF NoContext
      <3>2. CASE FinishStop
        <4>1. session' = NoContext \/ session' = session
          BY <3>2, SessionOver DEF Raise, manager
        <4>2. QED
          BY <3>1, <4>1
      <3>3. QED
        BY <1>1, <1>5, <3>2, SessionStays DEF SessionKept
    <2>3. QED
      BY <1>2, <1>3, <1>4, <2>1, <2>2 DEF MicInv, Wakes
  <1>6. CASE FinishIdle
    <2>1. CASE \E cause : Raise(cause)
      <3>1. mic' = mic /\ session' = session
        BY <2>1 DEF Raise, manager, world
      <3>2. QED
        BY <1>2, <1>3, <1>4, <3>1 DEF MicInv, Wakes
    <2>2. CASE ~\E cause : Raise(cause)
      <3>1. session' = NoContext /\ mic' \in {mic, Resumed, [mic EXCEPT !.failed = TRUE]}
        BY <1>6, <2>2 DEF FinishIdle
      <3>2. session'.id = 0
        BY <3>1 DEF NoContext
      <3>3. mic'.released => ~mic'.held
        BY <1>1, <3>1 DEF Resumed, Microphone, MicInv
      <3>4. QED
        BY <1>2, <1>3, <3>2, <3>3 DEF MicInv, Wakes
    <2>3. QED
      BY <2>1, <2>2
  <1>7. CASE Begins
    <2>1. HandleWake \/ HandleMessage
      BY <1>7, WokenBy
    <2>2. CASE HandleMessage
      <3>1. inbox # <<>> /\ Entry.type = "message"
        BY <2>2 DEF HandleMessage, Receive, Entry
      <3>2. scenario.messages # 0
        BY <1>1, <3>1 DEF MicInv, Wakes, NoMessages, Entry, Shape, InboxShape
      <3>3. mic' = mic
        BY <2>2 DEF HandleMessage, Raise, world
      <3>4. QED
        BY <1>2, <1>4, <3>2, <3>3 DEF MicInv, Wakes
    <2>3. CASE HandleWake
      <3>1. mic' = Suspended \/ (UNCHANGED <<mic, session>>)
        BY <2>3 DEF HandleWake, Raise, world, manager
      <3>2. mic' = Suspended => ~mic'.held
        BY <1>1 DEF Suspended, Microphone, MicInv
      <3>3. QED
        BY <1>2, <1>3, <1>4, <3>1, <3>2 DEF MicInv, Wakes
    <2>4. QED
      BY <2>1, <2>2, <2>3
  <1>8. QED
    BY <1>5, <1>6, <1>7

\* A task that works puts no message into the buffer and none into the inbox.
LEMMA WorkMessages ==
    ASSUME Shape, Numbered, Work
    PROVE  /\ accepted' = accepted /\ Present(buf') \subseteq Present(buf)
           /\ \A j \in DOMAIN inbox' : inbox'[j].type = "message" =>
                 \E i \in DOMAIN inbox : inbox'[j] = inbox[i]
  <1> DEFINE Good == accepted' = accepted /\ Present(buf') \subseteq Present(buf)
  <1>1. ASSUME accepted' = accepted, buf' = buf PROVE Good
    BY <1>1
  <1>2. ASSUME NEW r, PublishRead(r) PROVE Good
    <2>1. accepted' = accepted /\ buf' \in {Consume(buf, r.sid, r.turn),
                                            RestoreAfterRead(buf, r.sid, r.turn)}
      BY <1>2 DEF PublishRead, Publish
    <2>2. QED
      BY <2>1, Shrinks
  <1> HIDE DEF Good
  <1>3. ASSUME NEW r, PublishHeard(r) \/ PublishThought(r) \/ PublishDone(r) PROVE Good
    BY <1>1, <1>3 DEF PublishHeard, PublishThought, PublishDone, Publish
  <1>4. ASSUME NEW r, \/ ReturnWorker(r) \/ OpenEnds(r) \/ CloseEnds(r)
                      \/ \E keys \in {{}, Key(r)} : FaultWorker(r, keys)
        PROVE  Good
    BY <1>1, <1>4 DEF ReturnWorker, OpenEnds, CloseEnds, FaultWorker, EndLifecycle, world
  <1>5. Good
    BY <1>2, <1>3, <1>4 DEF Work
  <1>6. ASSUME NEW j \in DOMAIN inbox', inbox'[j].type = "message"
        PROVE  \E i \in DOMAIN inbox : inbox'[j] = inbox[i]
    <2>1. PICK r \in inflight, task \in TaskStates, t \in Seq(Items) :
                WorkOf(r, task) /\ Says(r, task, t) /\ inbox' = inbox \o t
      BY WorkSays
    <2>2. \A i \in DOMAIN t : t[i].type # "message"
      <3>1. Completed(r).type # "message"
        BY DEF Completed
      <3>2. \A value : Fact(r, value).type # "message"
        BY DEF Fact
      <3>3. \A keys, asr : ErrorOccurred(keys, asr).type # "message"
        BY DEF ErrorOccurred
      <3>4. QED
        BY <2>1, <3>1, <3>2, <3>3 DEF Says
    <2>3. /\ Carried(0)
          /\ \A n \in DOMAIN inbox' : n > Len(inbox) => \E i \in DOMAIN t : inbox'[n] = t[i]
      BY <2>1, CarriedIs
    <2>4. CASE j > Len(inbox)
      BY <1>6, <2>2, <2>3, <2>4
    <2>5. CASE j + 0 \in DOMAIN inbox /\ inbox'[j] = inbox[j + 0]
      BY <2>5
    <2>6. j \in Nat
      BY <2>1 DEF Shape, InboxShape
    <2>7. QED
      BY <2>3, <2>4, <2>5, <2>6 DEF Carried
  <1>7. QED
    BY <1>5, <1>6 DEF Good

\* Steps outside the dispatch loop keep it.
LEMMA OutsideMic ==
    ASSUME Known, MicInv, Work \/ Recover \/ AckElapses \/ World
    PROVE  MicInv'
  <1>1. Shape /\ Numbered /\ accepted \in Nat
    BY DEF Known, Shape, WorldShape
  <1>2. UNCHANGED <<scenario, session, mic>>
    BY OutsideKeeps
  <1>3. ASSUME NoMessages, scenario.messages = 0 PROVE NoMessages'
    <2>1. CASE Work
      BY <1>1, <1>3, <2>1, WorkMessages DEF NoMessages
    <2>2. CASE Recover \/ AckElapses \/ World
      <3>1. ~Ingest
        BY <1>3 DEF Ingest, NoMessages
      <3>2. UNCHANGED <<accepted, buf>>
        BY <2>2, <3>1 DEF Recover, RecoveryEnds, AckElapses, World, Signalled, Input, EngineDies
      <3>3. ASSUME NEW x \in Items, inbox' = inbox \o <<x>>, x.type # "message"
            PROVE  \A j \in DOMAIN inbox' : inbox'[j].type # "message"
        <4>1. inbox \in Seq(Items)
          BY <1>1 DEF Shape, InboxShape
        <4>2. QED
          BY <1>3, <3>3, <4>1 DEF NoMessages
      <3>4. \A j \in DOMAIN inbox' : inbox'[j].type # "message"
        BY <1>1, <1>3, <2>2, <3>1, <3>3, OutsideAdds DEF NoMessages
      <3>5. QED
        BY <1>3, <3>2, <3>4 DEF NoMessages
    <2>3. QED
      BY <2>1, <2>2
  <1>4. QED
    BY <1>2, <1>3 DEF MicInv, Wakes

\* In every run of the manager that takes no message, a session there is has taken the
\* microphone from the wake listener.
THEOREM MicHolds == Spec => []MicInv
  <1>1. Init => MicInv
    BY Shrinks DEF Init, MicInv, Wakes, NoMessages, NoContext
  <1>2. Known /\ MicInv /\ [Next]_vars => MicInv'
    <2> SUFFICES ASSUME Known, MicInv, [Next]_vars PROVE MicInv'
      OBVIOUS
    <2>1. CASE UNCHANGED vars
      BY <2>1 DEF vars, manager, flags, world, MicInv, Wakes, NoMessages
    <2>2. CASE Dispatch
      BY <2>2, DispatchMic
    <2>3. CASE Work \/ Recover \/ AckElapses \/ World
      BY <2>3, OutsideMic
    <2>4. QED
      BY <2>1, <2>2, <2>3 DEF Next
  <1>3. QED
    BY <1>1, <1>2, KnownHolds, PTL DEF Spec

\* The microphone has one owner, in every run that takes no message.
THEOREM OneOwner == Spec => [](scenario.messages = 0 => OneMicOwner)
  <1>1. Known /\ MicInv => (scenario.messages = 0 => OneMicOwner)
    BY DEF Known, SessionInv, Owned, MicInv, Wakes, OneMicOwner
  <1>2. QED
    BY <1>1, KnownHolds, MicHolds, PTL

-----------------------------------------------------------------------------
(* Turns and conversations are counted.  The answers that go on are given  *)
(* only where the bounds leave a turn, and those that replace the          *)
(* conversation where they leave another one.                              *)

MoreConversations == session.gen < MaxGeneration
Unheard == {<<"listen", "silent">>, <<"listen", "several">>}
Reopened == /\ session.done = "none" /\ session.aphase = "none" /\ session.conv # "closing"
            /\ flow.at # "action" /\ \A r \in inflight : Private(r)
WakeLeft == state = "WAKE" => session.turn = 0
PerceptionLeft ==
    /\ flow.at = "perception" => MoreTurns
    /\ state = "PERCEPTION" /\ session.results \cap Unheard # {} => MoreTurns
    /\ state = "PERCEPTION" /\ flow.at # "perception" => session.resp = NoResponse
ThinkLeft == state = "THINK" /\ session.resp # NoResponse => Admissible(session.resp)
ActionLeft == state = "ACTION" =>
    /\ session.route \in {"KEEP_NEXT", "REPLACE_NEXT"} => MoreTurns
    /\ session.route = "REPLACE_NEXT" /\ ~Converging => MoreConversations \/ Reopened
RejectedLeft == \A r \in inflight : r.task = "rejected" => MoreConversations
FactsLeft ==
    \A i \in DOMAIN inbox : inbox[i].type = "fact" =>
        \A r \in inflight : r.cid = inbox[i].cid =>
            /\ r.phase = "perception" /\ inbox[i].value \in {"silent", "several"} => MoreTurns
            /\ r.phase = "think" => Admissible(inbox[i].value)
Counted == session.turn \in 0 .. MaxTurn /\ session.gen \in 0 .. MaxGeneration
CountsInv == /\ WakeLeft /\ PerceptionLeft /\ ThinkLeft /\ ActionLeft
             /\ RejectedLeft /\ FactsLeft /\ Counted

\* The method that follows is that of the state entered.
LEMMA Entrances ==
    ASSUME Shape, Dispatch
    PROVE  /\ flow'.at = "perception" => ProgressToPerception \/ ProgressKeep
           /\ flow'.at = "action" => ProgressHeard \/ ProgressThought
           /\ flow.at = "perception" => EnterPerception
  <1> DEFINE Good == /\ flow'.at = "perception" => ProgressToPerception \/ ProgressKeep
                     /\ flow'.at = "action" => ProgressHeard \/ ProgressThought
                     /\ flow.at = "perception" => EnterPerception
  <1>1. ASSUME flow.at \notin {"perception", "stopped", "dead"}, Return PROVE Good
    BY <1>1, Returns DEF Shape
  <1>2. ASSUME flow.at # "perception", NEW cause, Raise(cause) PROVE Good
    BY <1>2 DEF Raise
  <1>3. ASSUME flow.at # "perception", NEW method, NEW why, Call(method, why),
               method \notin {"perception", "action"}
        PROVE  Good
    BY <1>3 DEF Call
  <1>4. CASE EnterPerception
    BY <1>4, Returns DEF EnterPerception, Call, Shape
  <1>5. CASE ProgressToPerception \/ ProgressKeep
    BY <1>5 DEF ProgressToPerception, ProgressKeep, Acted, MayProgress, Progress, Call
  <1>6. CASE ProgressHeard \/ ProgressThought
    BY <1>6 DEF ProgressHeard, ProgressThought, MayProgress, Progress, Call
  <1> HIDE DEF Good
  <1>7. SUFFICES ASSUME TRUE PROVE Good
    BY <1>4, <1>5, <1>6 DEF Good
  <1>8. CASE \/ IgnoreItem \/ HandleWake \/ HandleMessage \/ HandleUnknownMessage
             \/ HandleInterrupt \/ HandleAck \/ HandleFact \/ HandleDone
    BY <1>1, <1>2, <1>3, <1>8 DEF IgnoreItem, HandleWake, HandleMessage, HandleUnknownMessage,
       HandleInterrupt, HandleAck, HandleFact, HandleDone, BeginSession, Receive
  <1>9. CASE \/ HandleOpened \/ HandleRejected \/ HandleClosed \/ HandleLifecycleFailed
             \/ HandleRecovered \/ HandlePlannedRecovery \/ HandleError \/ HandleShutdown
             \/ ShutdownCleanupFails
    BY <1>1, <1>2, <1>3, <1>9 DEF HandleOpened, HandleRejected, HandleClosed,
       HandleLifecycleFailed, HandleRecovered, HandlePlannedRecovery, HandleError,
       HandleShutdown, ShutdownCleanupFails, NextConversation, Receive
  <1>10. CASE ProgressConverging \/ ProgressWaits \/ ProgressRest \/ ProgressEnd \/ ProgressReplace
    BY <1>1, <1>3, <1>10 DEF ProgressConverging, ProgressWaits, ProgressRest, ProgressEnd,
       ProgressReplace, Acted, MayProgress, Progress
  <1>11. CASE ProgressStop
    BY <1>2, <1>11 DEF ProgressStop, Good
  <1>12. CASE EnterThink \/ EnterAction \/ ConvergeAgain \/ LifecycleError
    BY <1>1, <1>2, <1>3, <1>12 DEF EnterThink, EnterAction, ConvergeAgain, LifecycleError
  <1>13. ASSUME NEW e \in Endured,
                Converge(e) \/ ConvergeToShutdown(e) \/ LifecycleErrorConverging(e)
         PROVE  Good
    BY <1>1, <1>2, <1>3, <1>13 DEF Converge, ConvergeToShutdown, LifecycleErrorConverging
  <1>14. CASE FinishLater \/ FinishClose \/ FinishRecycle \/ FinishAnnounce \/ FinishIdle
    BY <1>1, <1>2, <1>3, <1>14 DEF FinishLater, FinishClose, FinishRecycle, FinishAnnounce,
       FinishIdle, FinishLast, FinishReady, Finishing
  <1>15. CASE FinishStop
    <2>1. flow.at = "finish" /\ (flow'.at \in {"progress", "stopped"} \/ \E cause : Raise(cause))
      BY <1>15 DEF FinishStop, FinishLast, FinishReady, Finishing
    <2>2. QED
      BY <1>2, <2>1 DEF Good
  <1>16. QED
    BY <1>4, <1>5, <1>6, <1>8, <1>9, <1>10, <1>11, <1>12, <1>13, <1>14, <1>15 DEF Dispatch, Good

\* How the numbers of the turn and the conversation change.
LEMMA CountsMove ==
    ASSUME Known, Dispatch
    PROVE  \/ session'.turn = session.turn /\ session'.gen = session.gen
           \/ EnterPerception /\ session'.turn = session.turn + 1 /\ session'.gen = session.gen
              /\ \A r \in inflight' : Anew(r)
           \/ Reopens /\ session'.turn = session.turn /\ session'.gen = session.gen + 1
              /\ \A r \in inflight' : r.task = "running" /\ r.phase = "open"
           \/ Begins /\ session'.turn = 0 /\ session'.gen = 1 /\ \A r \in inflight' : Anew(r)
           \/ session' = NoContext /\ inflight' = {}
  <1>1. /\ Shape /\ Numbered /\ RecoveryInv /\ ErrorConverges /\ Entering /\ Quiet /\ Owned
        /\ Alone /\ Opens /\ Closes /\ Fits
    BY DEF Known, ReportsInv, SessionInv, ConversationInv, RecoveryInv
  <1>2. inflight = {} => \A r \in inflight' : Anew(r)
    BY <1>1, Origins
  <1>3. CASE FinishStop \/ FinishIdle
    <2>1. session' = session \/ (session' = NoContext /\ inflight' = {})
      BY <1>3, SessionOver DEF Raise, manager
    <2>2. QED
      BY <2>1
  <1>4. CASE Begins
    BY <1>1, <1>2, <1>4, Begun DEF Begins, Quiet
  <1>5. CASE EnterPerception
    <2>1. session' = [session EXCEPT !.turn = NextTurn, !.results = {}, !.resp = NoResponse,
                                     !.done = "none"]
      BY <1>5 DEF EnterPerception
    <2>2. session'.turn = session.turn + 1 /\ session'.gen = session.gen
      BY <1>1, <2>1 DEF Shape, ManagerShape, Context, NextTurn
    <2>3. inflight = {}
      BY <1>1, <1>5 DEF EnterPerception, Entering
    <2>4. QED
      BY <1>2, <1>5, <2>2, <2>3
  <1>6. CASE ~FinishStop /\ ~FinishIdle /\ ~Begins /\ ~EnterPerception
    <2>1. session'.turn = session.turn
      BY <1>1, <1>6, SessionStays DEF SessionKept
    <2>2. CASE Reopens
      BY <1>1, <2>1, <2>2, ReopenIs
    <2>3. CASE ~Reopens
      <3>1. CASE HandleFact
        BY <1>1, <2>1, <3>1, FactHandled
      <3>2. CASE Steps
        BY <1>1, <2>1, <3>2, StepsKeep DEF ConversationKept
      <3>3. session \in Context
        BY <1>1 DEF Shape, ManagerShape
      <3>4. CASE FinishClose
        <4>1. session' = [session EXCEPT !.conv = "closing", !.blocked = TRUE]
          BY <3>4 DEF FinishClose
        <4>2. QED
          BY <2>1, <3>3, <4>1 DEF Context
      <3>5. CASE session' \in {session, [session EXCEPT !.blocked = TRUE],
                               [session EXCEPT !.ack = TRUE], Opened,
                               [session EXCEPT !.conv = "none"]}
        BY <2>1, <3>3, <3>5 DEF Context, Opened
      <3>6. QED
        BY <1>1, <1>6, <2>3, <3>1, <3>2, <3>4, <3>5, SessionMoves
    <2>4. QED
      BY <2>2, <2>3
  <1>7. QED
    BY <1>3, <1>4, <1>5, <1>6

\* What the steps of progress and of entering a state do to the answer and to what
\* follows from it.
LEMMA StepsLead ==
    ASSUME Shape, Steps
    PROVE  /\ EnterPerception => /\ session'.results = {} /\ session'.resp = NoResponse
                                 /\ state' \in {state, "ERROR"}
           /\ EnterThink => session'.resp = session.resp
           /\ ProgressToPerception \/ ProgressKeep => state' = "PERCEPTION"
                                                      /\ flow'.at = "perception"
           /\ ProgressHeard /\ state' = "THINK" => session'.resp = session.resp
           /\ ProgressHeard /\ state' = "ACTION" =>
                 /\ session'.route \in {"KEEP_NEXT", "END_SESSION"}
                 /\ session.results \cap Unheard # {}
           /\ ProgressThought /\ state' = "ACTION" => session'.route = session.resp.route
           /\ ProgressRest \/ ProgressEnd \/ ProgressReplace =>
                 session'.route = session.route /\ session.done # "none"
           /\ EnterAction => session'.route = session.route /\ flow.at = "action"
  <1>1. session \in Context
    BY DEF Shape, ManagerShape
  <1>2. AfterAction \in Context /\ AfterAction.route = session.route
    BY <1>1 DEF AfterAction, Context, Outcomes
  <1>3. ASSUME EnterPerception
        PROVE  /\ session'.results = {} /\ session'.resp = NoResponse
               /\ state' \in {state, "ERROR"}
    <2>1. session' = [session EXCEPT !.turn = NextTurn, !.results = {}, !.resp = NoResponse,
                                     !.done = "none"] /\ state' \in {state, "ERROR"}
      BY <1>3 DEF EnterPerception
    <2>2. QED
      BY <1>1, <2>1 DEF Context
  <1>4. ASSUME EnterThink PROVE session'.resp = session.resp
    <2>1. session' \in {session, [session EXCEPT !.results = {}]}
      BY <1>4 DEF EnterThink, Raise, manager
    <2>2. QED
      BY <1>1, <2>1 DEF Context
  <1>5. ASSUME ProgressToPerception \/ ProgressKeep
        PROVE  state' = "PERCEPTION" /\ flow'.at = "perception"
    BY <1>5 DEF ProgressToPerception, ProgressKeep, Call
  <1>6. ASSUME ProgressHeard, state' = "THINK" PROVE session'.resp = session.resp
    <2>1. session' \in {session, [session EXCEPT !.streak = 0]}
      BY <1>6 DEF ProgressHeard
    <2>2. QED
      BY <1>1, <2>1 DEF Context
  <1>7. ASSUME ProgressHeard, state' = "ACTION"
        PROVE  /\ session'.route \in {"KEEP_NEXT", "END_SESSION"}
               /\ session.results \cap Unheard # {}
    <2> DEFINE silent == <<"listen", "silent">> \in session.results
               answer == LocalAnswer(IF silent THEN "silent" ELSE "several", session.streak)
    <2>1. /\ Locally
          /\ session' = [session EXCEPT !.resp = answer, !.route = answer.route,
                             !.next = answer.next, !.streak = IF silent THEN @ + 1 ELSE @]
      BY <1>7 DEF ProgressHeard
    <2>2. answer.route \in {"KEEP_NEXT", "END_SESSION"}
      BY DEF LocalAnswer
    <2> HIDE DEF answer, silent
    <2>3. \E x, y, z : session' = [session EXCEPT !.resp = x, !.route = answer.route,
                                       !.next = y, !.streak = z]
      BY <2>1
    <2>4. QED
      BY <1>1, <2>1, <2>2, <2>3 DEF Context, Locally, Unheard
  <1>8. ASSUME ProgressThought, state' = "ACTION" PROVE session'.route = session.resp.route
    <2>1. \E y : session' = [session EXCEPT !.route = session.resp.route, !.next = y]
      BY <1>8 DEF ProgressThought
    <2>2. QED
      BY <1>1, <2>1 DEF Context
  <1>9. ASSUME ProgressRest \/ ProgressEnd \/ ProgressReplace
        PROVE  session'.route = session.route /\ session.done # "none"
    <2>1. /\ session.done # "none"
          /\ \/ session' = AfterAction
             \/ \E y : session' = [AfterAction EXCEPT !.aphase = "post_action_rest", !.resp = y]
             \/ session' = [AfterAction EXCEPT !.sel = Selected, !.blocked = TRUE,
                                               !.conv = "closing"]
      BY <1>9 DEF ProgressRest, ProgressEnd, ProgressReplace, Acted
    <2>2. QED
      BY <1>2, <2>1 DEF Context
  <1>10. ASSUME EnterAction PROVE session'.route = session.route /\ flow.at = "action"
    BY <1>1, <1>10 DEF EnterAction, Context
  <1>11. QED
    BY <1>3, <1>4, <1>5, <1>6, <1>7, <1>8, <1>9, <1>10

\* Where each of those steps is taken.
LEMMA StepsFrom ==
    ASSUME Known, Steps
    PROVE  /\ inflight = {}
           /\ state = "PERCEPTION" => EnterPerception \/ ProgressHeard
           /\ state = "THINK" => EnterThink \/ ProgressThought
           /\ state = "ACTION" => \/ ProgressToPerception /\ session.route = "REPLACE_NEXT"
                                  \/ ProgressRest \/ ProgressEnd \/ ProgressReplace
                                  \/ ProgressKeep /\ session.route = "KEEP_NEXT"
                                  \/ EnterAction
           /\ ProgressToPerception /\ state # "ACTION" => state = "WAKE"
           /\ ProgressHeard => flow.at # "perception"
  <1>1. Entering
    BY DEF Known, SessionInv
  <1>2. CASE EnterPerception \/ EnterThink \/ EnterAction
    BY <1>1, <1>2 DEF Entering, EnterPerception, EnterThink, EnterAction, ProgressHeard,
       ProgressToPerception, MayProgress, Progress
  <1>3. CASE ProgressToPerception
    BY <1>3 DEF ProgressToPerception, MayProgress, Replaced, ProgressHeard, Progress
  <1>4. CASE ProgressHeard
    BY <1>4 DEF ProgressHeard, MayProgress, Heard, Progress, ProgressToPerception
  <1>5. CASE ProgressThought
    BY <1>5 DEF ProgressThought, MayProgress, ProgressHeard, Heard, ProgressToPerception
  <1>6. CASE ProgressRest \/ ProgressEnd \/ ProgressReplace \/ ProgressKeep
    BY <1>6 DEF ProgressRest, ProgressEnd, ProgressReplace, ProgressKeep, Acted, MayProgress,
       ProgressHeard, Heard, ProgressToPerception
  <1>7. QED
    BY <1>2, <1>3, <1>4, <1>5, <1>6 DEF Steps

\* Every other step leaves the answer alone, or a fact gives it, or the conversation
\* or the session is another one.
LEMMA FieldsMove ==
    ASSUME Known, Dispatch
    PROVE  \/ HandleFact \/ Steps \/ Reopens \/ Begins
           \/ session' = NoContext
           \/ /\ session'.results = session.results /\ session'.resp = session.resp
              /\ session'.route = session.route /\ session'.done = session.done
              /\ session'.aphase = session.aphase
              /\ session'.conv = "closing" => session.conv = "closing" \/ Converging'
  <1>1. Shape /\ ErrorConverges /\ Entering /\ session \in Context
    BY DEF Known, ReportsInv, SessionInv, Shape, ManagerShape
  <1>2. CASE FinishStop \/ FinishIdle
    BY <1>2, SessionOver DEF Raise, manager
  <1>3. CASE FinishClose
    <2>1. /\ session' = [session EXCEPT !.conv = "closing", !.blocked = TRUE]
          /\ pending' = [pending EXCEPT !.phase = "conversation_close"]
      BY <1>3 DEF FinishClose
    <2>2. pending \in Pending
      BY <1>1 DEF Shape, ManagerShape
    <2>3. pending'.phase = "conversation_close"
      BY <2>1, <2>2 DEF Pending
    <2>4. Converging'
      BY <2>3 DEF Converging, NotPending
    <2>5. QED
      BY <1>1, <2>1, <2>4 DEF Context
  <1>4. ASSUME \/ session' = [session EXCEPT !.blocked = TRUE]
               \/ session' = [session EXCEPT !.ack = TRUE]
               \/ session' = Opened
               \/ session' = [session EXCEPT !.conv = "none"]
        PROVE  /\ session'.results = session.results /\ session'.resp = session.resp
               /\ session'.route = session.route /\ session'.done = session.done
               /\ session'.aphase = session.aphase
               /\ session'.conv = "closing" => session.conv = "closing"
    BY <1>1, <1>4 DEF Context, Opened
  <1>5. QED
    BY <1>1, <1>2, <1>3, <1>4, SessionMoves

\* A fact that is handled was published where the bounds left a turn; it tells of the
\* task of the state.
LEMMA FactLeft ==
    ASSUME Known, FactsLeft, HandleFact
    PROVE  /\ session'.turn = session.turn /\ session'.gen = session.gen
           /\ session'.route = session.route /\ state' = state /\ flow.at = "receive"
           /\ state = "PERCEPTION" =>
                 /\ session'.resp = session.resp
                 /\ session'.results \cap Unheard # {} =>
                       session.results \cap Unheard # {} \/ MoreTurns
           /\ state = "THINK" => Admissible(session'.resp)
           /\ state = "ACTION" => \E r \in inflight : ~Private(r)
  <1> DEFINE q == The(Entry.cid)
  <1>1. Shape /\ Numbered /\ session \in Context
    BY DEF Known, Shape, ManagerShape
  <1>2. /\ q \in inflight /\ ~Private(q) /\ StateOf(q.phase) = state /\ flow.at = "receive"
        /\ session'.gen = session.gen /\ session'.route = session.route /\ state' = state
    BY <1>1, FactHandled
  <1>3. /\ Has(Entry.cid) /\ inbox # <<>> /\ Entry.type = "fact"
    BY <1>1, Admitted DEF HandleFact, Receive, Entry
  <1>4. q.cid = Entry.cid
    BY <1>3 DEF Has, The
  <1>5. 1 \in DOMAIN inbox /\ inbox[1] = Entry
    BY <1>1, <1>3, Taken DEF Shape, InboxShape, Entry
  <1>6. /\ q.phase = "perception" /\ Entry.value \in {"silent", "several"} => MoreTurns
        /\ q.phase = "think" => Admissible(Entry.value)
    BY <1>2, <1>3, <1>4, <1>5 DEF FactsLeft
  <1>7. session' = CASE q.phase = "perception" ->
                          [session EXCEPT !.results = @ \cup {<<q.kind, Entry.value>>}]
                     [] q.phase = "think" -> [session EXCEPT !.resp = Entry.value]
                     [] q.phase = "error_notice" -> session
                     [] OTHER -> [session EXCEPT !.done = Entry.value]
    BY DEF HandleFact
  <1> HIDE DEF q
  <1>8. session'.turn = session.turn
    BY <1>1, <1>7 DEF Context
  <1>9. ASSUME state = "PERCEPTION"
        PROVE  /\ session'.resp = session.resp
               /\ session'.results \cap Unheard # {} =>
                     session.results \cap Unheard # {} \/ MoreTurns
    <2>1. q.phase = "perception"
      BY <1>2, <1>9 DEF StateOf
    <2>2. /\ session'.resp = session.resp
          /\ session'.results = session.results \cup {<<q.kind, Entry.value>>}
      BY <1>1, <1>7, <2>1 DEF Context
    <2>3. <<q.kind, Entry.value>> \in Unheard => Entry.value \in {"silent", "several"}
      BY DEF Unheard
    <2>4. QED
      BY <1>6, <2>1, <2>2, <2>3
  <1>10. ASSUME state = "THINK" PROVE Admissible(session'.resp)
    <2>1. q.phase = "think"
      BY <1>2, <1>10 DEF StateOf
    <2>2. session'.resp = Entry.value
      BY <1>1, <1>7, <2>1 DEF Context
    <2>3. QED
      BY <1>6, <2>1, <2>2
  <1>11. QED
    BY <1>2, <1>8, <1>9, <1>10

\* The number of the turn is 0 until the first turn.
LEMMA DispatchWakes ==
    ASSUME Known, CountsInv, Dispatch
    PROVE  WakeLeft'
  <1> SUFFICES ASSUME state' = "WAKE" PROVE session'.turn = 0
    BY DEF WakeLeft
  <1>1. Shape /\ ErrorConverges /\ Entering
    BY DEF Known, ReportsInv, SessionInv
  <1>2. CASE Begins
    BY <1>1, <1>2, Begun
  <1>3. CASE ~Begins
    <2>1. state = "WAKE"
      BY <1>1, <1>3, StateMoves, SessionOver DEF Raise, manager
    <2>2. session.turn = 0
      BY <2>1 DEF CountsInv, WakeLeft
    <2>3. ~EnterPerception
      BY <1>1, <2>1 DEF EnterPerception, Entering
    <2>4. QED
      BY <1>3, <2>2, <2>3, CountsMove DEF NoContext
  <1>4. QED
    BY <1>2, <1>3

\* A conversation that is opened again is within the bound.
LEMMA ReopenLeft ==
    ASSUME Known, CountsInv, Reopens
    PROVE  MoreConversations
  <1> DEFINE q == The(Entry.cid)
  <1>1. /\ Shape /\ Numbered /\ Fits /\ ErrorConverges /\ Closes
    BY DEF Known, RecoveryInv, ReportsInv, ConversationInv
  <1>2. q \in inflight /\ ~Converging
    BY DEF Reopens, Has, The
  <1>3. CASE HandleRejected
    BY <1>2, <1>3 DEF HandleRejected, CountsInv, RejectedLeft
  <1>4. CASE HandleClosed
    <2>1. q.task = "closed" /\ flow.at = "receive"
      BY <1>4 DEF HandleClosed, Receive
    <2>2. q.phase = "close"
      BY <1>1, <1>2, <2>1 DEF Fits
    <2>3. session.conv = "closing" /\ Replacing
      BY <1>1, <1>2, <2>1, <2>2 DEF Closes, ErrorConverges
    <2>4. QED
      BY <1>2, <2>3 DEF CountsInv, ActionLeft, Replacing, Reopened
  <1>5. QED
    BY <1>3, <1>4 DEF Reopens

\* The numbers stay within their bounds.
LEMMA DispatchCounted ==
    ASSUME Known, CountsInv, Dispatch
    PROVE  Counted'
  <1>1. session.turn \in 0 .. MaxTurn /\ session.gen \in 0 .. MaxGeneration
    BY DEF CountsInv, Counted
  <1>2. MaxTurn \in Nat /\ MaxGeneration \in Nat \ {0}
    BY OpsAssumption, ManagerAssumption
  <1>3. ASSUME EnterPerception PROVE session.turn < MaxTurn
    BY <1>3 DEF EnterPerception, CountsInv, PerceptionLeft, MoreTurns
  <1>4. ASSUME Reopens PROVE session.gen < MaxGeneration
    BY <1>4, ReopenLeft DEF MoreConversations
  <1>5. session' = NoContext => session'.turn = 0 /\ session'.gen = 0
    BY DEF NoContext
  <1>6. /\ session'.turn \in {session.turn, 0} \/ (session'.turn = session.turn + 1 /\ EnterPerception)
        /\ session'.gen \in {session.gen, 0, 1} \/ (session'.gen = session.gen + 1 /\ Reopens)
    BY <1>5, CountsMove
  <1>7. QED
    BY <1>1, <1>2, <1>3, <1>4, <1>6 DEF Counted

\* A conversation is rejected where another one is left.
LEMMA DispatchRejected ==
    ASSUME Known, CountsInv, Dispatch
    PROVE  RejectedLeft'
  <1> SUFFICES ASSUME NEW r \in inflight', r.task = "rejected" PROVE MoreConversations'
    BY DEF RejectedLeft
  <1>1. ~Anew(r)
    BY DEF Anew
  <1>2. PICK q \in inflight : Descends(r, q)
    BY <1>1, DispatchStep
  <1>3. q.task = "rejected"
    BY <1>2 DEF Descends
  <1>4. session.gen < MaxGeneration
    BY <1>3 DEF CountsInv, RejectedLeft, MoreConversations
  <1>5. session'.gen = session.gen
    BY <1>1, CountsMove
  <1>6. QED
    BY <1>4, <1>5 DEF MoreConversations

\* What is published tells of a turn that may go on.
LEMMA DispatchFactsLeft ==
    ASSUME Known, Known', CountsInv, Dispatch
    PROVE  FactsLeft'
  <1> SUFFICES ASSUME NEW j \in DOMAIN inbox', inbox'[j].type = "fact",
                      NEW r \in inflight', r.cid = inbox'[j].cid
               PROVE  /\ r.phase = "perception" /\ inbox'[j].value \in {"silent", "several"}
                            => MoreTurns'
                      /\ r.phase = "think" =>
                            /\ inbox'[j].value.route # "END_SESSION" => MoreTurns'
                            /\ inbox'[j].value.route = "REPLACE_NEXT" => MoreConversations'
    BY DEF FactsLeft, Admissible, MoreConversations
  <1>1. ~New(inbox'[j])
    BY DEF New, Completed, MessageArrived
  <1>2. PICK i \in DOMAIN inbox : inbox'[j] = inbox[i]
    BY <1>1, DispatchStep
  <1>3. inbox[i].cid \in 1 .. cids /\ cids \in Nat
    BY <1>2 DEF Known, Numbered, Shape, TasksShape
  <1>4. ~Anew(r)
    BY <1>2, <1>3 DEF Anew
  <1>5. PICK q \in inflight : Descends(r, q)
    BY <1>4, DispatchStep
  <1>6. q.cid = inbox[i].cid /\ r.phase = q.phase
    BY <1>2, <1>5 DEF Descends
  <1>7. /\ r.phase = "perception" /\ inbox[i].value \in {"silent", "several"} => MoreTurns
        /\ r.phase = "think" => Admissible(inbox[i].value)
    BY <1>2, <1>6 DEF CountsInv, FactsLeft
  <1>8. session'.turn = session.turn /\ (session'.gen = session.gen \/ r.phase = "open")
    BY <1>4, CountsMove
  <1>9. QED
    BY <1>2, <1>7, <1>8 DEF MoreTurns, MoreConversations, Admissible

\* The reasoner has answered as far as the bounds leave a turn.
LEMMA DispatchThinks ==
    ASSUME Known, CountsInv, Dispatch
    PROVE  ThinkLeft'
  <1> SUFFICES ASSUME state' = "THINK", session'.resp # NoResponse
               PROVE  Admissible(session.resp)' \/ (Admissible(session'.resp) /\
                      session'.turn = session.turn /\ session'.gen = session.gen)
    BY DEF ThinkLeft, Admissible, MoreTurns
  <1>1. Shape /\ ErrorConverges /\ Entering
    BY DEF Known, ReportsInv, SessionInv
  <1>2. session' # NoContext
    BY DEF NoContext
  <1>3. state = "THINK" \/ ProgressHeard
    BY <1>1, StateMoves, SessionOver, Begun DEF Raise, manager
  <1>4. CASE HandleFact
    BY <1>4, FactLeft DEF CountsInv
  <1>5. CASE Steps
    <2>1. state = "THINK" /\ EnterThink
      <3>1. CASE ProgressHeard
        <4>1. session'.resp = session.resp /\ flow.at # "perception"
          BY <1>1, <1>5, <3>1, StepsLead, StepsFrom
        <4>2. state = "PERCEPTION"
          BY <3>1 DEF ProgressHeard, Heard
        <4>3. QED
          BY <4>1, <4>2 DEF CountsInv, PerceptionLeft
      <3>2. CASE ProgressThought
        BY <3>2 DEF ProgressThought
      <3>3. QED
        BY <1>3, <1>5, <3>1, <3>2, StepsFrom
    <2>2. session'.resp = session.resp
      BY <1>1, <1>5, <2>1, StepsLead
    <2>3. Admissible(session.resp)
      BY <2>1, <2>2 DEF CountsInv, ThinkLeft
    <2>4. ~EnterPerception /\ ~Reopens /\ ~Begins
      BY <2>1 DEF EnterPerception, Reopens, Begins, HandleRejected, HandleClosed, Receive,
         EnterThink
    <2>5. QED
      BY <1>2, <2>2, <2>3, <2>4, CountsMove
  <1>6. CASE ~HandleFact /\ ~Steps
    <2>1. state = "THINK"
      BY <1>3, <1>6 DEF Steps
    <2>2. ~Begins /\ ~EnterPerception
      BY <1>6, <2>1 DEF Begins, Steps
    <2>3. ~Reopens
      BY <1>1, <2>1, ReopenIs DEF Known, RecoveryInv, ConversationInv, Replacing
    <2>4. session'.resp = session.resp
      BY <1>2, <1>6, <2>2, <2>3, FieldsMove
    <2>5. Admissible(session.resp)
      BY <2>1, <2>4 DEF CountsInv, ThinkLeft
    <2>6. QED
      BY <1>2, <2>2, <2>3, <2>4, <2>5, CountsMove
  <1>7. QED
    BY <1>4, <1>5, <1>6

\* A turn begins, and goes on after it heard nothing, where the bound leaves another.
LEMMA DispatchPerceives ==
    ASSUME Known, CountsInv, Dispatch
    PROVE  PerceptionLeft'
  <1>1. Shape /\ ErrorConverges /\ Entering /\ session \in Context
    BY DEF Known, ReportsInv, SessionInv, Shape, ManagerShape
  <1>2. MaxTurn > 0
    BY ManagerAssumption
  <1>3. ASSUME ProgressToPerception \/ ProgressKeep
        PROVE  session'.turn = session.turn /\ session.turn < MaxTurn
               /\ flow'.at = "perception"
    <2>1. Steps
      BY <1>3 DEF Steps
    <2>2. flow'.at = "perception"
      BY <1>1, <1>3, <2>1, StepsLead
    <2>3. session'.turn = session.turn
      <3>1. AfterAction \in Context /\ AfterAction.turn = session.turn
        BY <1>1 DEF AfterAction, Context, Outcomes
      <3>2. \/ session' \in {session, [session EXCEPT !.route = "none"]}
            \/ session' = [AfterAction EXCEPT !.sel = Selected]
        BY <1>3 DEF ProgressToPerception, ProgressKeep
      <3>3. QED
        BY <1>1, <3>1, <3>2 DEF Context
    <2>4. state = "WAKE" \/ (state = "ACTION" /\ session.route \in {"KEEP_NEXT", "REPLACE_NEXT"})
      BY <1>3 DEF ProgressToPerception, ProgressKeep, Acted, Replaced
    <2>5. session.turn < MaxTurn
      BY <1>2, <2>4 DEF CountsInv, WakeLeft, ActionLeft, MoreTurns
    <2>6. QED
      BY <2>2, <2>3, <2>5
  <1>4. flow'.at = "perception" => MoreTurns'
    BY <1>1, <1>3, Entrances DEF MoreTurns
  <1>5. ASSUME state' = "PERCEPTION", flow'.at # "perception"
        PROVE  /\ session'.results \cap Unheard # {} => MoreTurns'
               /\ session'.resp = NoResponse
    <2>1. state = "PERCEPTION"
      BY <1>1, <1>3, <1>5, StateMoves, SessionOver, Begun DEF Raise, manager
    <2>2. CASE EnterPerception
      BY <1>1, <2>2, StepsLead DEF Steps
    <2>3. CASE ~EnterPerception
      <3>1. flow.at # "perception"
        BY <1>1, <2>3, Entrances
      <3>2. /\ session.resp = NoResponse
            /\ session.results \cap Unheard # {} => MoreTurns
        BY <2>1, <3>1 DEF CountsInv, PerceptionLeft
      <3>3. CASE HandleFact
        BY <2>1, <3>2, <3>3, FactLeft DEF CountsInv, MoreTurns
      <3>4. CASE session' = NoContext
        BY <3>4 DEF NoContext
      <3>5. CASE ~HandleFact /\ session' # NoContext
        <4>1. ~Steps
          <5>1. ~ProgressHeard
            BY <1>5 DEF ProgressHeard
          <5>2. QED
            BY <2>1, <2>3, <5>1, StepsFrom
        <4>2. ~Begins
          BY <2>1 DEF Begins
        <4>3. ~Reopens
          BY <1>1, <2>1, ReopenIs DEF Known, RecoveryInv, ConversationInv, Replacing
        <4>4. session'.results = session.results /\ session'.resp = session.resp
          BY <3>5, <4>1, <4>2, <4>3, FieldsMove
        <4>5. session'.turn = session.turn
          BY <2>3, <3>5, <4>2, CountsMove
        <4>6. QED
          BY <3>2, <4>4, <4>5 DEF MoreTurns
      <3>6. QED
        BY <3>3, <3>4, <3>5
    <2>4. QED
      BY <2>2, <2>3
  <1>6. QED
    BY <1>4, <1>5 DEF PerceptionLeft

\* A conversation was opened again, or still may be.
LEMMA DispatchReopened ==
    ASSUME Known, CountsInv, Dispatch, state = "ACTION", state' = "ACTION",
           ~Converging', ~Steps, ~HandleFact, ~Reopens, session' # NoContext, Reopened
    PROVE  Reopened'
  <1>1. /\ Shape /\ Numbered /\ RecoveryInv /\ FinishingConverges /\ Triggered
        /\ ErrorConverges /\ ShutsDown /\ Entering /\ Quiet
    BY DEF Known, RecoveryInv, ReportsInv, SessionInv
  <1>2. ~Begins
    BY DEF Begins
  <1>3. /\ session'.done = session.done /\ session'.aphase = session.aphase
        /\ session'.conv # "closing"
    BY <1>2, FieldsMove DEF Reopened
  <1>4. flow'.at # "action"
    BY <1>1, Entrances DEF ProgressHeard, ProgressThought, Heard
  <1>5. ASSUME NEW r \in inflight' PROVE Private(r)
    <2>1. ~Converging /\ ~FinishStop /\ ~FinishIdle /\ (~Converges \/ \E cause : Raise(cause))
      BY <1>1, NotConverging
    <2>2. CASE r \in inflight
      BY <2>2 DEF Reopened
    <2>3. CASE Converges
      BY <2>1, <2>2, <2>3 DEF Raise, tasks
    <2>4. CASE r \notin inflight /\ ~Converges
      <3>1. ~FinishAnnounce
        BY <1>1, <2>1 DEF FinishAnnounce, FinishReady, Finishing, FinishingConverges
      <3>2. r.phase \in {"open", "close"}
        BY <1>1, <1>2, <2>4, <3>1, NewRecords DEF Steps
      <3>3. QED
        BY <3>2 DEF Private
    <2>5. QED
      BY <2>2, <2>3, <2>4
  <1>6. QED
    BY <1>3, <1>4, <1>5 DEF Reopened

\* An answer that goes on or replaces the conversation is acted upon within the bounds.
LEMMA DispatchActs ==
    ASSUME Known, CountsInv, Dispatch
    PROVE  ActionLeft'
  <1> SUFFICES ASSUME state' = "ACTION"
               PROVE  /\ session'.route \in {"KEEP_NEXT", "REPLACE_NEXT"} => MoreTurns'
                      /\ session'.route = "REPLACE_NEXT" /\ ~Converging' =>
                            MoreConversations' \/ Reopened'
    BY DEF ActionLeft
  <1>1. /\ Shape /\ ErrorConverges /\ Entering /\ RecoveryInv /\ Triggered /\ ShutsDown
        /\ Numbered /\ Fits /\ Alone /\ Opens /\ Closes
    BY DEF Known, RecoveryInv, ReportsInv, SessionInv, ConversationInv
  <1>2. session' # NoContext \/ session'.route = "none"
    BY DEF NoContext
  <1>3. ASSUME Steps, ~EnterPerception
        PROVE  \/ session' = NoContext
               \/ session'.turn = session.turn /\ session'.gen = session.gen
    <2>1. flow.at # "receive"
      BY <1>3 DEF Steps, ProgressToPerception, ProgressHeard, ProgressThought, ProgressRest,
         ProgressEnd, ProgressReplace, ProgressKeep, EnterThink, EnterAction, Acted,
         MayProgress, Progress
    <2>2. ~Reopens /\ ~Begins
      BY <2>1 DEF Reopens, Begins, HandleRejected, HandleClosed, Receive
    <2>3. QED
      BY <1>3, <2>2, CountsMove
  <1>4. state = "ACTION" \/ ProgressHeard \/ ProgressThought
    BY <1>1, StateMoves, SessionOver, Begun DEF Raise, manager
  <1>5. CASE ProgressHeard
    <2>1. /\ session'.route \in {"KEEP_NEXT", "END_SESSION"}
          /\ session.results \cap Unheard # {}
      BY <1>1, <1>5, StepsLead DEF Steps
    <2>2. MoreTurns
      BY <1>5, <2>1 DEF ProgressHeard, Heard, CountsInv, PerceptionLeft
    <2>3. ~EnterPerception
      BY <1>5 DEF ProgressHeard, MayProgress, Progress, EnterPerception
    <2>4. QED
      BY <1>2, <1>3, <1>5, <2>1, <2>2, <2>3 DEF Steps, MoreTurns
  <1>6. CASE ProgressThought
    <2>1. session'.route = session.resp.route
      BY <1>1, <1>6, StepsLead DEF Steps
    <2>2. Admissible(session.resp)
      BY <1>6 DEF ProgressThought, CountsInv, ThinkLeft
    <2>3. ~EnterPerception
      BY <1>6 DEF ProgressThought, MayProgress, Progress, EnterPerception
    <2>4. QED
      BY <1>2, <1>3, <1>6, <2>1, <2>2, <2>3 DEF Steps, MoreTurns, MoreConversations, Admissible
  <1>7. ASSUME state = "ACTION", session'.route = session.route, session'.turn = session.turn,
               session'.gen = session.gen, ~Converging,
               ~Reopened \/ (~Converging' => Reopened')
        PROVE  /\ session'.route \in {"KEEP_NEXT", "REPLACE_NEXT"} => MoreTurns'
               /\ session'.route = "REPLACE_NEXT" /\ ~Converging' =>
                     MoreConversations' \/ Reopened'
    BY <1>7 DEF CountsInv, ActionLeft, MoreTurns, MoreConversations
  <1>8. CASE state = "ACTION" /\ HandleFact
    <2>1. /\ session'.turn = session.turn /\ session'.gen = session.gen
          /\ session'.route = session.route
          /\ \E r \in inflight : ~Private(r)
      BY <1>8, FactLeft DEF CountsInv
    <2>2. ~Reopened /\ UNCHANGED pending
      BY <1>8, <2>1 DEF Reopened, HandleFact
    <2>3. QED
      BY <1>8, <2>1, <2>2
      DEF CountsInv, ActionLeft, MoreTurns, MoreConversations, Converging
  <1>9. CASE state = "ACTION" /\ Steps
    <2>1. ~EnterPerception
      BY <1>1, <1>9 DEF EnterPerception, Entering
    <2>2. ~ProgressToPerception /\ ~ProgressKeep
      BY <1>1, <1>9, StepsLead
    <2>3. ProgressRest \/ ProgressEnd \/ ProgressReplace \/ EnterAction
      BY <1>9, <2>2, StepsFrom
    <2>4. session'.route = session.route /\ ~Reopened
      BY <1>1, <1>9, <2>3, StepsLead DEF Reopened
    <2>5. ~Converging
      BY <1>1, <2>3 DEF ProgressRest, ProgressEnd, ProgressReplace, EnterAction, Acted,
         MayProgress, Entering
    <2>6. QED
      BY <1>2, <1>3, <1>7, <1>9, <2>1, <2>4, <2>5
  <1>10. CASE state = "ACTION" /\ Reopens
    <2>1. /\ \E r : inflight' = {r} /\ r.phase = "open" /\ r.task = "running"
          /\ session'.conv = "opening" /\ Replacing /\ Replacing'
      BY <1>1, <1>10, ReopenIs
    <2>2. session'.turn = session.turn
      BY <1>2, <1>10, <2>1, CountsMove
      DEF Reopens, Replacing, Begins, EnterPerception, HandleRejected, HandleClosed, Receive
    <2>3. flow'.at # "action"
      BY <1>1, <1>10, Entrances DEF ProgressHeard, ProgressThought, Heard
    <2>4. Reopened'
      BY <2>1, <2>3 DEF Reopened, Replacing, Private
    <2>5. QED
      BY <2>1, <2>2, <2>4 DEF CountsInv, ActionLeft, Replacing, MoreTurns
  <1>11. CASE state = "ACTION" /\ ~HandleFact /\ ~Steps /\ ~Reopens /\ session' # NoContext
    <2>1. ~Begins /\ ~EnterPerception
      BY <1>11 DEF Begins, Steps
    <2>2. session'.route = session.route
      BY <1>11, <2>1, FieldsMove
    <2>3. session'.turn = session.turn /\ session'.gen = session.gen
      BY <1>11, <2>1, CountsMove
    <2>4. ~Converging' => ~Converging
      BY <1>1, <1>11, NotConverging
    <2>5. ~Converging' /\ Reopened => Reopened'
      BY <1>11, DispatchReopened
    <2>6. QED
      BY <1>11, <2>2, <2>3, <2>4, <2>5 DEF CountsInv, ActionLeft, MoreTurns, MoreConversations
  <1>12. QED
    BY <1>2, <1>4, <1>5, <1>6, <1>8, <1>9, <1>10, <1>11

\* A task publishes, and a conversation is rejected, as far as the bounds allow.
Told(q, x) == /\ x.cid = q.cid
              /\ q.phase = "perception" /\ x.value \in {"silent", "several"} => MoreTurns
              /\ q.phase = "think" => Admissible(x.value)
Admitting ==
    /\ \A s \in inflight' : \E q \in inflight :
          /\ s.cid = q.cid /\ s.phase = q.phase
          /\ s.task = "rejected" => q.task = "rejected" \/ MoreConversations
    /\ \A j \in DOMAIN inbox' : inbox'[j].type = "fact" =>
          \/ \E i \in DOMAIN inbox : inbox'[j] = inbox[i]
          \/ \E q \in inflight : Told(q, inbox'[j])

\* What is asked of a step that moves one task and puts some items.
LEMMA Admits ==
    ASSUME Shape, NEW r \in inflight, NEW task, inflight' = Update(r, [r EXCEPT !.task = task]),
           task = "rejected" => MoreConversations,
           NEW t \in Seq(Items), inbox' = inbox \o t,
           \A i \in DOMAIN t : t[i].type = "fact" => Told(r, t[i])
    PROVE  Admitting
  <1> DEFINE new == [r EXCEPT !.task = task]
  <1>1. new.task = task /\ new.cid = r.cid /\ new.phase = r.phase
    BY WorkedIs
  <1>2. inflight' = (inflight \ {r}) \cup {new}
    BY DEF Update
  <1> HIDE DEF new
  <1>3. \A s \in inflight' : \E q \in inflight :
           /\ s.cid = q.cid /\ s.phase = q.phase
           /\ s.task = "rejected" => q.task = "rejected" \/ MoreConversations
    BY <1>1, <1>2
  <1>4. /\ Carried(0)
        /\ \A n \in DOMAIN inbox' : n > Len(inbox) => \E i \in DOMAIN t : inbox'[n] = t[i]
    BY CarriedIs
  <1>5. ASSUME NEW j \in DOMAIN inbox', inbox'[j].type = "fact"
        PROVE  \/ \E i \in DOMAIN inbox : inbox'[j] = inbox[i]
               \/ \E q \in inflight : Told(q, inbox'[j])
    <2>1. CASE j > Len(inbox)
      <3>1. PICK i \in DOMAIN t : inbox'[j] = t[i]
        BY <1>4, <2>1
      <3>2. Told(r, inbox'[j])
        BY <1>5, <3>1
      <3>3. QED
        BY <3>2
    <2>2. CASE j + 0 \in DOMAIN inbox /\ inbox'[j] = inbox[j + 0]
      BY <2>2
    <2>3. j + 0 = j /\ j + 0 > Len(inbox) <=> j > Len(inbox)
      <3>1. inbox \in Seq(Items) /\ inbox' \in Seq(Items)
        BY DEF Shape, InboxShape
      <3>2. j \in Nat /\ Len(inbox) \in Nat
        BY <3>1
      <3>3. QED
        BY <3>2
    <2>4. QED
      BY <1>4, <2>1, <2>2, <2>3 DEF Carried
  <1>6. QED
    BY <1>3, <1>5 DEF Admitting

\* Every step of a task is such a step.
LEMMA WorkAdmits ==
    ASSUME Known, Work
    PROVE  Admitting
  <1>1. Shape /\ Numbered /\ inflight \subseteq InFlight
    BY DEF Known, Shape, TasksShape
  <1>2. ASSUME NEW r \in inflight, NEW value \in Heards \cup Response \cup Outcomes,
               Publish(r, value), Told(r, Fact(r, value))
        PROVE  Admitting
    <2>1. Fact(r, value) \in Items
      BY <1>1 DEF Fact, InFlight, Items, Facts
    <2> DEFINE t == <<Fact(r, value)>>
               task == "published"
    <2>2. t \in Seq(Items) /\ task # "rejected"
      BY <2>1
    <2>3. inbox' = inbox \o t /\ inflight' = Update(r, [r EXCEPT !.task = task])
      BY <1>2 DEF Publish, Put
    <2>4. \A i \in DOMAIN t : t[i].type = "fact" => Told(r, t[i])
      BY <1>2
    <2> HIDE DEF t, task
    <2>5. QED
      BY <1>1, <2>2, <2>3, <2>4, Admits
  <1>3. ASSUME NEW r \in inflight, NEW task, task = "rejected" => MoreConversations,
               inflight' = Update(r, [r EXCEPT !.task = task]), Put(<<Completed(r)>>)
        PROVE  Admitting
    <2>1. Completed(r) \in Items /\ Completed(r).type # "fact"
      BY <1>1 DEF Completed, InFlight, Items, Notices
    <2> DEFINE t == <<Completed(r)>>
    <2>2. t \in Seq(Items) /\ \A i \in DOMAIN t : t[i].type # "fact"
      BY <2>1
    <2>3. inbox' = inbox \o t
      BY <1>3 DEF Put
    <2> HIDE DEF t
    <2>4. QED
      BY <1>1, <1>3, <2>2, <2>3, Admits
  <1>4. ASSUME NEW r \in inflight, PublishHeard(r) PROVE Admitting
    <2>1. r.phase # "think"
      BY <1>1, <1>4 DEF PublishHeard, Numbered, KindsOf
    <2>2. \A v : Fact(r, v).cid = r.cid /\ Fact(r, v).value = v
      BY DEF Fact
    <2>3. Told(r, Fact(r, "words"))
      BY <2>1, <2>2 DEF Told
    <2>4. MoreTurns => Told(r, Fact(r, "silent")) /\ Told(r, Fact(r, "several"))
      BY <2>1, <2>2 DEF Told
    <2>5. {"words", "silent", "several"} \subseteq Heards
      BY DEF Heards
    <2>6. QED
      BY <1>2, <1>4, <2>3, <2>4, <2>5 DEF PublishHeard
  <1>5. ASSUME NEW r \in inflight, PublishRead(r) PROVE Admitting
    <2>1. r.phase # "think" /\ Publish(r, "text")
      BY <1>1, <1>5 DEF PublishRead, Numbered, KindsOf, ActionKinds
    <2>2. Told(r, Fact(r, "text")) /\ "text" \in Heards
      BY <2>1 DEF Told, Fact, Heards
    <2>3. QED
      BY <1>2, <2>1, <2>2
  <1>6. ASSUME NEW r \in inflight, PublishThought(r) PROVE Admitting
    <2>1. r.phase = "think" /\ scenario.answers \subseteq Response
      BY <1>1, <1>6, ManagerAssumption DEF PublishThought, Shape, FlagsShape
    <2>2. \A v : Admissible(v) => Told(r, Fact(r, v))
      BY <2>1 DEF Told, Fact
    <2>3. LET v == [kind |-> "rest", route |-> "END_SESSION", next |-> {}]
          IN Admissible(v) /\ v \in Response
      BY DEF Admissible, Response, ActionKinds, Routes
    <2>4. QED
      BY <1>2, <1>6, <2>1, <2>2, <2>3 DEF PublishThought
  <1>7. ASSUME NEW r \in inflight, PublishDone(r) PROVE Admitting
    <2>1. r.phase \notin {"perception", "think"}
      BY <1>7 DEF PublishDone
    <2>2. \A v : Told(r, Fact(r, v))
      BY <2>1 DEF Told, Fact
    <2>3. "ok" \in Outcomes /\ "error" \in Outcomes
      BY DEF Outcomes
    <2>4. QED
      BY <1>2, <1>7, <2>2, <2>3 DEF PublishDone
  <1>8. ASSUME NEW r \in inflight, ReturnWorker(r) PROVE Admitting
    BY <1>3, <1>8 DEF ReturnWorker
  <1>9. ASSUME NEW r \in inflight, OpenEnds(r) \/ CloseEnds(r) PROVE Admitting
    BY <1>3, <1>9 DEF OpenEnds, CloseEnds, EndLifecycle, MoreConversations
  <1>10. ASSUME NEW r \in inflight, NEW keys \in {{}, Key(r)}, FaultWorker(r, keys)
         PROVE  Admitting
    <2> DEFINE task == IF keys = {} THEN "raised" ELSE "fault"
               t == <<ErrorOccurred(keys, r.kind = "listen"), Completed(r)>>
    <2>1. ErrorOccurred(keys, r.kind = "listen") \in Items
      BY DEF Key, ErrorOccurred, Items, Errors, Keys
    <2>2. Completed(r) \in Items /\ Completed(r).type # "fact"
      BY <1>1 DEF Completed, InFlight, Items, Notices
    <2>3. t \in Seq(Items) /\ \A i \in DOMAIN t : t[i].type # "fact"
      BY <2>1, <2>2 DEF ErrorOccurred
    <2>4. inbox' = inbox \o t /\ inflight' = Update(r, [r EXCEPT !.task = task])
      BY <1>10 DEF FaultWorker, Put
    <2>5. task # "rejected"
      OBVIOUS
    <2> HIDE DEF t, task
    <2>6. QED
      BY <1>1, <2>3, <2>4, <2>5, Admits
  <1>11. QED
    BY <1>4, <1>5, <1>6, <1>7, <1>8, <1>9, <1>10 DEF Work

\* Steps outside the dispatch loop count nothing, and tell nothing else.
LEMMA OutsideCounts ==
    ASSUME Known, CountsInv, Work \/ Recover \/ AckElapses \/ World
    PROVE  CountsInv'
  <1>1. Shape /\ Numbered
    BY DEF Known
  <1>2. flow.at = "receive" /\ UNCHANGED <<state, session, pending, flow>>
    BY OutsideKeeps
  <1>3. Admitting
    <2>1. CASE Work
      BY <2>1, WorkAdmits
    <2>2. CASE Recover \/ AckElapses \/ World
      <3>1. UNCHANGED inflight
        BY <1>1, <2>2, OutsideAdds
      <3>2. CASE inbox' = inbox
        BY <3>1, <3>2 DEF Admitting
      <3>3. ASSUME NEW x \in Items, inbox' = inbox \o <<x>>, x.type # "fact" PROVE Admitting
        <4> DEFINE t == <<x>>
        <4>1. t \in Seq(Items) /\ inbox' = inbox \o t /\ \A i \in DOMAIN t : t[i].type # "fact"
          BY <3>3
        <4> HIDE DEF t
        <4>2. /\ Carried(0)
              /\ \A n \in DOMAIN inbox' : n > Len(inbox) => \E i \in DOMAIN t : inbox'[n] = t[i]
          BY <1>1, <4>1, CarriedIs
        <4>3. inbox \in Seq(Items)
          BY <1>1 DEF Shape, InboxShape
        <4>4. inbox' \in Seq(Items)
          BY <3>3, <4>3
        <4>5. \A j \in DOMAIN inbox' : j \in Nat /\ j + 0 = j
          BY <4>4
        <4>6. QED
          BY <3>1, <4>1, <4>2, <4>5 DEF Carried, Admitting
      <3>4. QED
        BY <1>1, <2>2, <3>2, <3>3, OutsideAdds
    <2>3. QED
      BY <2>1, <2>2
  <1>4. Reopened => Reopened'
    BY <1>2, <1>3 DEF Admitting, Reopened, Private
  <1>5. WakeLeft' /\ PerceptionLeft' /\ ThinkLeft' /\ ActionLeft' /\ Counted'
    BY <1>2, <1>4 DEF CountsInv, WakeLeft, PerceptionLeft, ThinkLeft, ActionLeft, Counted,
       MoreTurns, MoreConversations, Admissible, Converging
  <1>6. RejectedLeft'
    BY <1>2, <1>3 DEF CountsInv, Admitting, RejectedLeft, MoreConversations
  <1>7. FactsLeft'
    <2> SUFFICES ASSUME NEW j \in DOMAIN inbox', inbox'[j].type = "fact",
                        NEW r \in inflight', r.cid = inbox'[j].cid
                 PROVE  /\ r.phase = "perception" /\ inbox'[j].value \in {"silent", "several"}
                              => MoreTurns
                        /\ r.phase = "think" => Admissible(inbox'[j].value)
      BY <1>2 DEF FactsLeft, Admissible, MoreTurns
    <2>1. PICK s \in inflight : r.cid = s.cid /\ r.phase = s.phase
      BY <1>3 DEF Admitting
    <2>2. CASE \E i \in DOMAIN inbox : inbox'[j] = inbox[i]
      BY <2>1, <2>2 DEF CountsInv, FactsLeft
    <2>3. ASSUME NEW q \in inflight, Told(q, inbox'[j])
          PROVE  /\ r.phase = "perception" /\ inbox'[j].value \in {"silent", "several"}
                       => MoreTurns
                 /\ r.phase = "think" => Admissible(inbox'[j].value)
      <3>1. q.cid = s.cid
        BY <2>1, <2>3 DEF Told
      <3>2. q = s
        BY <1>1, <3>1 DEF Numbered
      <3>3. QED
        BY <2>1, <2>3, <3>2 DEF Told
    <2>4. QED
      BY <1>3, <2>2, <2>3 DEF Admitting
  <1>8. QED
    BY <1>5, <1>6, <1>7 DEF CountsInv

\* Every run of the manager counts its turns and its conversations within the bounds.
THEOREM CountsHold == Spec => []CountsInv
  <1>1. Init => CountsInv
    <2>1. MaxTurn \in Nat /\ MaxGeneration \in Nat
      BY OpsAssumption, ManagerAssumption
    <2>2. QED
      BY <2>1 DEF Init, CountsInv, WakeLeft, PerceptionLeft, ThinkLeft, ActionLeft,
         RejectedLeft, FactsLeft, Counted, NoContext
  <1>2. Known /\ Known' /\ CountsInv /\ [Next]_vars => CountsInv'
    <2> SUFFICES ASSUME Known, Known', CountsInv, [Next]_vars PROVE CountsInv'
      OBVIOUS
    <2>1. CASE UNCHANGED vars
      BY <2>1 DEF vars, manager, tasks, CountsInv, WakeLeft, PerceptionLeft, ThinkLeft,
         ActionLeft, RejectedLeft, FactsLeft, Counted, MoreTurns, MoreConversations,
         Admissible, Reopened, Converging
    <2>2. CASE Dispatch
      BY <2>2, DispatchWakes, DispatchPerceives, DispatchThinks, DispatchActs,
         DispatchRejected, DispatchFactsLeft, DispatchCounted DEF CountsInv
    <2>3. CASE Work \/ Recover \/ AckElapses \/ World
      BY <2>3, OutsideCounts
    <2>4. QED
      BY <2>1, <2>2, <2>3 DEF Next
  <1>3. QED
    BY <1>1, <1>2, KnownHolds, PTL DEF Spec

-----------------------------------------------------------------------------
(* The buffer keeps its type: it is given the numbers of this session and  *)
(* this turn, and of no session and no turn that there is not.             *)

BufferInv == buf \in Buffer /\ accepted \in 0 .. MaxMessages

\* The operations of the buffer on a buffer give a buffer.
LEMMA OpsKeep ==
    ASSUME NEW b \in Buffer, NEW s \in Sessions \cup {0}, NEW t \in 0 .. MaxTurn, NEW m
    PROVE  /\ Store(b, m) \in Buffer /\ EmptyBuffer \in Buffer /\ Flush(b) \in Buffer
           /\ AssignToSession(b, m, s) \in Buffer /\ MarkPending(b, m, s) \in Buffer
           /\ AssignToTurn(b, m, s, t) \in Buffer
           /\ t # 0 => BeginRead(b, s, t) \in Buffer
           /\ CloseRead(b, s, t) \in Buffer /\ RestoreAfterRead(b, s, t) \in Buffer
           /\ Consume(b, s, t) \in Buffer
  <1>1. MaxTurn \in Nat /\ NoSession = 0 /\ t \in Turns \cup {0} /\ 0 \in Turns \cup {0}
    BY OpsAssumption, ManagerAssumption DEF Turns
  <1>2. /\ Absent \in Item /\ Queued \in Item /\ NoWindow \in Window
    BY <1>1 DEF Absent, Queued, NoWindow, Item, Window, MessageStates, WindowStates
  <1>3. \A st \in MessageStates, u \in Turns \cup {0} :
           [state |-> st, session |-> s, turn |-> u] \in Item
    BY <1>1 DEF Item
  <1>4. \A st \in WindowStates : [state |-> st, turn |-> t] \in Window
    BY <1>1 DEF Window
  <1>5. b.item \in [Messages -> Item] /\ b.window \in [Sessions -> Window]
    BY DEF Buffer
  <1>6. \A x \in [Messages -> Item], y \in [Sessions -> Window] :
           [item |-> x, window |-> y] \in Buffer
    BY DEF Buffer
  <1>7. Store(b, m) \in Buffer /\ EmptyBuffer \in Buffer /\ Flush(b) \in Buffer
    BY <1>2, <1>5, <1>6 DEF Store, EmptyBuffer, Flush
  <1>8. \A st \in MessageStates, u \in Turns \cup {0} : WithItem(b, m, st, s, u) \in Buffer
    BY <1>3, <1>5, <1>6 DEF WithItem
  <1>9. /\ AssignToSession(b, m, s) \in Buffer /\ MarkPending(b, m, s) \in Buffer
        /\ AssignToTurn(b, m, s, t) \in Buffer
    BY <1>1, <1>8 DEF AssignToSession, MarkPending, AssignToTurn, MessageStates
  <1>10. BeginRead(b, s, t) \in Buffer
    BY <1>1, <1>3, <1>4, <1>5, <1>6 DEF BeginRead, MessageStates, WindowStates
  <1>11. CloseRead(b, s, t) \in Buffer /\ Consume(b, s, t) \in Buffer
    BY <1>1, <1>2, <1>3, <1>4, <1>5, <1>6 DEF CloseRead, Consume, MessageStates, WindowStates
  <1>12. RestoreAfterRead(b, s, t) \in Buffer
    BY <1>11 DEF RestoreAfterRead
  <1>13. QED
    BY <1>7, <1>9, <1>10, <1>11, <1>12

\* The dispatch loop keeps the type of the buffer.
LEMMA DispatchBuffer ==
    ASSUME Known, CountsInv, BufferInv, Dispatch
    PROVE  BufferInv'
  <1>1. /\ Entering /\ Shape /\ MaxTurn \in Nat
        /\ session.id \in Sessions \cup {0} /\ session.turn \in 0 .. MaxTurn
        /\ readOpen \in 0 .. MaxTurn
    BY OpsAssumption DEF Known, SessionInv, Owned, CountsInv, Counted
  <1>2. accepted' = accepted
    BY DispatchMessages
  <1> DEFINE Good == buf' \in Buffer
  <1>3. ASSUME UNCHANGED buf PROVE Good
    BY <1>3 DEF BufferInv
  <1>4. ASSUME UNCHANGED world PROVE Good
    BY <1>3, <1>4 DEF world
  <1>5. ASSUME NEW cause, Raise(cause) PROVE Good
    BY <1>4, <1>5 DEF Raise
  <1>6. EmptyBuffer \in Buffer /\ Flush(buf) \in Buffer
    BY <1>1, OpsKeep DEF BufferInv
  <1>7. ReadClosed \in Buffer
    BY <1>1, OpsKeep DEF BufferInv, ReadClosed
  <1>8. Flush(ReadClosed) \in Buffer
    BY <1>1, <1>7, OpsKeep
  <1>9. BufferAfter \in Buffer
    BY <1>1, OpsKeep DEF BufferInv, BufferAfter
  <1>10. ASSUME HandleMessage PROVE Good
    <2>1. PICK m : /\ \/ begun + 1 \in Sessions
                      \/ state # "IDLE"
                   /\ \/ \E cause : Raise(cause)
                      \/ state = "IDLE" /\ buf' = AssignToSession(buf, m, begun + 1)
                      \/ buf' \in {AssignToTurn(buf, m, session.id, session.turn),
                                   MarkPending(buf, m, session.id)}
      <3>1. state = "IDLE" => begun + 1 \in Sessions
        BY <1>10 DEF HandleMessage, Ignored, Receive, Entry
      <3>2. \/ \E cause : Raise(cause)
            \/ state = "IDLE" /\ buf' = AssignToSession(buf, Entry.id, begun + 1)
            \/ buf' \in {AssignToTurn(buf, Entry.id, session.id, session.turn),
                         MarkPending(buf, Entry.id, session.id)}
        BY <1>10 DEF HandleMessage
      <3>3. QED
        BY <3>1, <3>2
    <2>2. ASSUME state = "IDLE", buf' = AssignToSession(buf, m, begun + 1) PROVE Good
      <3>1. begun + 1 \in Sessions \cup {0} /\ 0 \in 0 .. MaxTurn
        BY <1>1, <2>1, <2>2
      <3>2. QED
        BY <2>2, <3>1, OpsKeep DEF BufferInv
    <2>3. ASSUME buf' \in {AssignToTurn(buf, m, session.id, session.turn),
                           MarkPending(buf, m, session.id)}
          PROVE  Good
      BY <1>1, <2>3, OpsKeep DEF BufferInv
    <2>4. QED
      BY <1>5, <2>1, <2>2, <2>3
  <1>11. ASSUME EnterPerception PROVE Good
    <2> DEFINE t == session.turn + 1
    <2>1. t \in 0 .. MaxTurn /\ t # 0
      BY <1>1, <1>11 DEF EnterPerception, CountsInv, PerceptionLeft, MoreTurns
    <2>2. buf' = buf \/ buf' = BeginRead(buf, session.id, t)
      BY <1>11 DEF EnterPerception, NextTurn
    <2> HIDE DEF t
    <2>3. QED
      BY <1>1, <2>1, <2>2, OpsKeep DEF BufferInv
  <1> HIDE DEF Good
  <1>12. SUFFICES ASSUME TRUE PROVE Good
    BY <1>2 DEF BufferInv, Good
  <1>13. CASE HandleWake
    BY <1>3, <1>5, <1>13 DEF HandleWake
  <1>14. CASE \/ IgnoreItem \/ HandleUnknownMessage \/ HandleInterrupt \/ HandleAck \/ HandleFact
              \/ HandleDone \/ HandleOpened \/ HandleLifecycleFailed \/ HandleRecovered
              \/ HandlePlannedRecovery \/ HandleError \/ ShutdownCleanupFails
    BY <1>4, <1>5, <1>14 DEF IgnoreItem, HandleUnknownMessage, HandleInterrupt, HandleAck,
       HandleFact, HandleDone, HandleOpened, HandleLifecycleFailed, HandleRecovered,
       HandlePlannedRecovery, HandleError, ShutdownCleanupFails
  <1>15. CASE HandleRejected \/ HandleClosed
    BY <1>4, <1>5, <1>15 DEF HandleRejected, HandleClosed, NextConversation
  <1>16. CASE HandleShutdown
    BY <1>6, <1>16 DEF HandleShutdown, Good
  <1>17. CASE \/ ProgressConverging \/ ProgressWaits \/ ProgressToPerception \/ ProgressThought
              \/ ProgressRest \/ ProgressEnd \/ ProgressReplace \/ ProgressKeep \/ ProgressStop
              \/ EnterThink \/ EnterAction \/ ConvergeAgain \/ LifecycleError
    BY <1>4, <1>5, <1>17 DEF ProgressConverging, ProgressWaits, ProgressToPerception,
       ProgressThought, ProgressRest, ProgressEnd, ProgressReplace, ProgressKeep, ProgressStop,
       EnterThink, EnterAction, ConvergeAgain, LifecycleError
  <1>18. CASE ProgressHeard
    BY <1>7, <1>18 DEF ProgressHeard, Good
  <1>19. ASSUME NEW e \in Endured,
                Converge(e) \/ ConvergeToShutdown(e) \/ LifecycleErrorConverging(e)
         PROVE  Good
    <2>1. \/ \E cause : Raise(cause)
          \/ UNCHANGED buf
          \/ buf' = BufferAfter
      BY <1>19 DEF Converge, ConvergeToShutdown, LifecycleErrorConverging
    <2>2. QED
      BY <1>3, <1>5, <1>9, <2>1 DEF Good
  <1>20. CASE FinishLater \/ FinishClose \/ FinishRecycle \/ FinishAnnounce
    BY <1>3, <1>4, <1>5, <1>20 DEF FinishLater, FinishClose, FinishRecycle, FinishAnnounce
  <1>21. CASE FinishStop \/ FinishIdle
    <2>1. \/ \E cause : Raise(cause)
          \/ buf' \in {ReadClosed, EmptyBuffer, Flush(ReadClosed)}
      BY <1>21 DEF FinishStop, FinishIdle
    <2>2. QED
      BY <1>5, <1>6, <1>7, <1>8, <2>1 DEF Good
  <1>22. QED
    BY <1>10, <1>11, <1>13, <1>14, <1>15, <1>16, <1>17, <1>18, <1>19, <1>20, <1>21 DEF Dispatch

\* So do the tasks and the source.
LEMMA OutsideBuffer ==
    ASSUME Known, CountsInv, BufferInv, Work \/ Recover \/ AckElapses \/ World
    PROVE  BufferInv'
  <1>1. /\ MaxTurn \in Nat /\ MaxMessages \in Nat
        /\ session.id \in Sessions \cup {0} /\ session.turn \in 0 .. MaxTurn
        /\ \A r \in inflight : r.sid = session.id /\ r.turn = session.turn
        /\ scenario.messages \in 0 .. MaxMessages
    BY OpsAssumption, ManagerAssumption
    DEF Known, Shape, FlagsShape, SessionInv, Owned, Current, CountsInv, Counted
  <1> DEFINE Good == BufferInv'
  <1>2. ASSUME UNCHANGED <<buf, accepted>> PROVE Good
    BY <1>2 DEF BufferInv
  <1>3. ASSUME NEW r \in inflight, PublishRead(r) PROVE Good
    <2>1. /\ accepted' = accepted
          /\ buf' \in {Consume(buf, r.sid, r.turn), RestoreAfterRead(buf, r.sid, r.turn)}
      BY <1>3 DEF PublishRead, Publish
    <2>2. QED
      BY <1>1, <2>1, OpsKeep DEF BufferInv
  <1>4. ASSUME Ingest PROVE Good
    <2>1. accepted' = accepted + 1 /\ accepted < scenario.messages
          /\ buf' = Store(buf, accepted + 1)
      BY <1>4 DEF Ingest
    <2>2. Store(buf, accepted + 1) \in Buffer
      BY <1>1, OpsKeep DEF BufferInv
    <2>3. QED
      BY <1>1, <2>1, <2>2 DEF BufferInv
  <1> HIDE DEF Good
  <1>5. SUFFICES ASSUME TRUE PROVE Good
    BY DEF Good
  <1>6. ASSUME NEW r \in inflight, PublishHeard(r) \/ PublishThought(r) \/ PublishDone(r)
        PROVE  Good
    BY <1>2, <1>6 DEF PublishHeard, PublishThought, PublishDone, Publish
  <1>7. ASSUME NEW r \in inflight,
               \/ ReturnWorker(r) \/ OpenEnds(r) \/ CloseEnds(r)
               \/ \E keys \in {{}, Key(r)} : FaultWorker(r, keys)
        PROVE  Good
    BY <1>2, <1>7 DEF ReturnWorker, OpenEnds, CloseEnds, FaultWorker, EndLifecycle, world
  <1>8. CASE Recover \/ AckElapses \/ Signalled \/ EngineDies
    BY <1>2, <1>8 DEF Recover, RecoveryEnds, AckElapses, Signalled, Input, EngineDies
  <1>9. QED
    BY <1>3, <1>4, <1>6, <1>7, <1>8 DEF Work, World

\* Every run of the manager keeps the type of the buffer.
THEOREM BufferHolds == Spec => []BufferInv
  <1>1. Init => BufferInv
    <2>1. EmptyBuffer \in Buffer
      BY OpsAssumption, ManagerAssumption DEF EmptyBuffer, Buffer, Item, Window, Absent,
         NoWindow, MessageStates, WindowStates
    <2>2. 0 \in 0 .. MaxMessages
      BY OpsAssumption
    <2>3. QED
      BY <2>1, <2>2 DEF Init, BufferInv
  <1>2. Known /\ CountsInv /\ BufferInv /\ [Next]_vars => BufferInv'
    <2> SUFFICES ASSUME Known, CountsInv, BufferInv, [Next]_vars PROVE BufferInv'
      OBVIOUS
    <2>1. CASE UNCHANGED vars
      BY <2>1 DEF vars, world, BufferInv
    <2>2. CASE Dispatch
      BY <2>2, DispatchBuffer
    <2>3. CASE Work \/ Recover \/ AckElapses \/ World
      BY <2>3, OutsideBuffer
    <2>4. QED
      BY <2>1, <2>2, <2>3 DEF Next
  <1>3. QED
    BY <1>1, <1>2, KnownHolds, CountsHold, PTL DEF Spec

\* What every run of the manager keeps: its types, its own checks, a quiet IDLE, no task of
\* another turn, one owner of the microphone, the handshake with the reasoner's backend.
THEOREM TurnSound == Spec => []TurnIsSound
  <1>1. Known /\ CountsInv /\ BufferInv => TypeOK
    <2> SUFFICES ASSUME Known, CountsInv, BufferInv PROVE TypeOK
      OBVIOUS
    <2>1. Shape /\ Numbered /\ Owned /\ Counted
      BY DEF Known, SessionInv, CountsInv
    <2>2. /\ state \in {"IDLE", "WAKE", "PERCEPTION", "THINK", "ACTION", "ERROR"}
          /\ session.sel \subseteq PerceptionKinds
          /\ session.conv \in {"none", "opening", "ready", "closing"}
          /\ pending.trigger \in {"none", "rest", "interrupt", "error", "shutdown"}
          /\ pending.phase \in {"none", "workers", "conversation_close", "recovery"}
      BY <2>1 DEF Shape, ManagerShape, States, Context, Pending, Triggers
    <2>3. \A r \in inflight : /\ r.cid \in 1 .. cids /\ r.phase \in Phases /\ r.kind \in Kinds
                              /\ r.task \in TaskStates
      BY <2>1 DEF Shape, TasksShape, InFlight, Numbered
    <2>4. \A r, q \in inflight : r.cid = q.cid => r = q
      BY <2>1 DEF Numbered
    <2>5. session.id \in Sessions \cup {0} /\ timer \in Sessions \cup {0}
      BY <2>1 DEF Owned
    <2>6. readOpen \in 0 .. MaxTurn
      BY <2>1, OpsAssumption DEF Owned, Counted
    <2>7. rm.keys \subseteq Keys /\ faultKeys \subseteq Keys /\ budget \in [Inputs -> Nat]
      BY <2>1 DEF Shape, FlagsShape, WorldShape, Resources
    <2>8. QED
      BY <2>1, <2>2, <2>3, <2>4, <2>5, <2>6, <2>7 DEF TypeOK, Counted, BufferInv
  <1>2. (/\ TypeOK /\ ChecksHold /\ IdleIsQuiet /\ InFlightIsCurrent
         /\ ReasonerHasConversation /\ (scenario.messages = 0 => OneMicOwner)) => TurnIsSound
    BY DEF TurnIsSound
  <1>3. QED
    BY <1>1, <1>2, KnownHolds, CountsHold, BufferHolds, OwnChecksHold, IdleQuiet,
       ReasonerConverses, OneOwner, PTL

-----------------------------------------------------------------------------
(* No message is forgotten: IDLE begins with the buffer empty or with every *)
(* message announced anew, and while it lasts an announcement that is taken *)
(* wakes the device.                                                        *)

Announced ==
    state = "IDLE" /\ ~shutting /\ begun + 1 \in Sessions /\ flow.at # "dead" =>
        \A m \in Present(buf) : /\ buf.item[m].state = "queued"
                                /\ \E i \in DOMAIN inbox : inbox[i] = MessageArrived(m)

\* A step of the dispatch loop that stays in IDLE leaves the buffer alone and takes no
\* announcement.
LEMMA IdleSteps ==
    ASSUME Known, Dispatch, state' = "IDLE", ~shutting', flow'.at # "dead", ~FinishIdle
    PROVE  /\ state = "IDLE" /\ UNCHANGED <<buf, begun, shutting>> /\ flow.at # "dead"
           /\ flow.at = "receive" /\ Entry.type = "message" => begun + 1 \notin Sessions
  <1>1. /\ Shape /\ WhyConverge /\ ConvergingIsBlocked /\ FinishingConverges /\ ErrorConverges
        /\ ShutsDown /\ Entering
    BY DEF Known, RecoveryInv, ReportsInv, SessionInv
  <1>2. state = "IDLE"
    BY <1>1, StateMoves, Begun
  <1> DEFINE Good == /\ UNCHANGED <<buf, begun, shutting>> /\ flow.at # "dead"
                     /\ flow.at = "receive" /\ Entry.type = "message" => begun + 1 \notin Sessions
  <1>3. ASSUME UNCHANGED <<buf, begun, shutting>>, flow.at # "dead",
               flow.at # "receive" \/ Entry.type # "message"
        PROVE  Good
    BY <1>3
  <1>4. ~\E cause : Raise(cause)
    BY DEF Raise
  <1>5. flags' = flags => UNCHANGED <<begun, shutting>>
    BY DEF flags
  <1>6. world' = world => UNCHANGED buf
    BY DEF world
  <1>7. ASSUME IgnoreItem PROVE Good
    BY <1>2, <1>5, <1>6, <1>7 DEF IgnoreItem, Ignored
  <1> HIDE DEF Good
  <1>8. SUFFICES ASSUME TRUE PROVE Good
    BY <1>2 DEF Good
  <1>9. ~HandleWake /\ ~HandleMessage /\ ~HandleUnknownMessage
    BY <1>2, <1>4 DEF HandleWake, HandleMessage, HandleUnknownMessage, BeginSession
  <1>10. CASE \/ HandleInterrupt \/ HandleAck \/ HandleFact \/ HandleDone \/ HandleOpened
              \/ HandleLifecycleFailed
    BY <1>3, <1>4, <1>5, <1>6, <1>10 DEF HandleInterrupt, HandleAck, HandleFact,
       HandleDone, HandleOpened, HandleLifecycleFailed, Receive, Entry
  <1>11. CASE HandleRejected \/ HandleClosed
    BY <1>3, <1>4, <1>5, <1>6, <1>11 DEF HandleRejected, HandleClosed, NextConversation,
       Receive, Entry
  <1>12. CASE \/ HandleRecovered \/ HandlePlannedRecovery \/ HandleError \/ HandleShutdown
              \/ ShutdownCleanupFails
    BY <1>3, <1>4, <1>5, <1>6, <1>12 DEF HandleRecovered, HandlePlannedRecovery, HandleError,
       HandleShutdown, ShutdownCleanupFails, Receive, Entry
  <1>13. CASE \/ ProgressConverging \/ ProgressWaits \/ ProgressToPerception \/ ProgressHeard
              \/ ProgressThought \/ ProgressRest \/ ProgressEnd \/ ProgressReplace
              \/ ProgressKeep \/ ProgressStop
    BY <1>2, <1>3, <1>4, <1>5, <1>6, <1>13 DEF ProgressConverging, ProgressWaits,
       ProgressToPerception, ProgressHeard, Heard, ProgressThought, ProgressRest, ProgressEnd,
       ProgressReplace, ProgressKeep, ProgressStop, MayProgress, Progress, Acted
  <1>14. CASE EnterPerception \/ EnterThink \/ EnterAction
    BY <1>1, <1>2, <1>14 DEF EnterPerception, EnterThink, EnterAction, Entering
  <1>15. CASE ConvergeAgain \/ LifecycleError
    BY <1>3, <1>5, <1>6, <1>15 DEF ConvergeAgain, LifecycleError
  <1>16. ASSUME NEW e \in Endured,
                Converge(e) \/ ConvergeToShutdown(e) \/ LifecycleErrorConverging(e)
         PROVE  Good
    <2>1. CASE LifecycleErrorConverging(e)
      BY <1>4, <2>1 DEF LifecycleErrorConverging
    <2>2. CASE Converge(e) \/ ConvergeToShutdown(e)
      <3>1. shutting
        BY <1>1, <1>2, <2>2 DEF Converge, ConvergeToShutdown, WhyConverge
      <3>2. shutting' = shutting
        BY <1>4, <2>2 DEF Converge, ConvergeToShutdown
      <3>3. QED
        BY <3>1, <3>2
    <2>3. QED
      BY <1>16, <2>1, <2>2
  <1>17. CASE FinishLater \/ FinishClose \/ FinishRecycle \/ FinishAnnounce
    BY <1>3, <1>4, <1>5, <1>6, <1>17 DEF FinishLater, FinishClose, FinishRecycle,
       FinishAnnounce, FinishReady, Finishing
  <1>18. CASE FinishStop
    <2>1. pending.trigger = "shutdown" /\ shutting' = shutting
      BY <1>4, <1>18 DEF FinishStop
    <2>2. QED
      BY <1>1, <2>1 DEF ShutsDown
  <1>19. QED
    BY <1>7, <1>9, <1>10, <1>11, <1>12, <1>13, <1>14, <1>15, <1>16, <1>17, <1>18 DEF Dispatch

\* The signals of a set of messages: one for each.
LEMMA SignalsAll ==
    ASSUME NEW S \in SUBSET Messages
    PROVE  /\ Signals(S) \in Seq(Items)
           /\ \A m \in S : \E i \in DOMAIN Signals(S) : Signals(S)[i] = MessageArrived(m)
  <1>1. S \subseteq Nat /\ IsFiniteSet(S)
    <2>1. IsFiniteSet(Messages) /\ Messages \subseteq Nat
      BY OpsAssumption, FS_Interval DEF Messages
    <2>2. QED
      BY <2>1, FS_Subset
  <1> DEFINE order == InOrder(S)
  <1>2. /\ order \in Seq(S) /\ Cardinality(S) \in Nat /\ DOMAIN order = 1 .. Cardinality(S)
        /\ \A x \in S : \E i \in DOMAIN order : order[i] = x
    BY <1>1, InOrderLists
  <1>3. Signals(S) = [i \in DOMAIN order |-> MessageArrived(order[i])]
    BY DEF Signals
  <1> HIDE DEF order
  <1>4. \A m \in S : MessageArrived(m) \in Items
    BY <1>1 DEF MessageArrived, Items, Arrivals
  <1>5. \A i \in DOMAIN order : order[i] \in S
    BY <1>2
  <1>6. Signals(S) \in [1 .. Cardinality(S) -> Items]
    BY <1>2, <1>3, <1>4, <1>5
  <1>7. Signals(S) \in Seq(Items)
    BY <1>2, <1>6
  <1>8. QED
    BY <1>2, <1>3, <1>7

\* The dispatch loop keeps the messages announced.
LEMMA DispatchAnnounced ==
    ASSUME Known, BufferInv, Announced, Dispatch
    PROVE  Announced'
  <1> SUFFICES ASSUME state' = "IDLE", ~shutting', begun' + 1 \in Sessions, flow'.at # "dead",
                      NEW m \in Present(buf')
               PROVE  /\ buf'.item[m].state = "queued"
                      /\ \E i \in DOMAIN inbox' : inbox'[i] = MessageArrived(m)
    BY DEF Announced, Present, MessageArrived
  <1>1. Shape /\ Numbered /\ inbox \in Seq(Items)
    BY DEF Known, Shape, InboxShape
  <1>2. CASE FinishIdle
    <2> DEFINE closed == ReadClosed
               kept == Present(closed)
    <2>1. \/ buf' = EmptyBuffer
          \/ buf' = Flush(closed) /\ inbox' = inbox \o Signals(kept)
      BY <1>2 DEF FinishIdle, Raise
    <2>2. CASE buf' = EmptyBuffer
      BY <2>2, Shrinks
    <2>3. CASE buf' = Flush(closed) /\ inbox' = inbox \o Signals(kept)
      <3>1. kept \subseteq Messages
        BY DEF Present
      <3>2. m \in kept /\ buf'.item[m].state = "queued"
        BY <2>3 DEF Present, Flush, Absent, Queued
      <3> HIDE DEF kept
      <3>3. Signals(kept) \in Seq(Items)
            /\ \E i \in DOMAIN Signals(kept) : Signals(kept)[i] = MessageArrived(m)
        BY <3>1, <3>2, SignalsAll
      <3> DEFINE t == Signals(kept)
      <3>4. t \in Seq(Items) /\ inbox' = inbox \o t
            /\ \E i \in DOMAIN t : t[i] = MessageArrived(m)
        BY <2>3, <3>3
      <3> HIDE DEF t
      <3>5. \A j \in DOMAIN t : j + Len(inbox) \in DOMAIN (inbox \o t)
                                /\ (inbox \o t)[j + Len(inbox)] = t[j]
        BY ONLY <1>1, <3>4, Joined
      <3>6. QED
        BY <3>2, <3>4, <3>5
    <2>4. QED
      BY <2>1, <2>2, <2>3
  <1>3. CASE ~FinishIdle
    <2>1. /\ state = "IDLE" /\ UNCHANGED <<buf, begun, shutting>> /\ flow.at # "dead"
          /\ flow.at = "receive" /\ Entry.type = "message" => begun + 1 \notin Sessions
      BY <1>3, IdleSteps
    <2>2. PICK i \in DOMAIN inbox : inbox[i] = MessageArrived(m)
      BY <2>1 DEF Announced
    <2>3. buf'.item[m].state = "queued"
      BY <2>1 DEF Announced
    <2>4. PICK k \in {0, 1} : k = Passed
      BY DEF Passed
    <2>5. i > k
      <3>1. ASSUME ~(i > k) PROVE FALSE
        <4>1. flow.at = "receive" /\ inbox[i] = Entry
          BY <2>4, <3>1, FirstTaken
        <4>2. Entry.type = "message"
          BY <2>2, <4>1 DEF MessageArrived
        <4>3. QED
          BY <2>1, <4>1, <4>2
      <3>2. QED
        BY <3>1
    <2>6. Carried(k)
      BY <2>4, DispatchStep
    <2>7. QED
      BY <2>2, <2>3, <2>5, <2>6 DEF Carried
  <1>4. QED
    BY <1>2, <1>3

\* In IDLE no task works, and a message that comes is announced.
LEMMA OutsideAnnounced ==
    ASSUME Known, BufferInv, Announced, Work \/ Recover \/ AckElapses \/ World
    PROVE  Announced'
  <1> SUFFICES ASSUME state' = "IDLE", ~shutting', begun' + 1 \in Sessions, flow'.at # "dead",
                      NEW m \in Present(buf')
               PROVE  /\ buf'.item[m].state = "queued"
                      /\ \E i \in DOMAIN inbox' : inbox'[i] = MessageArrived(m)
    BY DEF Announced, Present, MessageArrived
  <1>1. Shape /\ inbox \in Seq(Items) /\ accepted \in Nat
    BY DEF Known, Shape, InboxShape, WorldShape
  <1>2. UNCHANGED <<state, shutting, begun, flow>>
    BY OutsideKeeps
  <1>3. ~Work
    BY <1>2 DEF Work, Known, SessionInv, Quiet
  <1>4. ASSUME NEW i \in DOMAIN inbox
        PROVE  i \in DOMAIN inbox' /\ inbox'[i] = inbox[i]
    <2>1. ASSUME NEW x \in Items, inbox' = inbox \o <<x>>
          PROVE  i \in DOMAIN inbox' /\ inbox'[i] = inbox[i]
      BY <1>1, <1>4, <2>1
    <2>2. QED
      BY <1>1, <1>3, <1>4, <2>1, OutsideAdds
  <1>5. ASSUME m \in Present(buf), buf'.item[m] = buf.item[m]
        PROVE  /\ buf'.item[m].state = "queued"
               /\ \E i \in DOMAIN inbox' : inbox'[i] = MessageArrived(m)
    BY <1>2, <1>4, <1>5 DEF Announced
  <1>6. CASE Ingest
    <2> DEFINE x == MessageArrived(accepted + 1)
    <2>1. /\ buf' = Store(buf, accepted + 1) /\ inbox' = inbox \o <<x>>
      BY <1>6 DEF Ingest, Put
    <2>2. CASE m = accepted + 1
      <3>1. buf'.item[m] = Queued
        BY <2>1, <2>2 DEF Present, Store
      <3>2. Len(inbox) + 1 \in DOMAIN inbox' /\ inbox'[Len(inbox) + 1] = x
        <4> HIDE DEF x
        <4>1. QED
          BY <1>1, <2>1
      <3>3. QED
        BY <2>2, <3>1, <3>2 DEF Queued
    <2>3. CASE m # accepted + 1
      <3>1. buf'.item[m] \in {Absent, buf.item[m]}
        BY <2>1, <2>3 DEF Present, Store
      <3>2. buf'.item[m].state # "absent" /\ m \in Messages
        BY DEF Present
      <3>3. buf'.item[m] = buf.item[m]
        BY <3>1, <3>2 DEF Absent
      <3>4. QED
        BY <1>5, <3>2, <3>3 DEF Present
    <2>4. QED
      BY <2>2, <2>3
  <1>7. CASE ~Ingest
    <2>1. buf' = buf
      BY <1>3, <1>7 DEF Recover, RecoveryEnds, AckElapses, World, Signalled, Input, EngineDies
    <2>2. QED
      BY <1>5, <2>1
  <1>8. QED
    BY <1>6, <1>7

\* In every run of the manager a message that is left in IDLE will wake the device.
THEOREM NothingForgotten == Spec => []NoForgottenMessage
  <1>1. Init => Announced
    BY Shrinks DEF Init, Announced
  <1>2. Known /\ BufferInv /\ Announced /\ [Next]_vars => Announced'
    <2> SUFFICES ASSUME Known, BufferInv, Announced, [Next]_vars PROVE Announced'
      OBVIOUS
    <2>1. CASE UNCHANGED vars
      BY <2>1 DEF vars, manager, flags, world, Announced, Present, MessageArrived
    <2>2. CASE Dispatch
      BY <2>2, DispatchAnnounced
    <2>3. CASE Work \/ Recover \/ AckElapses \/ World
      BY <2>3, OutsideAnnounced
    <2>4. QED
      BY <2>1, <2>2, <2>3 DEF Next
  <1>3. Announced => NoForgottenMessage
    BY DEF Announced, NoForgottenMessage, Outside
  <1>4. QED
    BY <1>1, <1>2, <1>3, KnownHolds, BufferHolds, PTL DEF Spec

-----------------------------------------------------------------------------
(* The manager implements the device of SessionLifecycle: a step of its    *)
(* dispatch task is one of the device's or leaves the device as it is.     *)

\* Only a shutdown that is handled changes shutting, and it changes nothing public.
LEMMA ShutsOnce ==
    ASSUME Dispatch
    PROVE  \/ shutting' = shutting
           \/ HandleShutdown /\ shutting' /\ UNCHANGED <<state, session, begun>>
              /\ flow.at = "receive" /\ flow'.at = "converge"
  <1> DEFINE Good == \/ shutting' = shutting
                     \/ HandleShutdown /\ shutting' /\ UNCHANGED <<state, session, begun>>
                        /\ flow.at = "receive" /\ flow'.at = "converge"
  <1>1. shutting' = shutting => Good
    OBVIOUS
  <1>2. UNCHANGED flags => Good
    BY DEF flags
  <1>3. ASSUME NEW cause, Raise(cause) PROVE Good
    BY <1>2, <1>3 DEF Raise
  <1>4. ASSUME HandleShutdown PROVE Good
    BY <1>4 DEF HandleShutdown, Call, manager
  <1> HIDE DEF Good
  <1>5. SUFFICES ASSUME TRUE PROVE Good
    BY DEF Good
  <1>6. CASE \/ IgnoreItem \/ HandleWake \/ HandleMessage \/ HandleUnknownMessage
             \/ HandleInterrupt \/ HandleAck \/ HandleFact \/ HandleDone \/ HandleOpened
             \/ HandleLifecycleFailed
    BY <1>1, <1>2, <1>3, <1>6 DEF IgnoreItem, HandleWake, HandleMessage,
       HandleUnknownMessage, HandleInterrupt, HandleAck, HandleFact, HandleDone, HandleOpened,
       HandleLifecycleFailed, BeginSession
  <1>7. CASE \/ HandleRejected \/ HandleClosed \/ HandleRecovered \/ HandlePlannedRecovery
             \/ HandleError \/ ShutdownCleanupFails
    BY <1>1, <1>2, <1>3, <1>7 DEF HandleRejected, HandleClosed, NextConversation,
       HandleRecovered, HandlePlannedRecovery, HandleError, ShutdownCleanupFails
  <1>8. CASE \/ ProgressConverging \/ ProgressWaits \/ ProgressToPerception \/ ProgressHeard
             \/ ProgressThought \/ ProgressRest \/ ProgressEnd \/ ProgressReplace
             \/ ProgressKeep \/ ProgressStop \/ EnterPerception \/ EnterThink \/ EnterAction
    BY <1>1, <1>2, <1>3, <1>8 DEF ProgressConverging, ProgressWaits, ProgressToPerception,
       ProgressHeard, ProgressThought, ProgressRest, ProgressEnd, ProgressReplace,
       ProgressKeep, ProgressStop, EnterPerception, EnterThink, EnterAction
  <1>9. ASSUME NEW e \in Endured,
               Converge(e) \/ ConvergeToShutdown(e) \/ LifecycleErrorConverging(e)
        PROVE  Good
    BY <1>1, <1>3, <1>9 DEF Converge, ConvergeToShutdown, LifecycleErrorConverging
  <1>10. CASE \/ ConvergeAgain \/ LifecycleError \/ FinishLater \/ FinishClose \/ FinishRecycle
              \/ FinishAnnounce \/ FinishStop \/ FinishIdle
    BY <1>1, <1>2, <1>3, <1>10 DEF ConvergeAgain, LifecycleError, FinishLater, FinishClose,
       FinishRecycle, FinishAnnounce, FinishStop, FinishIdle
  <1>11. QED
    BY <1>4, <1>6, <1>7, <1>8, <1>9, <1>10 DEF Dispatch

\* A step of the dispatch loop is a step of the device.
LEMMA DispatchLives ==
    ASSUME Known, Dispatch
    PROVE  Lifecycle!LifecycleNext \/ UNCHANGED Lifecycle!public
  <1> DEFINE Turn == IF flow.at = "perception" THEN session.turn + 1 ELSE session.turn
             Same == /\ session'.id = session.id /\ begun' = begun /\ Turn' = Turn
                     /\ shutting' = shutting
             Good == Lifecycle!LifecycleNext \/ UNCHANGED Lifecycle!public
  <1>1. Shape /\ ErrorConverges /\ Entering /\ Owned /\ ShutsDown /\ FinishingConverges
    BY DEF Known, RecoveryInv, ReportsInv, SessionInv
  <1>2. ASSUME Same, \/ state' \in {state, "ERROR"}
                     \/ state = "PERCEPTION" /\ state' \in {"THINK", "ACTION"}
                     \/ state = "THINK" /\ state' = "ACTION"
        PROVE  Good
    BY <1>2 DEF Lifecycle!LifecycleNext, Lifecycle!public, Lifecycle!Fail, Lifecycle!Think,
       Lifecycle!Act, Lifecycle!Same, Lifecycle!Move
  <1>3. ASSUME session'.id = session.id, begun' = begun, shutting' = shutting,
               Turn' = Turn + 1, state \in {"WAKE", "ACTION"}, state' = "PERCEPTION"
        PROVE  Good
    BY <1>3 DEF Lifecycle!LifecycleNext, Lifecycle!BeginTurn, Lifecycle!Move
  <1>4. ASSUME state = "IDLE", state' = "WAKE", ~shutting, shutting' = shutting,
               begun' = begun + 1, session'.id = begun + 1, Turn' = 0
        PROVE  Good
    BY <1>4 DEF Lifecycle!LifecycleNext, Lifecycle!BeginSession, Lifecycle!Move
  <1>5. ASSUME session'.id = 0, Turn' = 0, begun' = begun, shutting' = shutting,
               state' = "IDLE" \/ (shutting /\ state' = state)
        PROVE  Good
    BY <1>5 DEF Lifecycle!LifecycleNext, Lifecycle!End, Lifecycle!Stop
  <1>6. ASSUME shutting' = TRUE, state' = state, session'.id = session.id, begun' = begun,
               Turn' = Turn
        PROVE  Good
    BY <1>6 DEF Lifecycle!LifecycleNext, Lifecycle!Shutdown
  <1> HIDE DEF Good
  <1>7. SUFFICES ASSUME TRUE PROVE Good
    BY DEF Good
  <1>8. NoContext.id = 0 /\ NoContext.turn = 0
    BY DEF NoContext
  <1>9. CASE shutting' # shutting
    <2>1. shutting' = TRUE
      BY <1>1, <1>9, ShutsOnce DEF Shape, FlagsShape
    <2>2. QED
      BY <1>6, <1>9, <2>1, ShutsOnce
  <1>10. CASE shutting' = shutting /\ Begins
    <2>1. flow'.at # "perception"
      BY <1>1, <1>10, Entrances
      DEF Begins, ProgressToPerception, ProgressKeep, Acted, MayProgress, Progress
    <2>2. Turn' = 0 /\ session'.id = begun + 1 /\ begun' = begun + 1 /\ state = "IDLE"
          /\ state' = "WAKE" /\ ~shutting
      BY <1>1, <1>10, <2>1, Begun
    <2> HIDE DEF Turn
    <2>3. QED
      BY <1>4, <1>10, <2>2
  <1>11. CASE shutting' = shutting /\ (FinishStop \/ FinishIdle)
    <2>1. flow.at = "finish" /\ flow'.at # "perception"
      <3>1. flow.at = "finish"
        BY <1>11 DEF FinishStop, FinishIdle, FinishLast, FinishReady, Finishing
      <3>2. QED
        BY <1>1, <3>1, Entrances
        DEF ProgressToPerception, ProgressKeep, Acted, MayProgress, Progress
    <2>2. CASE \E cause : Raise(cause)
      <3>1. UNCHANGED <<state, session, begun>>
        BY <2>2 DEF Raise, manager, flags
      <3>2. Same
        BY <1>11, <2>1, <3>1
      <3>3. QED
        BY <1>2, <3>1, <3>2
    <2>3. CASE ~\E cause : Raise(cause)
      <3>1. session' = NoContext /\ begun' = begun /\ (FinishIdle => state' = "IDLE")
            /\ (FinishStop => state' = state)
        BY <1>11, <2>3, SessionOver
      <3>2. FinishStop => shutting
        BY <1>1 DEF FinishStop, ShutsDown
      <3>3. Turn' = 0 /\ session'.id = 0
        BY <1>8, <2>1, <3>1
      <3> HIDE DEF Turn
      <3>4. QED
        BY <1>5, <1>11, <3>1, <3>2, <3>3
    <2>4. QED
      BY <2>2, <2>3
  <1>12. CASE shutting' = shutting /\ ~Begins /\ ~FinishStop /\ ~FinishIdle
    <2>1. /\ session'.id = session.id /\ begun' = begun
          /\ session'.turn = session.turn \/ EnterPerception
      BY <1>1, <1>12, SessionStays DEF SessionKept
    <2>2. CASE EnterPerception
      <3>1. session'.turn = session.turn + 1 /\ flow.at = "perception"
        <4>1. session' = [session EXCEPT !.turn = NextTurn, !.results = {},
                                         !.resp = NoResponse, !.done = "none"]
          BY <2>2 DEF EnterPerception
        <4>2. QED
          BY <1>1, <2>2, <4>1 DEF Shape, ManagerShape, Context, NextTurn, EnterPerception
      <3>2. flow'.at # "perception"
        BY <1>1, <2>2, Entrances
        DEF ProgressToPerception, ProgressKeep, Acted, MayProgress, Progress, EnterPerception
      <3>3. state' \in {state, "ERROR"}
        BY <1>1, <2>2, StepsLead DEF Steps
      <3>4. Same
        BY <1>12, <2>1, <3>1, <3>2
      <3>5. QED
        BY <1>2, <3>3, <3>4
    <2>3. CASE ProgressToPerception \/ ProgressKeep
      <3>1. flow.at = "progress"
        BY <2>3 DEF ProgressToPerception, ProgressKeep, Acted, MayProgress, Progress
      <3>2. flow'.at = "perception" /\ state' = "PERCEPTION"
        BY <1>1, <2>3, StepsLead DEF Steps
      <3>3. session'.turn = session.turn /\ state \in {"WAKE", "ACTION"}
        BY <2>1, <2>3, <3>1 DEF EnterPerception, ProgressToPerception, ProgressKeep, Acted
      <3>4. Turn' = Turn + 1
        BY <3>1, <3>2, <3>3
      <3> HIDE DEF Turn
      <3>5. QED
        BY <1>3, <1>12, <2>1, <3>2, <3>3, <3>4
    <2>4. CASE ~EnterPerception /\ ~ProgressToPerception /\ ~ProgressKeep
      <3>1. flow.at # "perception" /\ flow'.at # "perception"
        BY <1>1, <2>4, Entrances
      <3>2. Same
        BY <1>12, <2>1, <2>4, <3>1
      <3>3. \/ state' \in {state, "ERROR"}
            \/ state = "PERCEPTION" /\ state' \in {"THINK", "ACTION"}
            \/ state = "THINK" /\ state' = "ACTION"
        BY <1>1, <1>12, <2>4, StateMoves
      <3>4. QED
        BY <1>2, <3>2, <3>3
    <2>5. QED
      BY <2>2, <2>3, <2>4
  <1>13. QED
    BY <1>9, <1>10, <1>11, <1>12

\* The manager implements the device: sessions one after the other, each a sequence of
\* turns, none after a shutdown.
THEOREM ManagerLives == Spec => ImplementsLifecycle
  <1>1. Init => Lifecycle!LifecycleInit
    BY DEF Init, Lifecycle!LifecycleInit, NoContext
  <1>2. Known /\ [Next]_vars => [Lifecycle!LifecycleNext]_(Lifecycle!public)
    <2> SUFFICES ASSUME Known, [Next]_vars
                 PROVE  Lifecycle!LifecycleNext \/ UNCHANGED Lifecycle!public
      OBVIOUS
    <2>1. CASE UNCHANGED vars
      BY <2>1 DEF vars, manager, flags, Lifecycle!public
    <2>2. CASE Dispatch
      BY <2>2, DispatchLives
    <2>3. CASE Work \/ Recover \/ AckElapses \/ World
      BY <2>3, OutsideKeeps DEF Lifecycle!public
    <2>4. QED
      BY <2>1, <2>2, <2>3 DEF Next
  <1>3. QED
    BY <1>1, <1>2, KnownHolds, PTL DEF Spec, ImplementsLifecycle, Lifecycle!LifecycleSpec
=============================================================================
