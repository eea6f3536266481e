---------------------------- MODULE LLMChild_proofs ----------------------------
(***************************************************************************)
(* That the two ledgers of the language model's child agree, that an answer*)
(* reaches the request it is for, and that the child keeps no conversation *)
(* and no text it does not account for: for every number of conversations, *)
(* requests, fragments, children and faults, and every size of the queue.  *)
(***************************************************************************)
EXTENDS LLMChild, TLAPS

(***************************************************************************)
(* The values.                                                             *)
(***************************************************************************)
Generations == 0 .. MaxGeneration
LedgerStates ==
    {"ENGINE_READY", "CONVERSATION_READY", "MEASURED", "TAINTED", "STOPPING", "STOPPED",
     "DESTROYED", "OPENING", "MEASURING", "GENERATING", "DISCARDING", "CLOSING"}
Actives == [op : Ops \cup {"none"}, generation : Generations, ticket : Nat]
Ledgers ==
    [state : LedgerStates, claim : Generations, revision : Nat, counter : Nat,
     active : Actives, ticket : Nat, consumed : Nat,
     cancelled : BOOLEAN, deferred : BOOLEAN, fragments : Nat]
Frames ==
    [op : Ops \cup {"CANCEL", "SHUTDOWN"}, id : Nat, generation : Generations, ticket : Nat]
Events == Terminals \cup {"READY", "FATAL", "SAFE_TEXT", "CANCEL_DEFERRED", "SHUTDOWN_ACK"}
Replies ==
    [event : Events, id : Nat, generation : Generations, revision : Nat, ticket : Nat,
     proven : BOOLEAN]
Operations ==
    [kind : Ops \cup {"none", "START", "REBUILD", "STOP"},
     phase : {"idle", "destroy", "ready", "wait", "raise", "stop"},
     expired : BOOLEAN, atomic : BOOLEAN]
Workers ==
    [status : {"starting", "idle", "busy", "exited"}, stage : Nat, ledger : Ledgers,
     thread : {"none", "ready", "native", "done"},
     outcome : {"none", "ok", "rejected", "cancelled", "failed"},
     queue : 0 .. QueueSize, produced : Nat, conversation : BOOLEAN, scratch : BOOLEAN,
     pending : BOOLEAN, hit : BOOLEAN, cache : {"none", "reading", "done"}]

Shape ==
    /\ adapter \in AdapterStates /\ ledger \in Ledgers /\ op \in Operations
    /\ responses \in Seq(Replies) /\ reader \in BOOLEAN
    /\ destruction \in {"none", "running", "done", "unproven"}
    /\ recycle \in Generations /\ proof \in Generations
    /\ authorization \in {"none", "running", "rebuilding", "rebuilt", "broken", "done", "failed"}
    /\ aborting \in BOOLEAN /\ stopping \in BOOLEAN /\ generation \in Generations
    /\ epoch \in Nat /\ worker \in Workers
    /\ toChild \in Seq(Frames) /\ toParent \in Seq(Replies) /\ faults \in Nat

(***************************************************************************)
(* The parent on its own.                                                  *)
(***************************************************************************)
(* Who reads, in which phase.                                              *)
Sides ==
    /\ ledger.state \notin {"STOPPING", "STOPPED"}
    /\ reader => /\ worker.status # "starting"
                 /\ op.phase \in {"idle", "wait"}
    /\ adapter = "STOPPED" => op = NoOp /\ ~reader /\ ~stopping

(* A child that is awaited has written nothing but its READY.              *)
Awaits ==
    op.phase = "ready" =>
        /\ toChild = <<>> /\ worker.ledger = FreshLedger
        /\ \/ worker.status = "starting" /\ toParent = <<>>
           \/ worker.status = "idle" /\ Len(toParent) = 1
           \/ worker.status = "exited"

(* While the pipe is read, an open request has the operation that asked.   *)
Waits ==
    reader /\ ledger.active # NoRequest => op.phase = "wait" /\ op.kind = ledger.active.op

(* A terminal is the last response, of the operation that waits; or nobody *)
(* will use the engine before the responses are dropped.                   *)
Mine(r) ==
    /\ op.phase = "wait" /\ op.kind \in Answers[r.event]
    /\ r.id = ledger.counter /\ ledger.active = NoRequest

Own ==
    \A i \in 1 .. Len(responses) : Terminal(responses[i]) =>
        \/ Mine(responses[i]) /\ i = Len(responses)
        \/ op.phase # "wait" /\ ~Usable

(***************************************************************************)
(* The two ledgers.  Replays(ls): the events in the pipe lead from ls[0] to*)
(* the child's ledger, one by one.                                         *)
(***************************************************************************)
Cancelling(l) == [l EXCEPT !.cancelled = TRUE]

Replays(ls) ==
    /\ ls[Len(toParent)] = worker.ledger
    /\ \A i \in 1 .. Len(toParent) :
           ls[i - 1].active # NoRequest /\ ls[i] = Told(ls[i - 1], toParent[i])

(* A CANCEL that crossed the answer it was to prevent: the child refuses it*)
(* and ends.                                                               *)
Doomed == worker.status = "idle" /\ toChild # <<>> /\ Head(toChild).op = "CANCEL"

(* Nothing but the events, a CANCEL on its way, a request, or both, stands *)
(* between the two ledgers.                                                *)
Follows(l) ==
    \/ toChild = <<>> /\ ledger = l
    \/ /\ worker.status = "busy" /\ Len(toChild) = 1 /\ toChild[1].op = "CANCEL"
       /\ ledger = Cancelling(l)
    \/ /\ worker.status = "idle" /\ toParent = <<>> /\ toChild # <<>>
       /\ toChild[1].op \in Ops
       /\ \/ Len(toChild) = 1 /\ ledger = Commanded(l, toChild[1])
          \/ /\ Len(toChild) = 2 /\ toChild[2].op = "CANCEL"
             /\ ledger = Cancelling(Commanded(l, toChild[1]))

Linked == \E ls \in [0 .. Len(toParent) -> Ledgers] : Replays(ls) /\ Follows(ls[0])
Together == reader /\ Live => Doomed \/ Linked

(***************************************************************************)
(* The child on its own.                                                   *)
(***************************************************************************)
(* The request under way, and what can become of it.                       *)
Working ==
    /\ worker.status = "starting" =>
        worker.ledger = FreshLedger /\ ~worker.conversation /\ ~worker.scratch
    /\ worker.status = "busy" =>
        /\ worker.ledger.active.op \in Ops
        /\ worker.thread = "done" => worker.outcome # "none"
        /\ worker.outcome \in {"rejected", "cancelled"} => worker.ledger.active.op = "GENERATE"
        /\ worker.hit => worker.ledger.active.op = "GENERATE"
        /\ worker.pending => worker.ledger.cancelled
        /\ worker.ledger.cancelled => worker.ledger.active.op \in Cancellable
    /\ worker.status = "busy" /\ worker.ledger.active.op = "OPEN" =>
        worker.ledger.active.generation # 0 /\ worker.ledger.claim = 0
    /\ worker.ledger.state = "ENGINE_READY" => worker.ledger.claim = 0

(* No conversation is asked for without a number.                          *)
Asked == \A i \in 1 .. Len(toChild) : toChild[i].op = "OPEN" => toChild[i].generation # 0

(* The native conversation under each request.                             *)
Conversing ==
    LET operation == worker.ledger.active.op
    IN worker.status = "busy" =>
        /\ operation \notin {"OPEN", "CLOSE"} =>
              (worker.conversation <=> worker.ledger.claim # 0)
        /\ operation = "OPEN" /\ worker.thread = "done" /\ worker.outcome = "ok" =>
              worker.conversation
        /\ operation = "CLOSE" /\ worker.thread = "done" => ~worker.conversation

(* The measured text under each request.                                   *)
Scrubbed ==
    LET operation == worker.ledger.active.op
    IN worker.status = "busy" =>
        /\ operation = "OPEN" => ~worker.scratch
        /\ operation = "CLOSE" /\ worker.thread = "done" => ~worker.scratch
        /\ operation = "GENERATE" /\ worker.thread = "done" =>
              ~worker.scratch \/ worker.ledger.cancelled
        /\ operation = "DISCARD_TICKET" /\ worker.thread = "done" /\ worker.outcome = "ok" =>
              ~worker.scratch

WorkerInv == Working /\ Conversing /\ Scrubbed /\ CleanChild
ParentInv == Sides /\ Awaits /\ Waits /\ Own
IInv == Shape /\ ParentInv /\ Together /\ Asked /\ WorkerInv


(***************************************************************************)
(* What a command and an event do to a ledger.                             *)
(***************************************************************************)
(* The bounds are numbers.                                                 *)
LEMMA Bounds ==
    MaxGeneration \in Nat /\ MaxRequests \in Nat /\ QueueSize \in Nat
BY LLMAssumption

(* The terminals, one by one.                                              *)
LEMMA TerminalsAre ==
    Terminals = {"OPENED", "OPEN_REJECTED", "MEASURED", "TICKET_DISCARDED", "RESULT",
                 "REQUEST_FAILED", "CLOSED", "CANCELLED"}
BY DEF Terminals, Answers

(* A fresh ledger, and a reply, are what they should be.                   *)
LEMMA FreshIsALedger == FreshLedger \in Ledgers
<1>1. NoRequest \in Actives BY Bounds DEF NoRequest, Actives, Generations
<1>2. QED BY <1>1, Bounds DEF FreshLedger, Ledgers, LedgerStates, Generations

(* A CANCEL changes one field.                                             *)
LEMMA CancelShape ==
    ASSUME NEW l \in Ledgers
    PROVE  /\ Cancelling(l) \in Ledgers /\ Cancelling(l).active = l.active
           /\ Cancelling(l).counter = l.counter /\ Cancelling(l).state = l.state
           /\ Cancelling(l).claim = l.claim /\ Cancelling(l).cancelled
BY DEF Cancelling, Ledgers

(* A CANCEL as a command.                                                  *)
LEMMA CancelCommand ==
    ASSUME NEW l, NEW frame, frame.op = "CANCEL"
    PROVE  Commanded(l, frame) = Cancelling(l)
BY DEF Commanded, Cancelling

(* A request leaves a ledger with that request open, in a state of its own.*)
LEMMA RequestShape ==
    ASSUME NEW l \in Ledgers, NEW frame \in Frames, frame.op \in Ops
    PROVE  LET m == Commanded(l, frame)
           IN /\ m \in Ledgers
              /\ m.active = [op |-> frame.op, generation |-> frame.generation,
                             ticket |-> frame.ticket]
              /\ m.counter = l.counter + 1 /\ m.claim = l.claim /\ ~m.cancelled
              /\ m.state \in {"OPENING", "MEASURING", "GENERATING", "DISCARDING", "CLOSING"}
<1> DEFINE a == [op |-> frame.op, generation |-> frame.generation, ticket |-> frame.ticket]
           c == CASE frame.op = "GENERATE" -> l.ticket
                  [] frame.op = "CLOSE" -> 0
                  [] OTHER -> l.consumed
           t == IF frame.op \in {"GENERATE", "CLOSE"} THEN 0 ELSE l.ticket
<1>1. a \in Actives BY DEF Actives, Frames
<1>2. c \in Nat /\ t \in Nat BY DEF Ledgers
<1>3. Doing[frame.op] \in {"OPENING", "MEASURING", "GENERATING", "DISCARDING", "CLOSING"}
  BY DEF Doing, Ops
<1>4. Commanded(l, frame) = [l EXCEPT !.state = Doing[frame.op], !.counter = @ + 1,
                                      !.active = a, !.consumed = c, !.ticket = t,
                                      !.cancelled = FALSE, !.deferred = FALSE, !.fragments = 0]
  BY DEF Commanded, Ops
<1>5. Doing[frame.op] \in LedgerStates BY <1>3 DEF LedgerStates
<1> HIDE DEF a, c, t
<1> DEFINE n == l.counter + 1
<1>8. n \in Nat BY DEF Ledgers
<1>9. 0 \in Nat /\ FALSE \in BOOLEAN OBVIOUS
<1>10. Commanded(l, frame) = [l EXCEPT !.state = Doing[frame.op], !.counter = n,
                                       !.active = a, !.consumed = c, !.ticket = t,
                                       !.cancelled = FALSE, !.deferred = FALSE,
                                       !.fragments = 0]
  BY <1>4
<1> HIDE DEF n
<1>6. Commanded(l, frame) \in Ledgers BY ZenonT(60), <1>1, <1>2, <1>5, <1>8, <1>9, <1>10 DEF Ledgers
<1>7. QED BY <1>3, <1>10, <1>6 DEF Ledgers, a, n

(* An event leaves a ledger, when a CANCELLED comes only where it may; the *)
(* request stays open until a terminal.                                    *)
LEMMA ToldShape ==
    ASSUME NEW l \in Ledgers, NEW e \in Replies,
           e.event = "CANCELLED" => l.active.op \in DOMAIN AfterCancelled
    PROVE  LET m == Told(l, e)
           IN /\ m \in Ledgers /\ m.counter = l.counter /\ m.cancelled = l.cancelled
              /\ m.active = IF e.event \in {"SHUTDOWN_ACK", "CANCEL_DEFERRED", "SAFE_TEXT"}
                            THEN l.active ELSE NoRequest
<1>1. NoRequest \in Actives BY Bounds DEF NoRequest, Actives, Generations
<1>2. l.active.generation \in Generations /\ e.generation \in Generations /\ e.ticket \in Nat
      /\ 0 \in Generations /\ l.fragments \in Nat /\ l.revision \in Nat /\ 0 \in Nat
  BY Bounds DEF Ledgers, Actives, Replies, Generations
<1>3. e.event = "CANCELLED" => AfterCancelled[l.active.op] \in LedgerStates
  BY DEF AfterCancelled, LedgerStates
<1>4. Ended(l, e) \in Ledgers /\ Ended(l, e).counter = l.counter
      /\ Ended(l, e).cancelled = l.cancelled
  <2>1. CASE e.event = "CANCELLED"
    <3>1. Ended(l, e) = [l EXCEPT !.state = AfterCancelled[l.active.op], !.ticket = 0,
                                  !.consumed = 0] BY <2>1 DEF Ended
    <3>2. QED BY <2>1, <3>1, <1>3, <1>2 DEF Ledgers
  <2>2. CASE e.event = "OPENED"
    <3>1. Ended(l, e) = [l EXCEPT !.state = "CONVERSATION_READY",
                                  !.claim = l.active.generation, !.revision = 0]
      BY <2>2 DEF Ended
    <3>2. QED BY <3>1, <1>2 DEF Ledgers, LedgerStates
  <2>3. CASE e.event = "OPEN_REJECTED"
    BY <2>3 DEF Ended, Ledgers, LedgerStates
  <2>4. CASE e.event = "MEASURED"
    BY <2>4, <1>2 DEF Ended, Ledgers, LedgerStates
  <2>5. CASE e.event = "TICKET_DISCARDED"
    BY <2>5 DEF Ended, Ledgers, LedgerStates
  <2>6. CASE e.event = "RESULT"
    <3>1. Ended(l, e) = [l EXCEPT !.state = "CONVERSATION_READY",
                                  !.revision = l.revision + 1, !.consumed = 0]
      BY <2>6 DEF Ended
    <3>2. l.revision + 1 \in Nat BY <1>2
    <3>3. QED BY <3>1, <3>2, <1>2 DEF Ledgers, LedgerStates
  <2>7. CASE e.event = "REQUEST_FAILED"
    BY <2>7 DEF Ended, Ledgers, LedgerStates
  <2>8. CASE e.event \notin {"CANCELLED", "OPENED", "OPEN_REJECTED", "MEASURED",
                             "TICKET_DISCARDED", "RESULT", "REQUEST_FAILED"}
    <3>1. Ended(l, e) = [l EXCEPT !.state = "ENGINE_READY", !.claim = 0, !.ticket = 0,
                                  !.consumed = 0, !.fragments = 0] BY <2>8 DEF Ended
    <3>2. QED BY <3>1, <1>2 DEF Ledgers, LedgerStates
  <2>9. QED BY <2>1, <2>2, <2>3, <2>4, <2>5, <2>6, <2>7, <2>8
<1>5. CASE e.event = "SHUTDOWN_ACK" BY <1>5 DEF Told, Ledgers, LedgerStates
<1>6. CASE e.event = "CANCEL_DEFERRED" BY <1>6 DEF Told, Ledgers
<1>7. CASE e.event = "SAFE_TEXT" BY <1>7, <1>2 DEF Told, Ledgers
<1>8. CASE e.event \notin {"SHUTDOWN_ACK", "CANCEL_DEFERRED", "SAFE_TEXT"}
  <2>1. Told(l, e) = [Ended(l, e) EXCEPT !.active = NoRequest] BY <1>8 DEF Told
  <2>2. QED BY <2>1, <1>8, <1>4, <1>1 DEF Ledgers
<1>9. QED BY <1>5, <1>6, <1>7, <1>8

(* It is the same to hear of an event and then cancel, or the other way    *)
(* round: why a CANCEL may cross what the child has said before it.        *)
LEMMA CancelCommutes ==
    ASSUME NEW l \in Ledgers, NEW e
    PROVE  Told(Cancelling(l), e) = Cancelling(Told(l, e))
<1> DEFINE k == Cancelling(l)
<1>1. /\ k.active = l.active /\ k.revision = l.revision
      /\ k.fragments = l.fragments
  BY DEF Cancelling, Ledgers
<1>2. ASSUME e.event \notin {"SHUTDOWN_ACK", "CANCEL_DEFERRED", "SAFE_TEXT"}
      PROVE  Told(k, e) = Cancelling(Told(l, e))
  <2>1. Told(k, e) = [Ended(k, e) EXCEPT !.active = NoRequest]
        /\ Told(l, e) = [Ended(l, e) EXCEPT !.active = NoRequest]
    BY <1>2 DEF Told
  <2>2. CASE e.event = "CANCELLED"
    BY ZenonT(60), <2>1, <2>2, <1>1 DEF Ended, Cancelling, Ledgers
  <2>3. CASE e.event = "OPENED"
    BY ZenonT(60), <2>1, <2>3, <1>1 DEF Ended, Cancelling, Ledgers
  <2>4. CASE e.event = "OPEN_REJECTED"
    BY <2>1, <2>4, <1>1 DEF Ended, Cancelling, Ledgers
  <2>5. CASE e.event = "MEASURED"
    BY <2>1, <2>5, <1>1 DEF Ended, Cancelling, Ledgers
  <2>6. CASE e.event = "TICKET_DISCARDED"
    BY ZenonT(60), <2>1, <2>6, <1>1 DEF Ended, Cancelling, Ledgers
  <2>7. CASE e.event = "RESULT"
    BY ZenonT(60), <2>1, <2>7, <1>1 DEF Ended, Cancelling, Ledgers
  <2>8. CASE e.event = "REQUEST_FAILED"
    BY <2>1, <2>8, <1>1 DEF Ended, Cancelling, Ledgers
  <2>9. CASE e.event \notin {"CANCELLED", "OPENED", "OPEN_REJECTED", "MEASURED",
                             "TICKET_DISCARDED", "RESULT", "REQUEST_FAILED"}
    <3> DEFINE half(x) == [x EXCEPT !.state = "ENGINE_READY", !.claim = 0]
               rest(x) == [x EXCEPT !.ticket = 0, !.consumed = 0, !.fragments = 0]
    <3>1. Ended(k, e) = rest(half(k)) /\ Ended(l, e) = rest(half(l))
      <4>1. ASSUME NEW x
            PROVE  Ended(x, e) = [x EXCEPT !.state = "ENGINE_READY", !.claim = 0, !.ticket = 0,
                                           !.consumed = 0, !.fragments = 0]
        BY <2>9 DEF Ended
      <4>2. ASSUME NEW x \in Ledgers
            PROVE  rest(half(x)) = [x EXCEPT !.state = "ENGINE_READY", !.claim = 0,
                                             !.ticket = 0, !.consumed = 0, !.fragments = 0]
        BY DEF Ledgers
      <4>3. QED BY <4>1, <4>2, CancelShape
    <3>2. half(l) \in Ledgers
      <4>1. 0 \in Generations /\ "ENGINE_READY" \in LedgerStates
        BY Bounds DEF Generations, LedgerStates
      <4>2. QED BY <4>1 DEF Ledgers
    <3>3. half(k) = Cancelling(half(l)) BY DEF Cancelling, Ledgers
    <3>4. ASSUME NEW x \in Ledgers
          PROVE  [rest(Cancelling(x)) EXCEPT !.active = NoRequest]
                     = Cancelling([rest(x) EXCEPT !.active = NoRequest])
      BY DEF Cancelling, Ledgers
    <3> HIDE DEF half, rest
    <3>5. QED BY <2>1, <3>1, <3>2, <3>3, <3>4
  <2>10. QED BY <2>2, <2>3, <2>4, <2>5, <2>6, <2>7, <2>8, <2>9
<1>3. CASE e.event = "SHUTDOWN_ACK" BY <1>3, <1>1 DEF Told, Cancelling, Ledgers
<1>4. CASE e.event = "CANCEL_DEFERRED" BY <1>4, <1>1 DEF Told, Cancelling, Ledgers
<1>5. CASE e.event = "SAFE_TEXT" BY <1>5, <1>1 DEF Told, Cancelling, Ledgers
<1>6. QED BY <1>2, <1>3, <1>4, <1>5

(***************************************************************************)
(* Every value keeps its shape.                                            *)
(***************************************************************************)
(* The values the actions start from.                                      *)
LEMMA Values ==
    /\ NoOp \in Operations /\ NoWorker \in Workers /\ Fatal \in Replies
    /\ <<>> \in Seq(Replies) /\ <<>> \in Seq(Frames) /\ <<Fatal>> \in Seq(Replies)
    /\ FreshLedger \in Ledgers /\ 0 \in Generations
    /\ [FreshLedger EXCEPT !.state = "DESTROYED"] \in Ledgers
<1>1. NoOp \in Operations BY DEF NoOp, Operations
<1>2. 0 \in Generations BY Bounds DEF Generations
<1>3. Fatal \in Replies BY <1>2 DEF Fatal, Reply, Replies, Events
<1>4. 0 \in 0 .. QueueSize BY Bounds
<1>5. NoWorker \in Workers BY <1>4, FreshIsALedger DEF NoWorker, Workers
<1>6. [FreshLedger EXCEPT !.state = "DESTROYED"] \in Ledgers
  BY FreshIsALedger DEF Ledgers, LedgerStates
<1>7. <<>> \in Seq(Replies) /\ <<>> \in Seq(Frames) OBVIOUS
<1>8. <<Fatal>> \in Seq(Replies) BY <1>3
<1>9. QED BY <1>1, <1>2, <1>3, <1>5, <1>6, <1>7, <1>8, FreshIsALedger

(* The initial state has the shape.                                        *)
LEMMA InitShape == Init => Shape
<1>1. SUFFICES ASSUME Init PROVE Shape OBVIOUS
<1>2. adapter \in AdapterStates BY <1>1 DEF Init, AdapterStates
<1>3. QED BY <1>1, <1>2, Values DEF Init, Shape

(* An operation that fails, one that starts a child, and a destruction.    *)
LEMMA FailShape ==
    ASSUME op \in Operations, NEW kind \in Ops \cup {"none", "START", "REBUILD", "STOP"},
           Fail(kind)
    PROVE  op' \in Operations /\ op'.phase = "raise"
BY DEF Fail, Operations

(* A destruction.                                                          *)
LEMMA DestroyShape ==
    ASSUME destruction \in {"none", "running", "done", "unproven"}, Destroy
    PROVE  /\ adapter' \in AdapterStates /\ adapter' = "DESTROYED"
           /\ destruction' \in {"running", "done", "unproven"} /\ reader' = FALSE
BY DEF Destroy, AdapterStates

(* A new child.                                                            *)
LEMMA SpawnShape ==
    ASSUME Shape, NEW kind \in {"START", "REBUILD"}, Spawn(kind)
    PROVE  /\ adapter' \in AdapterStates /\ op' \in Operations
           /\ destruction' = "none" /\ epoch' \in Nat /\ worker' \in Workers
           /\ toChild' \in Seq(Frames) /\ toParent' \in Seq(Replies)
<1>1. op' \in Operations BY DEF Spawn, NoOp, Operations
<1>2. worker' \in Workers BY Values DEF Spawn, Workers
<1>3. QED BY <1>1, <1>2, Values DEF Shape, Spawn, AdapterStates

(* The actions of a life keep the shape.                                   *)
LEMMA LifecycleShape == Shape /\ Lifecycle => Shape'
<1>1. SUFFICES ASSUME Shape, Lifecycle PROVE Shape' OBVIOUS
<1>3. op.kind \in Ops \cup {"none", "START", "REBUILD", "STOP"}
  BY <1>1 DEF Shape, Operations
<1>5. [worker EXCEPT !.status = "exited"] \in Workers BY <1>1 DEF Shape, Workers
<1>6. CASE Start
  BY <1>1, <1>6, SpawnShape DEF Shape, Start
<1>7. CASE Rebuild
  <2>1. adapter' \in AdapterStates /\ reader' \in BOOLEAN
        /\ destruction' \in {"none", "running", "done", "unproven"}
    BY <1>1, <1>7, DestroyShape DEF Shape, Rebuild
  <2>2. [NoOp EXCEPT !.kind = "REBUILD", !.phase = "destroy"] \in Operations
    BY DEF NoOp, Operations
  <2>3. op' \in Operations BY <1>1, <1>7, <2>2, FailShape DEF Shape, Rebuild
  <2>4. QED BY <1>1, <1>7, <2>1, <2>3 DEF Shape, Rebuild, Fault
<1>8. CASE Replace
  <2>1. CASE Spawn("REBUILD")
    BY <1>1, <1>8, <2>1, SpawnShape DEF Shape, Replace
  <2>2. CASE Fail("REBUILD") /\ UNCHANGED <<adapter, epoch, destruction, worker, toChild,
                                            toParent>>
    BY <1>1, <1>8, <2>2, FailShape DEF Shape, Replace
  <2>3. QED BY <1>8, <2>1, <2>2 DEF Replace
<1>9. CASE Ready
  <2>1. CASE Fault /\ Destroy /\ Fail(op.kind)
             /\ UNCHANGED <<ledger, responses, toParent, authorization>>
    <3>1. op' \in Operations BY <1>1, <1>3, <2>1, FailShape DEF Shape
    <3>2. adapter' \in AdapterStates /\ reader' \in BOOLEAN
          /\ destruction' \in {"none", "running", "done", "unproven"}
      BY <1>1, <2>1, DestroyShape DEF Shape
    <3>3. faults' \in Nat BY <1>1, <2>1 DEF Fault, Shape
    <3>4. QED BY <1>1, <1>9, <2>1, <3>1, <3>2, <3>3 DEF Shape, Ready
  <2>2. CASE ~(Fault /\ Destroy /\ Fail(op.kind)
               /\ UNCHANGED <<ledger, responses, toParent, authorization>>)
    <3>1. /\ toParent # <<>> /\ adapter' = "ENGINE_READY"
          /\ ledger' = FreshLedger /\ responses' = <<>> /\ reader' = TRUE
          /\ toParent' = Tail(toParent) /\ op' = NoOp
          /\ authorization' = IF authorization = "rebuilding" THEN "rebuilt"
                              ELSE authorization
          /\ UNCHANGED <<destruction, faults, recycle, proof, aborting, stopping, generation,
                         epoch, worker, toChild>>
      BY <1>9, <2>2 DEF Ready
    <3>2. Tail(toParent) \in Seq(Replies) BY <1>1, <3>1 DEF Shape
    <3>3. QED BY <1>1, <3>1, <3>2, Values DEF Shape, AdapterStates
  <2>3. QED BY <2>1, <2>2
<1>10. CASE StartFails
  <2>1. op' \in Operations BY <1>1, <1>3, <1>10, FailShape DEF Shape, StartFails
  <2>2. adapter' \in AdapterStates /\ reader' \in BOOLEAN
        /\ destruction' \in {"none", "running", "done", "unproven"}
    BY <1>1, <1>10, DestroyShape DEF Shape, StartFails
  <2>3. faults' \in Nat BY <1>1, <1>10 DEF StartFails, Fault, Shape
  <2>4. QED BY <1>1, <1>10, <2>1, <2>2, <2>3 DEF Shape, StartFails
<1>11. CASE DestroyEnds
  BY <1>1, <1>5, <1>11, Values DEF Shape, DestroyEnds
<1>12. CASE DestroyFails
  BY <1>1, <1>12 DEF Shape, DestroyFails, Fault
<1>13. CASE Raise
  BY <1>1, <1>13, Values DEF Shape, Raise
<1>14. QED
  BY <1>1, <1>6, <1>7, <1>8, <1>9, <1>10, <1>11, <1>12, <1>13 DEF Lifecycle

(* A request keeps the shape of the ledger, the operation and the pipe.    *)
LEMMA RequestKeeps ==
    ASSUME Shape, NEW kind \in Ops, NEW gen \in Generations, Request(kind, gen)
    PROVE  /\ ledger' \in Ledgers /\ op' \in Operations /\ toChild' \in Seq(Frames)
           /\ adapter' \in AdapterStates /\ reader' \in BOOLEAN
           /\ destruction' \in {"none", "running", "done", "unproven"}
<1> DEFINE ticket == IF kind \in {"GENERATE", "DISCARD_TICKET"} THEN ledger.ticket ELSE 0
           frame == Frame(kind, ledger.counter + 1, gen, ticket)
<1>1. ticket \in Nat /\ ledger.counter + 1 \in Nat BY DEF Shape, Ledgers
<1>2. frame \in Frames /\ frame.op = kind BY <1>1 DEF Frame, Frames
<1>3. Commanded(ledger, frame) \in Ledgers BY <1>2, RequestShape DEF Shape
<1>4. [NoOp EXCEPT !.kind = kind, !.phase = "wait"] \in Operations
  BY DEF NoOp, Operations
<1>5. /\ ledger' = Commanded(ledger, frame)
      /\ IF Live
         THEN /\ toChild' = Append(toChild, frame)
              /\ op' = [NoOp EXCEPT !.kind = kind, !.phase = "wait"]
              /\ UNCHANGED <<adapter, destruction, reader>>
         ELSE Destroy /\ Fail(kind) /\ UNCHANGED toChild
  BY DEF Request, Send
<1> HIDE DEF frame
<1>6. CASE Live BY SMTT(60), <1>2, <1>3, <1>4, <1>5, <1>6 DEF Shape
<1>7. CASE ~Live BY <1>3, <1>5, <1>7, FailShape, DestroyShape DEF Shape
<1>8. QED BY <1>6, <1>7

(* Requests keep the shape.                                                *)
LEMMA RequestsShape == Shape /\ Requests => Shape'
<1>1. SUFFICES ASSUME Shape, Requests PROVE Shape' OBVIOUS
<1>3. ledger.claim \in Generations BY <1>1 DEF Shape, Ledgers
<1>4. CASE OpenConversation
  <2>1. generation' \in Generations /\ generation + 1 \in Generations
    BY <1>1, <1>4, Bounds DEF OpenConversation, Shape, Generations
  <2>2. CASE Request("OPEN", generation + 1) /\ UNCHANGED faults
    BY <1>1, <1>4, <2>1, <2>2, RequestKeeps DEF OpenConversation, Shape, Ops
  <2>3. CASE SampleFails("OPEN") /\ UNCHANGED <<ledger, toChild>>
    <3>1. op' \in Operations
      BY <1>1, <2>3, FailShape DEF Shape, SampleFails, Ops
    <3>2. adapter' \in AdapterStates /\ reader' \in BOOLEAN
          /\ destruction' \in {"none", "running", "done", "unproven"}
      BY <1>1, <2>3, DestroyShape DEF Shape, SampleFails
    <3>3. faults' \in Nat BY <1>1, <2>3 DEF Fault, Shape, SampleFails
    <3>4. QED BY <1>1, <1>4, <2>1, <2>3, <3>1, <3>2, <3>3 DEF OpenConversation, Shape
  <2>4. QED BY <1>4, <2>2, <2>3 DEF OpenConversation
<1>5. CASE \E kind \in {"MEASURE", "GENERATE", "DISCARD_TICKET"} : Turn(kind)
  BY <1>1, <1>3, <1>5, RequestKeeps DEF Turn, Shape, Ops
<1>6. CASE Refused
  <2>1. CASE Destroy /\ Fail("GENERATE") /\ UNCHANGED <<recycle, authorization>>
    <3>1. op' \in Operations BY <1>1, <2>1, FailShape DEF Shape, Ops
    <3>2. adapter' \in AdapterStates /\ reader' \in BOOLEAN
          /\ destruction' \in {"none", "running", "done", "unproven"}
      BY <1>1, <2>1, DestroyShape DEF Shape
    <3>3. faults' \in Nat BY <1>1, <1>6 DEF Fault, Shape, Refused
    <3>4. QED BY <1>1, <1>6, <2>1, <3>1, <3>2, <3>3 DEF Refused, Shape
  <2>2. CASE ~(Destroy /\ Fail("GENERATE") /\ UNCHANGED <<recycle, authorization>>)
    BY <1>1, <1>3, <1>6, <2>2 DEF Refused, Shape, Fault, AdapterStates
  <2>3. QED BY <2>1, <2>2
<1>7. CASE CloseConversation
  BY <1>1, <1>3, <1>7, RequestKeeps DEF CloseConversation, Shape, Ops
<1>8. QED BY <1>1, <1>4, <1>5, <1>6, <1>7 DEF Requests

(* The answers that come keep the shape.                                   *)
LEMMA ResponsesShape == Shape /\ Responses => Shape'
<1>1. SUFFICES ASSUME Shape, Responses PROVE Shape' OBVIOUS
<1>2. op.kind \in Ops \cup {"none", "START", "REBUILD", "STOP"}
  BY <1>1 DEF Shape, Operations
<1>3. ASSUME Fail(op.kind) PROVE op' \in Operations
  BY <1>1, <1>2, <1>3, FailShape DEF Shape
<1>4. ASSUME Destroy
      PROVE  adapter' \in AdapterStates /\ reader' \in BOOLEAN
             /\ destruction' \in {"none", "running", "done", "unproven"}
  BY <1>1, <1>4, DestroyShape DEF Shape
<1>5. ASSUME Fault PROVE faults' \in Nat BY <1>1, <1>5 DEF Fault, Shape
<1>6. CASE Receive
  <2>1. Head(toParent) \in Replies /\ Tail(toParent) \in Seq(Replies)
    BY <1>1, <1>6 DEF Receive, Shape
  <2>2. CASE AcceptsEvent(ledger, Head(toParent))
    <3>1. Head(toParent).event = "CANCELLED" => ledger.active.op \in DOMAIN AfterCancelled
      BY <2>2, TerminalsAre DEF AcceptsEvent, Answers, AfterCancelled
    <3>2. Told(ledger, Head(toParent)) \in Ledgers
      BY <1>1, <2>1, <3>1, ToldShape DEF Shape
    <3>3. Append(responses, Head(toParent)) \in Seq(Replies) BY <1>1, <2>1 DEF Shape
    <3>4. QED BY <1>1, <1>6, <2>1, <2>2, <3>2, <3>3 DEF Receive, Shape
  <2>3. CASE ~AcceptsEvent(ledger, Head(toParent))
    <3>1. Destroy /\ UNCHANGED <<ledger, responses>> BY <1>6, <2>3 DEF Receive
    <3>2. QED BY <1>1, <1>4, <1>6, <2>1, <3>1 DEF Receive, Shape
  <2>4. QED BY <2>2, <2>3
<1>7. CASE EndOfFile BY <1>1, <1>4, <1>7 DEF EndOfFile, Shape
<1>8. CASE TakeFragment
  <2>1. Tail(responses) \in Seq(Replies) BY <1>1, <1>8 DEF TakeFragment, Shape
  <2>2. CASE UNCHANGED <<op, adapter, destruction, reader, faults>>
    BY <1>1, <1>8, <2>1, <2>2 DEF TakeFragment, Shape
  <2>3. CASE Fault /\ Destroy /\ Fail(op.kind)
    BY <1>1, <1>3, <1>4, <1>5, <1>8, <2>1, <2>3 DEF TakeFragment, Shape
  <2>4. QED BY <1>8, <2>2, <2>3 DEF TakeFragment
<1>9. CASE TakeTerminal
  <2>1. Tail(responses) \in Seq(Replies) /\ Head(responses) \in Replies
    BY <1>1, <1>9 DEF TakeTerminal, Shape
  <2>2. proof' \in Generations
    BY <1>1, <1>9, <2>1, Values DEF TakeTerminal, Shape, Replies
  <2>3. /\ \/ adapter' = Synced /\ op' = NoOp /\ UNCHANGED <<destruction, reader, faults>>
           \/ Destroy /\ Fail(op.kind) /\ UNCHANGED faults
           \/ SampleFails(op.kind)
        /\ responses' = Tail(responses)
        /\ UNCHANGED <<ledger, recycle, authorization, aborting, stopping, generation,
                       epoch, worker, toChild, toParent>>
    BY <1>9 DEF TakeTerminal
  <2>4. Synced \in AdapterStates BY <1>1 DEF Shape, Synced, AdapterStates
  <2>5. CASE adapter' = Synced /\ op' = NoOp /\ UNCHANGED <<destruction, reader, faults>>
    BY <1>1, <2>1, <2>2, <2>3, <2>4, <2>5, Values DEF Shape
  <2>6. CASE Destroy /\ Fail(op.kind) /\ UNCHANGED faults
    BY <1>1, <1>3, <1>4, <2>1, <2>2, <2>3, <2>6 DEF Shape
  <2>7. CASE SampleFails(op.kind)
    BY <1>1, <1>3, <1>4, <1>5, <2>1, <2>2, <2>3, <2>7 DEF Shape, SampleFails
  <2>8. QED BY <2>3, <2>5, <2>6, <2>7
<1>10. CASE TakeFailure
  <2>1. Tail(responses) \in Seq(Replies) BY <1>1, <1>10 DEF TakeFailure, Shape
  <2>2. QED BY <1>1, <1>3, <1>4, <1>10, <2>1 DEF TakeFailure, Shape
<1>11. CASE Deadline
  <2> DEFINE frame == Frame("CANCEL", ledger.counter, 0, 0)
  <2>1. frame \in Frames BY <1>1, Values DEF Frame, Frames, Shape, Ledgers
  <2>2. Commanded(ledger, frame) \in Ledgers
    BY <1>1, CancelShape, CancelCommand DEF Frame, Shape
  <2>3. Append(toChild, frame) \in Seq(Frames) BY <1>1, <2>1 DEF Shape
  <2>4. [op EXCEPT !.expired = TRUE] \in Operations BY <1>1 DEF Shape, Operations
  <2>5. /\ \/ Destroy /\ Fail(op.kind) /\ UNCHANGED <<ledger, toChild>>
           \/ /\ op' = [op EXCEPT !.expired = TRUE]
              /\ UNCHANGED <<adapter, destruction, reader>>
              /\ \/ ledger' = Commanded(ledger, frame) /\ toChild' = Append(toChild, frame)
                 \/ UNCHANGED <<ledger, toChild>>
        /\ UNCHANGED <<responses, recycle, proof, authorization, aborting, stopping,
                       generation, epoch, worker, toParent, faults>>
    BY <1>11 DEF Deadline, Send
  <2> HIDE DEF frame
  <2>6. CASE Destroy /\ Fail(op.kind) /\ UNCHANGED <<ledger, toChild>>
    BY <1>1, <1>3, <1>4, <2>5, <2>6 DEF Shape
  <2>7. CASE ~(Destroy /\ Fail(op.kind) /\ UNCHANGED <<ledger, toChild>>)
    BY <1>1, <2>2, <2>3, <2>4, <2>5, <2>7 DEF Shape
  <2>8. QED BY <2>6, <2>7
<1>12. CASE GraceEnds BY <1>1, <1>3, <1>4, <1>12 DEF GraceEnds, Shape
<1>13. CASE TaskCancelled
  <2>1. op' \in Operations BY <1>1, <1>3, <1>13 DEF TaskCancelled, Shape
  <2>2. QED BY <1>1, <1>4, <1>5, <1>13, <2>1 DEF TaskCancelled, Shape
<1>14. QED
  BY <1>1, <1>6, <1>7, <1>8, <1>9, <1>10, <1>11, <1>12, <1>13 DEF Responses

(* What the rest of the program asks of the engine keeps the shape.        *)
LEMMA ControlShape == Shape /\ Control => Shape'
<1>1. SUFFICES ASSUME Shape, Control PROVE Shape' OBVIOUS
<1>2. ASSUME Fail("STOP") PROVE op' \in Operations
  BY <1>1, <1>2, FailShape DEF Shape
<1>3. ASSUME Destroy
      PROVE  adapter' \in AdapterStates /\ reader' \in BOOLEAN
             /\ destruction' \in {"none", "running", "done", "unproven"}
  BY <1>1, <1>3, DestroyShape DEF Shape
<1>4. CASE Abort
  <2> DEFINE frame == Frame("CANCEL", ledger.counter, 0, 0)
  <2>1. frame \in Frames BY <1>1, Values DEF Frame, Frames, Shape, Ledgers
  <2>2. Commanded(ledger, frame) \in Ledgers
    BY <1>1, CancelShape, CancelCommand DEF Frame, Shape
  <2>3. Append(toChild, frame) \in Seq(Frames) BY <1>1, <2>1 DEF Shape
  <2>4. [op EXCEPT !.atomic = TRUE] \in Operations BY <1>1 DEF Shape, Operations
  <2>5. /\ aborting' = TRUE
        /\ \/ UNCHANGED <<op, ledger, toChild>>
           \/ op' = [op EXCEPT !.atomic = TRUE] /\ UNCHANGED <<ledger, toChild>>
           \/ /\ ledger' = Commanded(ledger, frame) /\ toChild' = Append(toChild, frame)
              /\ UNCHANGED op
        /\ UNCHANGED <<adapter, responses, reader, destruction, recycle, proof, authorization,
                       stopping, generation, epoch, worker, toParent, faults>>
    BY <1>4 DEF Abort, Send
  <2> HIDE DEF frame
  <2>6. QED BY <1>1, <2>2, <2>3, <2>4, <2>5 DEF Shape
<1>5. CASE AbortReturns BY <1>1, <1>5 DEF AbortReturns, Shape
<1>6. CASE ForceAbort BY <1>1, <1>3, <1>6 DEF ForceAbort, Shape
<1>7. CASE AuthorizeRecovery BY <1>1, <1>7 DEF AuthorizeRecovery, Shape
<1>8. CASE RecoveryAuthorized
  <2>1. CASE authorization' = "failed" /\ Destroy /\ UNCHANGED recycle
    BY <1>1, <1>3, <1>8, <2>1 DEF RecoveryAuthorized, Shape
  <2>2. CASE ~(authorization' = "failed" /\ Destroy /\ UNCHANGED recycle)
    BY <1>1, <1>8, <2>2, Values DEF RecoveryAuthorized, Shape
  <2>3. QED BY <2>1, <2>2
<1>9. CASE Stop BY <1>1, <1>9 DEF Stop, Shape
<1>10. CASE Shutdown
  <2> DEFINE frame == Frame("SHUTDOWN", 0, 0, 0)
  <2>1. frame \in Frames BY Values DEF Frame, Frames
  <2>2. Append(toChild, frame) \in Seq(Frames) BY <1>1, <2>1 DEF Shape
  <2>3. [NoOp EXCEPT !.kind = "STOP", !.phase = "stop"] \in Operations
    BY DEF NoOp, Operations
  <2>4. /\ reader' = FALSE
        /\ \/ /\ toChild' = Append(toChild, frame)
              /\ op' = [NoOp EXCEPT !.kind = "STOP", !.phase = "stop"]
              /\ UNCHANGED <<adapter, destruction, ledger, recycle, proof, authorization,
                             stopping>>
           \/ /\ Destroy /\ Fail("STOP")
              /\ UNCHANGED <<toChild, ledger, recycle, proof, authorization, stopping>>
           \/ /\ adapter' = "STOPPED" /\ Forgotten /\ stopping' = FALSE
              /\ UNCHANGED <<op, destruction, toChild>>
        /\ UNCHANGED <<responses, aborting, generation, epoch, worker, toParent, faults>>
    BY <1>10 DEF Shutdown, Send
  <2> HIDE DEF frame
  <2>5. CASE Destroy /\ Fail("STOP")
             /\ UNCHANGED <<toChild, ledger, recycle, proof, authorization, stopping>>
    BY <1>1, <1>2, <1>3, <2>4, <2>5 DEF Shape
  <2>6. CASE Forgotten /\ adapter' = "STOPPED" /\ stopping' = FALSE
             /\ UNCHANGED <<op, destruction, toChild>>
    BY <1>1, <2>4, <2>6, Values DEF Shape, Forgotten, AdapterStates
  <2>7. CASE /\ toChild' = Append(toChild, frame)
             /\ op' = [NoOp EXCEPT !.kind = "STOP", !.phase = "stop"]
             /\ UNCHANGED <<adapter, destruction, ledger, recycle, proof, authorization,
                            stopping>>
    BY <1>1, <2>2, <2>3, <2>4, <2>7 DEF Shape
  <2>8. QED BY <2>4, <2>5, <2>6, <2>7
<1>11. CASE Stopped
  <2>1. CASE Destroy /\ Fail("STOP")
             /\ UNCHANGED <<ledger, recycle, proof, authorization, stopping>>
    BY <1>1, <1>2, <1>3, <1>11, <2>1, Values DEF Shape, Stopped
  <2>2. CASE Forgotten /\ adapter' = "STOPPED" /\ op' = NoOp /\ stopping' = FALSE
             /\ UNCHANGED <<destruction, reader>>
    BY <1>1, <1>11, <2>2, Values DEF Shape, Stopped, Forgotten, AdapterStates
  <2>3. QED BY <1>11, <2>1, <2>2 DEF Stopped
<1>12. CASE StopExpires
  <2>1. faults' \in Nat BY <1>1, <1>12 DEF StopExpires, Fault, Shape
  <2>2. QED BY <1>1, <1>2, <1>3, <1>12, <2>1 DEF StopExpires, Shape
<1>13. QED
  BY <1>1, <1>4, <1>5, <1>6, <1>7, <1>8, <1>9, <1>10, <1>11, <1>12 DEF Control

(* The answer to a request is a terminal, and not a CANCELLED.             *)
LEMMA AnswerShape ==
    ASSUME NEW l \in Ledgers, l.active.op \in Ops, NEW outcome
    PROVE  /\ AnswerTo(l, outcome) \in Replies
           /\ AnswerTo(l, outcome).event \in Terminals \ {"CANCELLED"}
<1> DEFINE operation == l.active.op
           event == IF operation # "GENERATE" THEN EventOf[operation]
                    ELSE IF outcome = "ok" THEN "RESULT" ELSE "REQUEST_FAILED"
           revision == IF operation = "GENERATE" THEN l.revision + 1 ELSE l.revision
           ticket == IF operation = "MEASURE" THEN l.counter ELSE l.active.ticket
<1>1. event \in Terminals \ {"CANCELLED"} BY TerminalsAre DEF EventOf, Ops
<1>2. revision \in Nat BY DEF Ledgers
<1>3. ticket \in Nat /\ l.counter \in Nat /\ l.active.generation \in Generations
  BY DEF Ledgers, Actives
<1>4. AnswerTo(l, outcome)
        = [event |-> event, id |-> l.counter, generation |-> l.active.generation,
           revision |-> revision, ticket |-> ticket, proven |-> TRUE]
  BY DEF AnswerTo, Reply
<1> HIDE DEF event, revision, ticket
<1>5. event \in Events BY <1>1 DEF Events
<1>6. QED BY <1>1, <1>2, <1>3, <1>4, <1>5 DEF Replies

(* What the child writes while it works.                                   *)
LEMMA WrittenShape ==
    ASSUME NEW l \in Ledgers, NEW proven \in BOOLEAN
    PROVE  /\ Reply("SAFE_TEXT", l.counter, 0, l.fragments, 0, TRUE) \in Replies
           /\ Reply("CANCEL_DEFERRED", l.counter, 0, 0, 0, TRUE) \in Replies
           /\ Reply("CANCELLED", l.counter, 0, 0, 0, proven) \in Replies
<1>1. {"SAFE_TEXT", "CANCEL_DEFERRED", "CANCELLED"} \subseteq Events
  BY TerminalsAre DEF Events
<1>2. l.counter \in Nat /\ l.fragments \in Nat BY DEF Ledgers
<1>3. QED BY <1>1, <1>2, Values DEF Reply, Replies

(* What it writes first and last.                                          *)
LEMMA AnnouncedShape ==
    /\ Reply("READY", 0, 0, 0, 0, TRUE) \in Replies
    /\ Reply("SHUTDOWN_ACK", 0, 0, 0, 0, TRUE) \in Replies
<1>1. {"READY", "SHUTDOWN_ACK"} \subseteq Events BY DEF Events
<1>2. QED BY <1>1, Values DEF Reply, Replies

(* A CANCEL, as the child takes it.                                        *)
LEMMA DeferredShape ==
    ASSUME NEW l \in Ledgers, NEW frame, frame.op = "CANCEL"
    PROVE  LET e == Reply("CANCEL_DEFERRED", l.counter, 0, 0, 0, TRUE)
               m == Told(Commanded(l, frame), e)
           IN /\ m \in Ledgers /\ m.active = l.active /\ m.cancelled
              /\ m.state = l.state /\ m.claim = l.claim
              /\ m = Told(Cancelling(l), e)
<1> DEFINE e == Reply("CANCEL_DEFERRED", l.counter, 0, 0, 0, TRUE)
<1>1. Commanded(l, frame) = Cancelling(l) BY CancelCommand
<1>2. Told(Cancelling(l), e) = [Cancelling(l) EXCEPT !.deferred = TRUE]
  BY DEF Told, Reply
<1> DEFINE k == Cancelling(l)
           m == [k EXCEPT !.deferred = TRUE]
<1>3. k \in Ledgers /\ k.active = l.active /\ k.cancelled /\ k.state = l.state
      /\ k.claim = l.claim
  BY CancelShape
<1>4. Told(Commanded(l, frame), e) = m /\ Told(Cancelling(l), e) = m BY <1>1, <1>2
<1> HIDE DEF k, e
<1>5. m \in Ledgers /\ m.active = k.active /\ m.cancelled = k.cancelled /\ m.state = k.state
      /\ m.claim = k.claim
  BY <1>3 DEF Ledgers
<1> HIDE DEF m
<1>6. QED BY <1>3, <1>4, <1>5 DEF e

(* A fragment, as the child sends it.                                      *)
LEMMA FragmentShape ==
    ASSUME NEW l \in Ledgers
    PROVE  LET e == Reply("SAFE_TEXT", l.counter, 0, l.fragments, 0, TRUE)
               m == Told(l, e)
           IN /\ m \in Ledgers /\ m.active = l.active /\ m.cancelled = l.cancelled
              /\ m.state = l.state /\ m.claim = l.claim
<1> DEFINE e == Reply("SAFE_TEXT", l.counter, 0, l.fragments, 0, TRUE)
<1>1. Told(l, e) = [l EXCEPT !.fragments = l.fragments + 1] BY DEF Told, Reply
<1>2. l.fragments + 1 \in Nat BY DEF Ledgers
<1>3. QED BY <1>1, <1>2 DEF Ledgers

(* Where only a cancellable request is cancelled, the child's actions keep *)
(* the shape.                                                              *)
LEMMA ChildShape == Shape /\ Working /\ Child => Shape'
<1>1. SUFFICES ASSUME Shape, Working, Child PROVE Shape' OBVIOUS
<1>2. worker \in Workers /\ worker.ledger \in Ledgers /\ faults \in Nat
  BY <1>1 DEF Shape, Workers
<1>3. SUFFICES worker' \in Workers /\ toParent' \in Seq(Replies) /\ toChild' \in Seq(Frames)
               /\ faults' \in Nat /\ UNCHANGED parent
  BY <1>1 DEF Shape, parent
<1>4. UNCHANGED parent
  BY <1>1 DEF Child, Boot, Announce, Crash, Command, ShutdownChild, CacheRead, Native, Emit,
              NativeEnds, Relay, Cancel, End
<1>5. toChild' \in Seq(Frames)
  <2>1. toChild' = toChild \/ (toChild # <<>> /\ toChild' = Tail(toChild))
    BY <1>1 DEF Child, Boot, Announce, Crash, Command, ShutdownChild, CacheRead, Native, Emit,
                NativeEnds, Relay, Cancel, End
  <2>3. toChild \in Seq(Frames) BY <1>1 DEF Shape
  <2>2. QED BY <2>1, <2>3
<1>6. [worker EXCEPT !.status = "exited"] \in Workers BY <1>2 DEF Workers
<1>7. toParent \in Seq(Replies) /\ toChild \in Seq(Frames) BY <1>1 DEF Shape
<1>8. CASE Boot
  <2>1. worker.stage + 1 \in Nat BY <1>2 DEF Workers
  <2>2. [worker EXCEPT !.stage = @ + 1] \in Workers BY <1>2, <2>1 DEF Workers
  <2>3. QED BY <1>2, <1>4, <1>5, <1>6, <1>7, <1>8, <2>2 DEF Boot, Fault, Exit
<1>9. CASE Announce
  <2>1. [worker EXCEPT !.status = "idle"] \in Workers BY <1>2 DEF Workers
  <2> DEFINE e == Reply("READY", 0, 0, 0, 0, TRUE)
  <2>4. e \in Replies /\ toParent' = Append(toParent, e)
    BY <1>9, AnnouncedShape DEF Announce, Write
  <2> HIDE DEF e
  <2>2. toParent' \in Seq(Replies) BY <1>7, <2>4
  <2>3. QED BY <1>2, <1>4, <1>5, <1>9, <2>1, <2>2 DEF Announce
<1>10. CASE Crash
  BY <1>2, <1>4, <1>5, <1>6, <1>7, <1>10 DEF Crash, Fault, Exit
<1>11. CASE Command
  <2>1. CASE Head(toChild).op \in Ops /\ AcceptsCommand(worker.ledger, Head(toChild))
    <3>1. Head(toChild) \in Frames BY <1>7, <1>11 DEF Command
    <3>2. Commanded(worker.ledger, Head(toChild)) \in Ledgers
      BY <1>2, <2>1, <3>1, RequestShape
    <3>3. 0 \in 0 .. QueueSize BY Bounds
    <3> DEFINE m == Commanded(worker.ledger, Head(toChild))
    <3>6. worker' = [worker EXCEPT !.status = "busy", !.ledger = m, !.thread = "ready",
                                   !.outcome = "none", !.queue = 0, !.produced = 0,
                                   !.pending = FALSE, !.hit = FALSE]
      BY <1>11, <2>1 DEF Command
    <3>7. m \in Ledgers BY <3>2
    <3> HIDE DEF m
    <3>4. worker' \in Workers BY <1>2, <3>3, <3>6, <3>7 DEF Workers
    <3>5. QED BY <1>2, <1>4, <1>5, <1>7, <1>11, <3>4 DEF Command
  <2>2. CASE ~(Head(toChild).op \in Ops /\ AcceptsCommand(worker.ledger, Head(toChild)))
    BY <1>2, <1>4, <1>5, <1>6, <1>7, <1>11, <2>2 DEF Command, Exit
  <2>3. QED BY <2>1, <2>2
<1>12. CASE ShutdownChild
  <2>1. worker' \in Workers BY <1>2, <1>12 DEF ShutdownChild, Workers
  <2> DEFINE e == Reply("SHUTDOWN_ACK", 0, 0, 0, 0, TRUE)
  <2>5. e \in Replies
        /\ \/ toParent' = Append(toParent, e) /\ UNCHANGED faults
           \/ Fault /\ UNCHANGED toParent
    BY <1>12, AnnouncedShape DEF ShutdownChild, Write
  <2> HIDE DEF e
  <2>2. toParent' \in Seq(Replies) BY <1>7, <2>5
  <2>3. faults' \in Nat BY <1>2, <2>5 DEF Fault
  <2>4. QED BY <1>4, <1>5, <2>1, <2>2, <2>3
<1>13. CASE CacheRead
  <2>1. worker' \in Workers BY <1>2, <1>13 DEF CacheRead, Workers
  <2>2. QED BY <1>2, <1>4, <1>5, <1>7, <1>13, <2>1 DEF CacheRead
<1>14. CASE Native
  <2>1. worker' \in Workers BY <1>2, <1>14 DEF Native, Workers
  <2>2. QED BY <1>2, <1>4, <1>5, <1>7, <1>14, <2>1 DEF Native
<1>15. CASE Emit
  <2>1. worker.queue + 1 \in 0 .. QueueSize /\ worker.produced + 1 \in Nat
    BY <1>2, <1>15, Bounds DEF Emit, Workers
  <2>2. worker' \in Workers BY <1>2, <1>15, <2>1 DEF Emit, Workers
  <2>3. QED BY <1>2, <1>4, <1>5, <1>7, <1>15, <2>2 DEF Emit
<1>16. CASE NativeEnds
  <2>1. ASSUME NEW outcome \in {"ok", "rejected", "cancelled", "failed"}
        PROVE  NativeDone(outcome) \in Workers
    BY <1>2 DEF NativeDone, Workers
  <2>2. worker' \in Workers BY <1>16, <2>1 DEF NativeEnds
  <2>3. faults' \in Nat BY <1>2, <1>16 DEF NativeEnds, Fault
  <2>4. QED BY <1>4, <1>5, <1>7, <1>16, <2>2, <2>3 DEF NativeEnds
<1>17. CASE Relay
  <2>1. worker.queue - 1 \in 0 .. QueueSize BY <1>2, <1>17, Bounds DEF Relay, Workers
  <2> DEFINE e == Reply("SAFE_TEXT", worker.ledger.counter, 0, worker.ledger.fragments, 0, TRUE)
             m == Told(worker.ledger, e)
  <2>2. e \in Replies /\ m \in Ledgers BY <1>2, WrittenShape, FragmentShape
  <2>3. worker' = [worker EXCEPT !.queue = worker.queue - 1, !.ledger = m]
        /\ toParent' = Append(toParent, e)
    BY <1>17 DEF Relay, Write
  <2> HIDE DEF e, m
  <2>4. worker' \in Workers BY <1>2, <2>1, <2>2, <2>3 DEF Workers
  <2>5. QED BY <1>2, <1>4, <1>5, <1>7, <1>17, <2>2, <2>3, <2>4 DEF Relay
<1>18. CASE Cancel
  <2> DEFINE e == Reply("CANCEL_DEFERRED", worker.ledger.counter, 0, 0, 0, TRUE)
             m == Told(Commanded(worker.ledger, Head(toChild)), e)
             h == worker.ledger.active.op = "GENERATE" /\ worker.thread = "native"
  <2>1. CASE Head(toChild).op = "CANCEL" /\ AcceptsCommand(worker.ledger, Head(toChild))
    <3>1. e \in Replies /\ m \in Ledgers BY <1>2, <2>1, WrittenShape, DeferredShape
    <3>2. h \in BOOLEAN OBVIOUS
    <3>3. worker' = [worker EXCEPT !.ledger = m, !.pending = TRUE, !.hit = h]
          /\ toParent' = Append(toParent, e)
      BY <1>18, <2>1 DEF Cancel, Write
    <3> HIDE DEF e, m, h
    <3>4. worker' \in Workers BY <1>2, <3>1, <3>2, <3>3 DEF Workers
    <3>5. QED BY <1>2, <1>4, <1>5, <1>7, <1>18, <3>1, <3>3, <3>4 DEF Cancel
  <2>2. CASE ~(Head(toChild).op = "CANCEL" /\ AcceptsCommand(worker.ledger, Head(toChild)))
    BY <1>2, <1>4, <1>5, <1>6, <1>7, <1>18, <2>2 DEF Cancel, Exit
  <2>3. QED BY <2>1, <2>2
<1>19. CASE End
  <2>0. worker.status = "busy" /\ worker.ledger.active.op \in Ops
        /\ (worker.ledger.cancelled => worker.ledger.active.op \in Cancellable)
    BY <1>1, <1>19 DEF End, Working
  <2>1. CASE Answer
    <3> DEFINE e == AnswerTo(worker.ledger, worker.outcome)
               m == Told(worker.ledger, e)
    <3>1. e \in Replies /\ e.event # "CANCELLED" BY <1>2, <2>0, AnswerShape
    <3>2. m \in Ledgers BY <1>2, <3>1, ToldShape
    <3>3. /\ UNCHANGED faults
          /\ \/ worker' = [worker EXCEPT !.status = "idle", !.thread = "none", !.ledger = m]
                /\ toParent' = Append(toParent, e)
             \/ Exit /\ UNCHANGED toParent
      BY <2>1 DEF Answer, Write
    <3> HIDE DEF e, m
    <3>4. worker' \in Workers BY ZenonT(60), <1>2, <1>6, <3>2, <3>3 DEF Workers, Exit
    <3>5. QED BY SMTT(60), <1>2, <1>4, <1>5, <1>7, <3>1, <3>3, <3>4
  <2>2. CASE \E cleaned \in BOOLEAN : Cancelled(cleaned)
    <3>1. PICK cleaned \in BOOLEAN : Cancelled(cleaned) BY <2>2
    <3> DEFINE operation == worker.ledger.active.op
               proven == cleaned /\ worker.outcome # "failed" /\ operation # "CLOSE"
               e == Reply("CANCELLED", worker.ledger.counter, 0, 0, 0, proven)
               m == IF proven THEN Told(worker.ledger, e) ELSE worker.ledger
               w == [worker EXCEPT
                       !.status = IF proven THEN "idle" ELSE "exited", !.thread = "none",
                       !.conversation = @ /\ operation # "OPEN",
                       !.scratch = @ /\ ~(operation = "MEASURE" /\ cleaned),
                       !.ledger = m]
    <3>2. e \in Replies /\ e.event = "CANCELLED" BY <1>2, WrittenShape DEF Reply
    <3>3. m \in Ledgers
      <4>1. proven => operation \in DOMAIN AfterCancelled
        BY <2>0, <3>1 DEF Cancelled, Cancellable, AfterCancelled
      <4>2. proven => Told(worker.ledger, e) \in Ledgers BY <1>2, <3>2, <4>1, ToldShape
      <4>3. QED BY <1>2, <4>2
    <3>4. /\ \/ worker' = w /\ toParent' = Append(toParent, e)
             \/ Exit /\ UNCHANGED toParent
          /\ UNCHANGED faults \/ Fault
      BY <3>1 DEF Cancelled, Write
    <3> HIDE DEF e, m
    <3>5. w \in Workers BY ZenonT(60), <1>2, <3>3 DEF Workers
    <3> HIDE DEF w
    <3>8. Append(toParent, e) \in Seq(Replies) BY <1>7, <3>2
    <3>6. worker' \in Workers /\ toParent' \in Seq(Replies)
      BY <1>6, <1>7, <3>4, <3>5, <3>8 DEF Exit
    <3>7. QED BY <1>2, <1>4, <1>5, <3>4, <3>6 DEF Fault
  <2>3. QED BY <1>19, <2>1, <2>2 DEF End
<1>20. QED
  BY <1>1, <1>8, <1>9, <1>10, <1>11, <1>12, <1>13, <1>14, <1>15, <1>16, <1>17, <1>18, <1>19
  DEF Child

(***************************************************************************)
(* The child accounts for what it holds.                                   *)
(***************************************************************************)
(* What a terminal leaves of each request.                                 *)
LEMMA AnswerTold ==
    ASSUME NEW l \in Ledgers, l.active.op \in Ops, NEW outcome
    PROVE  LET m == Told(l, AnswerTo(l, outcome))
           IN /\ m \in Ledgers /\ m.active = NoRequest /\ m.cancelled = l.cancelled
              /\ l.active.op = "OPEN" =>
                   m.state = "CONVERSATION_READY" /\ m.claim = l.active.generation
              /\ l.active.op = "MEASURE" => m.state = "MEASURED" /\ m.claim = l.claim
              /\ l.active.op = "GENERATE" =>
                   m.state \in {"CONVERSATION_READY", "TAINTED"} /\ m.claim = l.claim
              /\ l.active.op = "DISCARD_TICKET" =>
                   m.state = "CONVERSATION_READY" /\ m.claim = l.claim
              /\ l.active.op = "CLOSE" => m.state = "ENGINE_READY" /\ m.claim = 0
<1> DEFINE e == AnswerTo(l, outcome)
<1>1. e \in Replies /\ e.event \in Terminals \ {"CANCELLED"} BY AnswerShape
<1>2. Told(l, e) \in Ledgers /\ Told(l, e).active = NoRequest
      /\ Told(l, e).cancelled = l.cancelled
  BY <1>1, ToldShape, TerminalsAre
<1>3. Told(l, e) = [Ended(l, e) EXCEPT !.active = NoRequest]
  BY <1>1, TerminalsAre DEF Told
<1>4. e.event = IF l.active.op # "GENERATE" THEN EventOf[l.active.op]
                ELSE IF outcome = "ok" THEN "RESULT" ELSE "REQUEST_FAILED"
  BY DEF AnswerTo, Reply
<1> HIDE DEF e
<1>5. CASE l.active.op = "OPEN"
  <2>1. e.event = "OPENED" BY <1>4, <1>5 DEF EventOf
  <2>2. Ended(l, e).state = "CONVERSATION_READY" /\ Ended(l, e).claim = l.active.generation
    BY <2>1 DEF Ended, Ledgers
  <2>3. QED BY <1>2, <1>3, <1>5, <2>2 DEF e
<1>6. CASE l.active.op = "MEASURE"
  <2>1. e.event = "MEASURED" BY <1>4, <1>6 DEF EventOf
  <2>2. Ended(l, e).state = "MEASURED" /\ Ended(l, e).claim = l.claim
    BY <2>1 DEF Ended, Ledgers
  <2>3. QED BY <1>2, <1>3, <1>6, <2>2 DEF e
<1>7. CASE l.active.op = "GENERATE"
  <2>1. e.event \in {"RESULT", "REQUEST_FAILED"} BY <1>4, <1>7
  <2>2. Ended(l, e).state \in {"CONVERSATION_READY", "TAINTED"}
        /\ Ended(l, e).claim = l.claim
    BY <2>1 DEF Ended, Ledgers
  <2>3. QED BY <1>2, <1>3, <1>7, <2>2 DEF e
<1>8. CASE l.active.op = "DISCARD_TICKET"
  <2>1. e.event = "TICKET_DISCARDED" BY <1>4, <1>8 DEF EventOf
  <2>2. Ended(l, e).state = "CONVERSATION_READY" /\ Ended(l, e).claim = l.claim
    BY <2>1 DEF Ended, Ledgers
  <2>3. QED BY <1>2, <1>3, <1>8, <2>2 DEF e
<1>9. CASE l.active.op = "CLOSE"
  <2>1. e.event = "CLOSED" BY <1>4, <1>9 DEF EventOf
  <2>2. Ended(l, e).state = "ENGINE_READY" /\ Ended(l, e).claim = 0
    BY <2>1 DEF Ended, Ledgers
  <2>3. QED BY <1>2, <1>3, <1>9, <2>2 DEF e
<1>10. QED BY <1>5, <1>6, <1>7, <1>8, <1>9 DEF Ops

(* What a CANCELLED leaves.                                                *)
LEMMA CancelledTold ==
    ASSUME NEW l \in Ledgers, NEW e \in Replies, e.event = "CANCELLED",
           l.active.op \in {"OPEN", "MEASURE", "GENERATE"}
    PROVE  LET m == Told(l, e)
           IN /\ m \in Ledgers /\ m.active = NoRequest /\ m.claim = l.claim
              /\ m.state = AfterCancelled[l.active.op]
<1>1. Told(l, e) \in Ledgers /\ Told(l, e).active = NoRequest
  BY ToldShape DEF AfterCancelled
<1>2. Told(l, e) = [Ended(l, e) EXCEPT !.active = NoRequest] BY DEF Told
<1>3. Ended(l, e) = [l EXCEPT !.state = AfterCancelled[l.active.op], !.ticket = 0,
                              !.consumed = 0]
  BY DEF Ended
<1>4. QED BY <1>1, <1>2, <1>3 DEF Ledgers

(* A child that has ended holds nothing.                                   *)
LEMMA ExitedIsClean ==
    ASSUME WorkerInv, worker'.status = "exited", worker'.ledger = worker.ledger
    PROVE  WorkerInv'
BY DEF WorkerInv, Working, Conversing, Scrubbed, CleanChild, ClaimIsNative, NoInputKept

(* Neither does one that starts.                                           *)
LEMMA SpawnedIsClean ==
    ASSUME worker' = [NoWorker EXCEPT !.status = "starting"]
    PROVE  WorkerInv'
<1>1. worker'.status = "starting" /\ worker'.ledger = FreshLedger
      /\ worker'.conversation = FALSE /\ worker'.scratch = FALSE
  BY DEF NoWorker
<1>2. worker'.ledger.claim = 0 BY <1>1 DEF FreshLedger
<1>3. QED
  BY <1>1, <1>2
  DEF WorkerInv, Working, Conversing, Scrubbed, CleanChild, ClaimIsNative, NoInputKept

(* A child that announces itself is clean.                                 *)
LEMMA AnnounceIsClean ==
    ASSUME Shape, WorkerInv, Announce
    PROVE  WorkerInv'
<1>1. worker \in Workers BY DEF Shape
<1>2. worker' = [worker EXCEPT !.status = "idle"] /\ worker.status = "starting"
  BY DEF Announce
<1>3. worker.ledger = FreshLedger /\ ~worker.conversation /\ ~worker.scratch
  BY <1>2 DEF WorkerInv, Working
<1>4. worker'.status = "idle" /\ worker'.ledger = FreshLedger /\ ~worker'.conversation
      /\ ~worker'.scratch
  BY <1>1, <1>2, <1>3 DEF Workers
<1>5. worker'.ledger.claim = 0 BY <1>4 DEF FreshLedger
<1>6. QED
  BY <1>4, <1>5
  DEF WorkerInv, Working, Conversing, Scrubbed, CleanChild, ClaimIsNative, NoInputKept

(* A command finds the child clean and begins a request.                   *)
LEMMA CommandIsClean ==
    ASSUME Shape, Asked, WorkerInv, Command
    PROVE  WorkerInv'
<1> DEFINE frame == Head(toChild)
           m == Commanded(worker.ledger, frame)
<1>1. worker \in Workers /\ worker.ledger \in Ledgers BY DEF Shape, Workers
<1>2. frame \in Frames /\ frame = toChild[1] /\ Len(toChild) >= 1 BY DEF Shape, Command
<1>3. worker.status = "idle" BY DEF Command
<1>4. CASE ~(frame.op \in Ops /\ AcceptsCommand(worker.ledger, frame))
  <2>1. worker' = [worker EXCEPT !.status = "exited"] BY <1>4 DEF Command, Exit
  <2>2. QED BY <1>1, <2>1, ExitedIsClean DEF Workers
<1>5. CASE frame.op \in Ops /\ AcceptsCommand(worker.ledger, frame)
  <2>1. worker' = [worker EXCEPT !.status = "busy", !.ledger = m, !.thread = "ready",
                                 !.outcome = "none", !.queue = 0, !.produced = 0,
                                 !.pending = FALSE, !.hit = FALSE]
    BY <1>5 DEF Command
  <2>2. /\ m \in Ledgers /\ m.claim = worker.ledger.claim /\ ~m.cancelled
        /\ m.active = [op |-> frame.op, generation |-> frame.generation,
                       ticket |-> frame.ticket]
        /\ m.state \in {"OPENING", "MEASURING", "GENERATING", "DISCARDING", "CLOSING"}
    BY <1>1, <1>2, <1>5, RequestShape
  <2>3. frame.op \in Allowed(worker.ledger.state) BY <1>5 DEF AcceptsCommand, Ops
  <2>4. frame.op = "OPEN" => worker.ledger.state = "ENGINE_READY" BY <2>3 DEF Allowed
  <2>5. frame.op = "OPEN" =>
            frame.generation # 0 /\ worker.ledger.claim = 0 /\ ~worker.scratch
    BY <1>2, <1>3, <2>4 DEF Asked, WorkerInv, Working, CleanChild, NoInputKept
  <2>6. worker.conversation <=> worker.ledger.claim # 0
    BY <1>3 DEF WorkerInv, CleanChild, ClaimIsNative
  <2> HIDE DEF m, frame
  <2>7. /\ worker'.status = "busy" /\ worker'.ledger = m /\ worker'.thread = "ready"
        /\ worker'.outcome = "none" /\ worker'.pending = FALSE /\ worker'.hit = FALSE
        /\ worker'.conversation = worker.conversation /\ worker'.scratch = worker.scratch
    BY <1>1, <2>1 DEF Workers
  <2>8. Working' BY <1>5, <2>2, <2>5, <2>7 DEF Working
  <2>9. Conversing' /\ Scrubbed'
    BY <1>5, <2>2, <2>5, <2>6, <2>7 DEF Conversing, Scrubbed
  <2>10. CleanChild' BY <2>7 DEF CleanChild, ClaimIsNative, NoInputKept
  <2>11. QED BY <2>8, <2>9, <2>10 DEF WorkerInv
<1>6. QED BY <1>4, <1>5

(* What the thread does, and what goes out meanwhile, leaves the rest.     *)
LEMMA BusyIsClean ==
    ASSUME Shape, WorkerInv, Native \/ Emit \/ NativeEnds \/ Relay
    PROVE  WorkerInv'
<1> DEFINE operation == worker.ledger.active.op
<1>1. worker \in Workers /\ worker.ledger \in Ledgers BY DEF Shape, Workers
<1>2. worker.status = "busy" BY DEF Native, Emit, NativeEnds, Relay
<1>3. SUFFICES Working' /\ Conversing' /\ Scrubbed' /\ worker'.status = "busy"
  BY DEF WorkerInv, CleanChild, ClaimIsNative, NoInputKept
<1>4. CASE Native
  <2>1. CASE operation = "GENERATE" /\ worker.pending
    <3>1. worker' = [worker EXCEPT !.thread = "done", !.outcome = "cancelled",
                                   !.pending = FALSE] BY <1>4, <2>1 DEF Native
    <3>2. /\ worker'.status = "busy" /\ worker'.ledger = worker.ledger
          /\ worker'.thread = "done" /\ worker'.outcome = "cancelled"
          /\ worker'.pending = FALSE /\ worker'.hit = worker.hit
          /\ worker'.conversation = worker.conversation /\ worker'.scratch = worker.scratch
      BY <1>1, <1>2, <3>1 DEF Workers
    <3>3. QED BY <1>2, <2>1, <3>2 DEF WorkerInv, Working, Conversing, Scrubbed
  <2>2. CASE ~(operation = "GENERATE" /\ worker.pending)
    <3> DEFINE c == IF operation = "OPEN" /\ worker.cache = "none" THEN "reading"
                    ELSE worker.cache
    <3>1. worker' = [worker EXCEPT !.thread = "native", !.cache = c]
      BY <1>4, <2>2 DEF Native
    <3> HIDE DEF c
    <3>2. /\ worker'.status = "busy" /\ worker'.ledger = worker.ledger
          /\ worker'.thread = "native" /\ worker'.outcome = worker.outcome
          /\ worker'.pending = worker.pending /\ worker'.hit = worker.hit
          /\ worker'.conversation = worker.conversation /\ worker'.scratch = worker.scratch
      BY <1>1, <1>2, <3>1 DEF Workers
    <3>3. QED BY <1>2, <3>2 DEF WorkerInv, Working, Conversing, Scrubbed
  <2>3. QED BY <2>1, <2>2
<1>5. CASE Emit
  <2>1. /\ worker'.status = "busy" /\ worker'.ledger = worker.ledger
        /\ worker'.thread = worker.thread /\ worker'.outcome = worker.outcome
        /\ worker'.pending = worker.pending /\ worker'.hit = worker.hit
        /\ worker'.conversation = worker.conversation /\ worker'.scratch = worker.scratch
    BY <1>1, <1>2, <1>5 DEF Workers, Emit
  <2>2. QED BY <1>2, <2>1 DEF WorkerInv, Working, Conversing, Scrubbed
<1>6. CASE NativeEnds
  <2>1. PICK outcome \in {"ok", "rejected", "cancelled", "failed"} :
            /\ worker' = NativeDone(outcome)
            /\ outcome = "rejected" => operation = "GENERATE"
            /\ outcome = "cancelled" => worker.hit
    BY <1>6 DEF NativeEnds
  <2>2. /\ worker'.status = "busy" /\ worker'.ledger = worker.ledger
        /\ worker'.thread = "done" /\ worker'.outcome = outcome
        /\ worker'.pending = worker.pending /\ worker'.hit = worker.hit
        /\ operation = "OPEN" => worker'.conversation = (outcome = "ok")
        /\ operation = "CLOSE" => worker'.conversation = FALSE
        /\ operation \notin {"OPEN", "CLOSE"} => worker'.conversation = worker.conversation
        /\ operation = "OPEN" => worker'.scratch = worker.scratch
        /\ operation \in {"CLOSE", "GENERATE"} => worker'.scratch = FALSE
        /\ operation = "DISCARD_TICKET" => worker'.scratch = (worker.scratch /\ outcome # "ok")
    BY <1>1, <1>2, <2>1 DEF NativeDone, Workers
  <2>3. Working' BY <1>2, <2>1, <2>2 DEF WorkerInv, Working
  <2>4. Conversing' BY <1>2, <2>1, <2>2 DEF WorkerInv, Conversing
  <2>5. Scrubbed' BY <1>2, <2>1, <2>2 DEF WorkerInv, Scrubbed
  <2>6. QED BY <2>2, <2>3, <2>4, <2>5
<1>7. CASE Relay
  <2> DEFINE e == Reply("SAFE_TEXT", worker.ledger.counter, 0, worker.ledger.fragments, 0, TRUE)
             m == Told(worker.ledger, e)
  <2>1. worker' = [worker EXCEPT !.queue = worker.queue - 1, !.ledger = m]
    BY <1>7 DEF Relay
  <2>2. /\ m.active = worker.ledger.active /\ m.cancelled = worker.ledger.cancelled
        /\ m.state = worker.ledger.state /\ m.claim = worker.ledger.claim
    BY <1>1, FragmentShape
  <2> HIDE DEF e, m
  <2>3. /\ worker'.status = "busy" /\ worker'.ledger = m
        /\ worker'.thread = worker.thread /\ worker'.outcome = worker.outcome
        /\ worker'.pending = worker.pending /\ worker'.hit = worker.hit
        /\ worker'.conversation = worker.conversation /\ worker'.scratch = worker.scratch
    BY <1>1, <1>2, <2>1 DEF Workers
  <2>4. QED BY <1>2, <2>2, <2>3 DEF WorkerInv, Working, Conversing, Scrubbed
<1>8. QED BY <1>4, <1>5, <1>6, <1>7

(* A CANCEL changes nothing but what is to come of the request.            *)
LEMMA CancelIsClean ==
    ASSUME Shape, WorkerInv, Cancel
    PROVE  WorkerInv'
<1> DEFINE frame == Head(toChild)
           e == Reply("CANCEL_DEFERRED", worker.ledger.counter, 0, 0, 0, TRUE)
           m == Told(Commanded(worker.ledger, frame), e)
           h == worker.ledger.active.op = "GENERATE" /\ worker.thread = "native"
<1>1. worker \in Workers /\ worker.ledger \in Ledgers BY DEF Shape, Workers
<1>2. worker.status = "busy" BY DEF Cancel
<1>3. CASE ~(frame.op = "CANCEL" /\ AcceptsCommand(worker.ledger, frame))
  <2>1. worker' = [worker EXCEPT !.status = "exited"] BY <1>3 DEF Cancel, Exit
  <2>2. QED BY <1>1, <2>1, ExitedIsClean DEF Workers
<1>4. CASE frame.op = "CANCEL" /\ AcceptsCommand(worker.ledger, frame)
  <2>1. worker' = [worker EXCEPT !.ledger = m, !.pending = TRUE, !.hit = h]
    BY <1>4 DEF Cancel
  <2>2. /\ m.active = worker.ledger.active /\ m.cancelled
        /\ m.state = worker.ledger.state /\ m.claim = worker.ledger.claim
    BY <1>1, <1>4, DeferredShape
  <2>3. worker.ledger.active.op \in Cancellable
    BY <1>4 DEF AcceptsCommand, AcceptsCancel
  <2>4. h => worker.ledger.active.op = "GENERATE" OBVIOUS
  <2> HIDE DEF e, m, h
  <2>5. /\ worker'.status = "busy" /\ worker'.ledger = m
        /\ worker'.thread = worker.thread /\ worker'.outcome = worker.outcome
        /\ worker'.pending /\ (worker'.hit => h)
        /\ worker'.conversation = worker.conversation /\ worker'.scratch = worker.scratch
    BY <1>1, <1>2, <2>1 DEF Workers
  <2>6. QED
    BY <1>2, <2>2, <2>3, <2>4, <2>5
    DEF WorkerInv, Working, Conversing, Scrubbed, CleanChild, ClaimIsNative, NoInputKept
<1>5. QED BY <1>3, <1>4

(* The end of a request leaves a child that is clean, or none.             *)
LEMMA EndIsClean ==
    ASSUME Shape, WorkerInv, End
    PROVE  WorkerInv'
<1> DEFINE l == worker.ledger
           operation == l.active.op
<1>1. worker \in Workers /\ l \in Ledgers BY DEF Shape, Workers
<1>2. worker.status = "busy" /\ worker.thread = "done" BY DEF End
<1>3. operation \in Ops /\ worker.outcome # "none"
      /\ (l.cancelled => operation \in Cancellable)
      /\ (worker.outcome = "rejected" => operation = "GENERATE")
  BY <1>2 DEF WorkerInv, Working
<1>4. operation = "OPEN" => l.active.generation # 0 /\ l.claim = 0 /\ ~worker.scratch
  BY <1>2 DEF WorkerInv, Working, Scrubbed
<1>5. /\ operation \notin {"OPEN", "CLOSE"} => (worker.conversation <=> l.claim # 0)
      /\ operation = "OPEN" /\ worker.outcome = "ok" => worker.conversation
      /\ operation = "CLOSE" => ~worker.conversation /\ ~worker.scratch
      /\ operation = "GENERATE" => ~worker.scratch \/ l.cancelled
      /\ operation = "DISCARD_TICKET" /\ worker.outcome = "ok" => ~worker.scratch
  BY <1>2 DEF WorkerInv, Conversing, Scrubbed
<1>6. ASSUME Exit PROVE WorkerInv'
  <2>1. worker'.status = "exited" /\ worker'.ledger = worker.ledger
    BY <1>1, <1>6 DEF Exit, Workers
  <2>2. QED BY <2>1, ExitedIsClean
<1>7. ASSUME worker'.status = "idle",
             worker'.ledger.state = "ENGINE_READY" => worker'.ledger.claim = 0,
             worker'.conversation <=> worker'.ledger.claim # 0,
             worker'.ledger.state \in {"ENGINE_READY", "CONVERSATION_READY"}
                 => ~worker'.scratch
      PROVE  WorkerInv'
  BY <1>7
  DEF WorkerInv, Working, Conversing, Scrubbed, CleanChild, ClaimIsNative, NoInputKept
<1>8. CASE Answer
  <2>1. CASE worker.outcome \in {"ok", "rejected"}
    <3> DEFINE m == Told(l, AnswerTo(l, worker.outcome))
    <3>1. worker' = [worker EXCEPT !.status = "idle", !.thread = "none", !.ledger = m]
      BY <1>8, <2>1 DEF Answer
    <3>2. ~l.cancelled BY <1>8 DEF Answer
    <3>3. /\ operation = "OPEN" => m.state = "CONVERSATION_READY" /\ m.claim = l.active.generation
          /\ operation = "MEASURE" => m.state = "MEASURED" /\ m.claim = l.claim
          /\ operation = "GENERATE" =>
               m.state \in {"CONVERSATION_READY", "TAINTED"} /\ m.claim = l.claim
          /\ operation = "DISCARD_TICKET" => m.state = "CONVERSATION_READY" /\ m.claim = l.claim
          /\ operation = "CLOSE" => m.state = "ENGINE_READY" /\ m.claim = 0
      BY <1>1, <1>3, AnswerTold
    <3> HIDE DEF m
    <3>4. worker'.status = "idle" /\ worker'.ledger = m
          /\ worker'.conversation = worker.conversation /\ worker'.scratch = worker.scratch
      BY <1>1, <3>1 DEF Workers
    <3>5. m.state = "ENGINE_READY" => m.claim = 0 BY <1>3, <3>3 DEF Ops
    <3>6. worker.conversation <=> m.claim # 0
      BY <1>3, <1>4, <1>5, <2>1, <3>3 DEF Ops
    <3>7. m.state \in {"ENGINE_READY", "CONVERSATION_READY"} => ~worker.scratch
      BY <1>3, <1>4, <1>5, <2>1, <3>2, <3>3 DEF Ops
    <3> HIDE DEF l, operation
    <3>8. QED BY <1>7, <3>4, <3>5, <3>6, <3>7
  <2>2. CASE worker.outcome \notin {"ok", "rejected"}
    BY <1>6, <1>8, <2>2 DEF Answer
  <2>3. QED BY <2>1, <2>2
<1>9. ASSUME NEW cleaned \in BOOLEAN, Cancelled(cleaned) PROVE WorkerInv'
  <2> DEFINE proven == cleaned /\ worker.outcome # "failed" /\ operation # "CLOSE"
             e == Reply("CANCELLED", l.counter, 0, 0, 0, proven)
             m == IF proven THEN Told(l, e) ELSE l
             w == [worker EXCEPT
                     !.status = IF proven THEN "idle" ELSE "exited", !.thread = "none",
                     !.conversation = @ /\ operation # "OPEN",
                     !.scratch = @ /\ ~(operation = "MEASURE" /\ cleaned),
                     !.ledger = m]
  <2>1. l.cancelled /\ (Exit \/ worker' = w) BY <1>9 DEF Cancelled
  <2>2. CASE worker' = w
    <3>1. /\ worker'.status = (IF proven THEN "idle" ELSE "exited") /\ worker'.ledger = m
          /\ worker'.conversation = (worker.conversation /\ operation # "OPEN")
          /\ worker'.scratch = (worker.scratch /\ ~(operation = "MEASURE" /\ cleaned))
      BY <1>1, <2>2 DEF Workers
    <3>2. CASE proven
      <4>1. operation \in {"OPEN", "MEASURE", "GENERATE"}
        BY <1>3, <2>1, <3>2 DEF Cancellable
      <4>2. e \in Replies /\ e.event = "CANCELLED" BY <1>1, WrittenShape DEF Reply
      <4>3. m.claim = l.claim /\ m.state = AfterCancelled[operation]
        BY <1>1, <3>2, <4>1, <4>2, CancelledTold
      <4>4. /\ operation = "OPEN" => m.state = "ENGINE_READY"
            /\ operation = "MEASURE" => m.state = "CONVERSATION_READY"
            /\ operation = "GENERATE" => m.state = "TAINTED"
        BY <4>3 DEF AfterCancelled
      <4> HIDE DEF m, e
      <4>5. m.state = "ENGINE_READY" => m.claim = 0 BY <1>4, <4>1, <4>3, <4>4
      <4>6. worker'.conversation <=> m.claim # 0
        BY <1>4, <1>5, <3>1, <4>1, <4>3
      <4>7. m.state \in {"ENGINE_READY", "CONVERSATION_READY"} => ~worker'.scratch
        BY <1>4, <3>1, <3>2, <4>1, <4>4
      <4>8. worker'.status = "idle" /\ worker'.ledger = m BY <3>1, <3>2
      <4> HIDE DEF l, operation, proven, w
      <4>9. QED BY <1>7, <4>5, <4>6, <4>7, <4>8
    <3>3. CASE ~proven
      <4>1. worker'.status = "exited" /\ worker'.ledger = worker.ledger BY <3>1, <3>3
      <4>2. QED BY <4>1, ExitedIsClean
    <3>4. QED BY <3>2, <3>3
  <2> HIDE DEF w
  <2>3. QED BY <1>6, <2>1, <2>2
<1>10. QED BY <1>8, <1>9 DEF End

(* No step leaves a child that holds what its ledger does not say.         *)
LEMMA WorkerStep == Shape /\ Asked /\ WorkerInv /\ [Next]_vars => WorkerInv'
<1>1. SUFFICES ASSUME Shape, Asked, WorkerInv, [Next]_vars PROVE WorkerInv' OBVIOUS
<1>2. worker \in Workers BY <1>1 DEF Shape
<1>3. ASSUME UNCHANGED worker PROVE WorkerInv'
  BY <1>1, <1>3
  DEF WorkerInv, Working, Conversing, Scrubbed, CleanChild, ClaimIsNative, NoInputKept
<1>4. CASE UNCHANGED vars BY <1>3, <1>4 DEF vars
<1>5. CASE Lifecycle
  <2>1. CASE Start \/ Replace
    <3>1. UNCHANGED worker \/ worker' = [NoWorker EXCEPT !.status = "starting"]
      BY <2>1 DEF Start, Replace, Spawn
    <3>2. QED BY <1>3, <3>1, SpawnedIsClean
  <2>2. CASE DestroyEnds
    <3>1. worker'.status = "exited" /\ worker'.ledger = worker.ledger
      BY <1>2, <2>2 DEF DestroyEnds, Workers
    <3>2. QED BY <1>1, <3>1, ExitedIsClean
  <2>3. CASE Rebuild \/ Ready \/ StartFails \/ DestroyFails \/ Raise
    BY <1>3, <2>3 DEF Rebuild, Ready, StartFails, DestroyFails, Raise
  <2>4. QED BY <1>5, <2>1, <2>2, <2>3 DEF Lifecycle
<1>6. CASE Requests
  BY <1>3, <1>6 DEF Requests, OpenConversation, Turn, Refused, CloseConversation
<1>7. CASE Responses
  BY <1>3, <1>7
  DEF Responses, Receive, EndOfFile, TakeFragment, TakeTerminal, TakeFailure, Deadline,
      GraceEnds, TaskCancelled
<1>8. CASE Control
  BY <1>3, <1>8
  DEF Control, Abort, AbortReturns, ForceAbort, AuthorizeRecovery, RecoveryAuthorized, Stop,
      Shutdown, Stopped, StopExpires
<1>9. CASE Child
  <2>1. CASE Boot
    <3>1. CASE worker' = [worker EXCEPT !.stage = @ + 1]
      <4>1. /\ worker'.status = worker.status /\ worker'.ledger = worker.ledger
            /\ worker'.conversation = worker.conversation /\ worker'.scratch = worker.scratch
            /\ worker.status = "starting"
        BY <1>2, <2>1, <3>1 DEF Boot, Workers
      <4>2. QED
        BY <1>1, <4>1
        DEF WorkerInv, Working, Conversing, Scrubbed, CleanChild, ClaimIsNative, NoInputKept
    <3>2. CASE Exit
      <4>1. worker'.status = "exited" /\ worker'.ledger = worker.ledger
        BY <1>2, <3>2 DEF Exit, Workers
      <4>2. QED BY <1>1, <4>1, ExitedIsClean
    <3>3. QED BY <2>1, <3>1, <3>2 DEF Boot
  <2>2. CASE Announce BY <1>1, <2>2, AnnounceIsClean
  <2>3. CASE Crash
    <3>1. worker'.status = "exited" /\ worker'.ledger = worker.ledger
      BY <1>2, <2>3 DEF Crash, Exit, Workers
    <3>2. QED BY <1>1, <3>1, ExitedIsClean
  <2>4. CASE Command BY <1>1, <2>4, CommandIsClean
  <2>5. CASE ShutdownChild
    <3>1. worker'.status = "exited" /\ worker'.ledger = worker.ledger
      BY <1>2, <2>5 DEF ShutdownChild, Workers
    <3>2. QED BY <1>1, <3>1, ExitedIsClean
  <2>6. CASE CacheRead
    <3>1. /\ worker'.status = worker.status /\ worker'.ledger = worker.ledger
          /\ worker'.thread = worker.thread /\ worker'.outcome = worker.outcome
          /\ worker'.pending = worker.pending /\ worker'.hit = worker.hit
          /\ worker'.conversation = worker.conversation /\ worker'.scratch = worker.scratch
      BY <1>2, <2>6 DEF CacheRead, Workers
    <3>2. QED
      BY <1>1, <3>1
      DEF WorkerInv, Working, Conversing, Scrubbed, CleanChild, ClaimIsNative, NoInputKept
  <2>7. CASE Native \/ Emit \/ NativeEnds \/ Relay BY <1>1, <2>7, BusyIsClean
  <2>8. CASE Cancel BY <1>1, <2>8, CancelIsClean
  <2>9. CASE End BY <1>1, <2>9, EndIsClean
  <2>10. QED
    BY <1>9, <2>1, <2>2, <2>3, <2>4, <2>5, <2>6, <2>7, <2>8, <2>9 DEF Child
<1>10. QED BY <1>1, <1>4, <1>5, <1>6, <1>7, <1>8, <1>9 DEF Next

(***************************************************************************)
(* What is asked of the child.                                             *)
(***************************************************************************)
(* What a step can do to the pipe that leads to the child.                 *)
LEMMA PipeMoves ==
    Shape /\ [Next]_vars =>
        \/ toChild' \in {toChild, <<>>}
        \/ toChild # <<>> /\ toChild' = Tail(toChild)
        \/ \E frame \in Frames : /\ toChild' = Append(toChild, frame)
                                 /\ frame.op = "OPEN" => frame.generation # 0
<1> DEFINE Sent(frame) == /\ toChild' = Append(toChild, frame)
                          /\ frame.op = "OPEN" => frame.generation # 0
           Moved == \/ toChild' \in {toChild, <<>>}
                    \/ toChild # <<>> /\ toChild' = Tail(toChild)
                    \/ \E frame \in Frames : Sent(frame)
<1>1. SUFFICES ASSUME Shape, [Next]_vars PROVE Moved OBVIOUS
<1>2. CASE UNCHANGED vars BY <1>2 DEF vars
<1>3. CASE Lifecycle
  BY <1>3
  DEF Lifecycle, Start, Rebuild, Replace, Spawn, Ready, StartFails, DestroyEnds, DestroyFails,
      Raise
<1>4. ASSUME NEW kind \in Ops, NEW gen \in Generations, Request(kind, gen),
             kind = "OPEN" => gen # 0
      PROVE  Moved
  <2> DEFINE ticket == IF kind \in {"GENERATE", "DISCARD_TICKET"} THEN ledger.ticket ELSE 0
             frame == Frame(kind, ledger.counter + 1, gen, ticket)
  <2>1. ticket \in Nat /\ ledger.counter + 1 \in Nat BY <1>1 DEF Shape, Ledgers
  <2>2. frame \in Frames /\ frame.op = kind /\ frame.generation = gen
    BY <2>1 DEF Frame, Frames
  <2>3. toChild' = Append(toChild, frame) \/ toChild' = toChild
    BY <1>4 DEF Request, Send
  <2> HIDE DEF frame
  <2>4. QED BY <1>4, <2>2, <2>3
<1>5. CASE Requests
  <2>1. ledger.claim \in Generations BY <1>1 DEF Shape, Ledgers
  <2>2. CASE OpenConversation
    <3>1. generation + 1 \in Generations /\ generation + 1 # 0
      BY <1>1, <2>2, Bounds DEF OpenConversation, Shape, Generations
    <3>2. Request("OPEN", generation + 1) \/ UNCHANGED toChild
      BY <2>2 DEF OpenConversation
    <3>3. QED BY <1>4, <3>1, <3>2 DEF Ops
  <2>3. CASE \E kind \in {"MEASURE", "GENERATE", "DISCARD_TICKET"} : Turn(kind)
    BY <1>4, <2>1, <2>3 DEF Turn, Ops
  <2>4. CASE Refused BY <2>4 DEF Refused
  <2>5. CASE CloseConversation BY <1>4, <2>1, <2>5 DEF CloseConversation, Ops
  <2>6. QED BY <1>5, <2>2, <2>3, <2>4, <2>5 DEF Requests
<1>6. ASSUME NEW frame, frame \in {Frame("CANCEL", ledger.counter, 0, 0),
                                   Frame("SHUTDOWN", 0, 0, 0)},
             toChild' = Append(toChild, frame)
      PROVE  Moved
  <2>1. ledger.counter \in Nat BY <1>1 DEF Shape, Ledgers
  <2>2. frame \in Frames /\ frame.op # "OPEN" BY <1>6, <2>1, Values DEF Frame, Frames
  <2>3. QED BY <1>6, <2>2
<1>7. CASE Responses
  <2>1. CASE Deadline
    <3>1. toChild' = toChild \/ toChild' = Append(toChild, Frame("CANCEL", ledger.counter, 0, 0))
      BY <2>1 DEF Deadline, Send
    <3>2. QED BY <1>6, <3>1
  <2>2. CASE ~Deadline
    BY <1>7, <2>2
    DEF Responses, Receive, EndOfFile, TakeFragment, TakeTerminal, TakeFailure, GraceEnds,
        TaskCancelled
  <2>3. QED BY <2>1, <2>2
<1>8. CASE Control
  <2>1. CASE Abort
    <3>1. toChild' = toChild \/ toChild' = Append(toChild, Frame("CANCEL", ledger.counter, 0, 0))
      BY <2>1 DEF Abort, Send
    <3>2. QED BY <1>6, <3>1
  <2>2. CASE Shutdown
    <3>1. toChild' = toChild \/ toChild' = Append(toChild, Frame("SHUTDOWN", 0, 0, 0))
      BY <2>2 DEF Shutdown, Send
    <3>2. QED BY <1>6, <3>1
  <2>3. CASE ~Abort /\ ~Shutdown
    BY <1>8, <2>3
    DEF Control, AbortReturns, ForceAbort, AuthorizeRecovery, RecoveryAuthorized, Stop,
        Stopped, StopExpires
  <2>4. QED BY <2>1, <2>2, <2>3
<1>9. CASE Child
  BY <1>9
  DEF Child, Boot, Announce, Crash, Command, ShutdownChild, CacheRead, Native, Emit, NativeEnds,
      Relay, Cancel, End
<1>10. QED BY <1>1, <1>2, <1>3, <1>5, <1>7, <1>8, <1>9 DEF Next

(* No step asks for a conversation without a number.                       *)
LEMMA AskedStep == Shape /\ Asked /\ [Next]_vars => Asked'
<1>1. SUFFICES ASSUME Shape, Asked, [Next]_vars PROVE Asked' OBVIOUS
<1>2. toChild \in Seq(Frames) BY <1>1 DEF Shape
<1>3. CASE toChild' = toChild BY <1>1, <1>3 DEF Asked
<1>4. CASE toChild' = <<>>
  <2>1. Len(toChild') = 0 BY <1>4
  <2>2. QED BY <2>1 DEF Asked
<1>5. CASE toChild # <<>> /\ toChild' = Tail(toChild)
  <2>1. Len(toChild') = Len(toChild) - 1
        /\ \A i \in 1 .. Len(toChild') : toChild'[i] = toChild[i + 1]
    BY <1>2, <1>5
  <2>2. Len(toChild) \in Nat BY <1>2
  <2>3. QED BY <1>1, <2>1, <2>2 DEF Asked
<1>6. CASE \E frame \in Frames : /\ toChild' = Append(toChild, frame)
                                 /\ frame.op = "OPEN" => frame.generation # 0
  <2>1. PICK frame \in Frames : /\ toChild' = Append(toChild, frame)
                                /\ frame.op = "OPEN" => frame.generation # 0
    BY <1>6
  <2>2. Len(toChild') = Len(toChild) + 1 /\ Len(toChild) \in Nat
        /\ toChild'[Len(toChild) + 1] = frame
        /\ \A i \in 1 .. Len(toChild) : toChild'[i] = toChild[i]
    BY <1>2, <2>1
  <2>3. QED BY <1>1, <2>1, <2>2 DEF Asked
<1>7. QED BY <1>1, <1>3, <1>4, <1>5, <1>6, PipeMoves

(***************************************************************************)
(* The parent takes each answer for what it is.                            *)
(***************************************************************************)
(* An operation that fails leaves nobody who reads or uses the engine.     *)
LEMMA Failed ==
    ASSUME ledger'.state \notin {"STOPPING", "STOPPED"}, adapter' = "DESTROYED",
           reader' = FALSE, op'.phase \notin {"wait", "ready"}
    PROVE  ParentInv'
BY DEF ParentInv, Sides, Awaits, Waits, Own, Usable

(* A destruction beside the operation leaves it to find out.               *)
LEMMA Destroyed ==
    ASSUME ParentInv, adapter' = "DESTROYED", reader' = FALSE,
           UNCHANGED <<op, responses, ledger, worker, toChild>>,
           UNCHANGED toParent \/ op.phase # "ready"
    PROVE  ParentInv'
BY DEF ParentInv, Sides, Awaits, Waits, Own, Mine, Usable

(* An engine that can be used, and that nobody uses, holds no answer.      *)
LEMMA NothingLeft ==
    ASSUME Own, op = NoOp, Usable, NEW i \in 1 .. Len(responses)
    PROVE  ~Terminal(responses[i])
BY DEF Own, Mine, NoOp

(* A life of the child keeps who reads, waits and owns an answer.          *)
LEMMA ParentLifecycle ==
    ASSUME Shape, ParentInv, Lifecycle
    PROVE  ParentInv'
<1>1. ledger.state \notin {"STOPPING", "STOPPED"} BY DEF ParentInv, Sides
<1>2. ASSUME NEW kind, Spawn(kind), ~reader, UNCHANGED <<ledger, responses, reader>>
      PROVE  ParentInv'
  <2>1. adapter' = "STARTING" /\ op'.phase = "ready" /\ worker'.status = "starting"
        /\ worker'.ledger = FreshLedger /\ toChild' = <<>> /\ toParent' = <<>>
    BY <1>2 DEF Spawn, NoOp, NoWorker
  <2>2. QED BY <1>1, <1>2, <2>1 DEF ParentInv, Sides, Awaits, Waits, Own, Usable
<1>3. CASE Start
  BY <1>2, <1>3 DEF Start, ParentInv, Sides
<1>4. CASE Rebuild
  <2>1. op'.phase \in {"destroy", "raise"} BY <1>4 DEF Rebuild, Fail, NoOp, Shape, Operations
  <2>2. adapter' = "DESTROYED" /\ reader' = FALSE /\ ledger' = ledger
    BY <1>4 DEF Rebuild, Destroy
  <2>3. QED BY <1>1, <2>1, <2>2, Failed
<1>5. CASE Replace
  <2>1. op.phase = "destroy" BY <1>5 DEF Replace
  <2>2. ~reader /\ adapter # "STOPPED" BY <2>1 DEF ParentInv, Sides, NoOp
  <2>3. CASE Spawn("REBUILD") BY <1>2, <1>5, <2>2, <2>3 DEF Replace
  <2>4. CASE Fail("REBUILD") /\ UNCHANGED <<adapter, epoch, destruction, worker, toChild,
                                            toParent>>
    <3>1. op'.phase = "raise" BY <2>4 DEF Fail, Shape, Operations
    <3>2. UNCHANGED <<ledger, responses, reader, adapter>> BY <1>5, <2>4 DEF Replace
    <3>3. QED
      BY <1>1, <2>1, <2>2, <3>1, <3>2
      DEF ParentInv, Sides, Awaits, Waits, Own, Mine, Usable
  <2>5. QED BY <1>5, <2>3, <2>4 DEF Replace
<1>6. CASE Ready
  <2>1. CASE Destroy /\ Fail(op.kind) /\ UNCHANGED ledger
    <3>1. op'.phase = "raise" BY <2>1 DEF Fail, Shape, Operations
    <3>2. QED BY <1>1, <2>1, <3>1, Failed DEF Destroy
  <2>2. CASE ~(Destroy /\ Fail(op.kind) /\ UNCHANGED ledger)
    <3>1. /\ op.phase = "ready" /\ toParent # <<>> /\ adapter' = "ENGINE_READY"
          /\ ledger' = FreshLedger /\ responses' = <<>> /\ op' = NoOp
          /\ UNCHANGED worker
      BY <1>6, <2>2 DEF Ready
    <3>2. worker.status # "starting" BY <3>1 DEF ParentInv, Awaits
    <3>3. ledger'.active = NoRequest /\ ledger'.state = "ENGINE_READY"
      BY <3>1 DEF FreshLedger
    <3>4. Len(responses') = 0 BY <3>1
    <3>5. QED
      BY <3>1, <3>2, <3>3, <3>4 DEF ParentInv, Sides, Awaits, Waits, Own, NoOp
  <2>3. QED BY <2>1, <2>2
<1>7. CASE StartFails
  <2>1. op'.phase = "raise" BY <1>7 DEF StartFails, Fail, Shape, Operations
  <2>2. QED BY <1>1, <1>7, <2>1, Failed DEF StartFails, Destroy
<1>8. CASE DestroyEnds
  <2>1. worker \in Workers BY DEF Shape
  <2>2. /\ worker'.status = "exited" /\ worker'.ledger = worker.ledger
        /\ ledger'.state = "DESTROYED" /\ ledger'.active = NoRequest
        /\ responses' = <<Fatal>> /\ toChild' = <<>>
        /\ UNCHANGED <<adapter, op, reader, stopping>>
    BY <1>8, <2>1 DEF DestroyEnds, Workers, FreshLedger
  <2>3. Len(responses') = 1 /\ responses'[1] = Fatal BY <2>2
  <2>4. ~Terminal(Fatal) BY TerminalsAre DEF Terminal, Fatal, Reply
  <2>5. Own' BY <2>3, <2>4 DEF Own, Terminal
  <2>6. QED BY <2>2, <2>5 DEF ParentInv, Sides, Awaits, Waits
<1>9. CASE DestroyFails
  BY <1>9 DEF DestroyFails, ParentInv, Sides, Awaits, Waits, Own, Mine, Usable
<1>10. CASE Raise
  <2>1. op.phase = "raise" /\ op' = NoOp /\ stopping' = FALSE
        /\ UNCHANGED <<adapter, ledger, responses, reader, worker, toChild, toParent>>
    BY <1>10 DEF Raise
  <2>2. ~reader BY <2>1 DEF ParentInv, Sides
  <2>3. QED
    BY <1>1, <2>1, <2>2 DEF ParentInv, Sides, Awaits, Waits, Own, Mine, Usable, NoOp
<1>11. QED
  BY <1>3, <1>4, <1>5, <1>6, <1>7, <1>8, <1>9, <1>10 DEF Lifecycle

(* So does a request.                                                      *)
LEMMA ParentRequests ==
    ASSUME Shape, ParentInv, Requests
    PROVE  ParentInv'
<1>1. ledger.state \notin {"STOPPING", "STOPPED"} BY DEF ParentInv, Sides
<1>2. op = NoOp /\ Usable /\ UNCHANGED <<responses, worker, stopping>>
  BY DEF Requests, OpenConversation, Turn, Refused, CloseConversation
<1>3. \A i \in 1 .. Len(responses) : ~Terminal(responses[i])
  BY <1>2, NothingLeft DEF ParentInv
<1>4. Own' BY <1>2, <1>3 DEF Own, Terminal
<1>5. ASSUME NEW kind \in Ops, NEW gen \in Generations, Request(kind, gen)
      PROVE  ParentInv'
  <2> DEFINE ticket == IF kind \in {"GENERATE", "DISCARD_TICKET"} THEN ledger.ticket ELSE 0
             frame == Frame(kind, ledger.counter + 1, gen, ticket)
  <2>1. ticket \in Nat /\ ledger.counter + 1 \in Nat BY DEF Shape, Ledgers
  <2>2. frame \in Frames /\ frame.op = kind BY <2>1 DEF Frame, Frames
  <2>3. ledger' = Commanded(ledger, frame) BY <1>5 DEF Request
  <2>8. ledger \in Ledgers BY DEF Shape
  <2> HIDE DEF frame
  <2>4. ledger'.active.op = kind /\ ledger'.state \notin {"STOPPING", "STOPPED"}
    <3> DEFINE m == Commanded(ledger, frame)
    <3>1. m.active = [op |-> frame.op, generation |-> frame.generation,
                      ticket |-> frame.ticket]
          /\ m.state \in {"OPENING", "MEASURING", "GENERATING", "DISCARDING", "CLOSING"}
      BY <2>2, <2>8, RequestShape
    <3> HIDE DEF m
    <3>2. m.active.op = kind /\ m.state \notin {"STOPPING", "STOPPED"} BY <2>2, <3>1
    <3>3. QED BY <2>3, <3>2 DEF m
  <2>5. CASE Live
    <3>1. op' = [NoOp EXCEPT !.kind = kind, !.phase = "wait"]
          /\ UNCHANGED <<adapter, destruction, reader>>
      BY <1>5, <2>5 DEF Request
    <3>2. op'.kind = kind /\ op'.phase = "wait" BY <3>1 DEF NoOp
    <3>3. QED
      BY <1>2, <1>4, <2>4, <3>1, <3>2 DEF ParentInv, Sides, Awaits, Waits, Usable
  <2>6. CASE ~Live
    <3>1. Destroy /\ Fail(kind) BY <1>5, <2>6 DEF Request
    <3>2. op'.phase = "raise" BY <3>1 DEF Fail, Shape, Operations
    <3>3. QED BY <2>4, <3>1, <3>2, Failed DEF Destroy
  <2>7. QED BY <2>5, <2>6
<1>6. ledger.claim \in Generations BY DEF Shape, Ledgers
<1>7. CASE OpenConversation
  <2>1. CASE Request("OPEN", generation + 1)
    <3>1. generation + 1 \in Generations
      BY <1>7, Bounds DEF OpenConversation, Shape, Generations
    <3>2. QED BY <1>5, <2>1, <3>1 DEF Ops
  <2>2. CASE SampleFails("OPEN") /\ UNCHANGED <<ledger, toChild>>
    <3>1. op'.phase = "raise" BY <2>2 DEF SampleFails, Fail, Shape, Operations
    <3>2. QED BY <1>1, <2>2, <3>1, Failed DEF SampleFails, Destroy
  <2>3. QED BY <1>7, <2>1, <2>2 DEF OpenConversation
<1>8. CASE \E kind \in {"MEASURE", "GENERATE", "DISCARD_TICKET"} : Turn(kind)
  BY <1>5, <1>6, <1>8 DEF Turn, Ops
<1>9. CASE Refused
  <2>1. CASE Destroy /\ Fail("GENERATE")
    <3>1. op'.phase = "raise" BY <2>1 DEF Fail, Shape, Operations
    <3>2. ledger' = ledger BY <1>9 DEF Refused
    <3>3. QED BY <1>1, <2>1, <3>1, <3>2, Failed DEF Destroy
  <2>2. CASE ~(Destroy /\ Fail("GENERATE"))
    <3>1. adapter' = "RECYCLE_PENDING" /\ UNCHANGED <<op, reader, ledger>>
      BY <1>9, <2>2 DEF Refused
    <3>2. QED
      BY <1>1, <1>2, <1>4, <3>1 DEF ParentInv, Sides, Awaits, Waits, NoOp
  <2>3. QED BY <2>1, <2>2
<1>10. CASE CloseConversation BY <1>5, <1>6, <1>10 DEF CloseConversation, Ops
<1>11. QED BY <1>7, <1>8, <1>9, <1>10 DEF Requests

(* So does what comes back.                                                *)
LEMMA ParentResponses ==
    ASSUME Shape, ParentInv, Responses
    PROVE  ParentInv'
<1>1. ledger.state \notin {"STOPPING", "STOPPED"} BY DEF ParentInv, Sides
<1>2. ASSUME Fail(op.kind) PROVE op'.phase = "raise"
  BY <1>2 DEF Fail, Shape, Operations
<1>3. UNCHANGED <<worker, stopping>>
  BY DEF Responses, Receive, EndOfFile, TakeFragment, TakeTerminal, TakeFailure, Deadline,
         GraceEnds, TaskCancelled
<1>4. responses \in Seq(Replies) BY DEF Shape
<1>5. CASE Receive
  <2>0. Head(toParent) \in Replies BY <1>5 DEF Receive, Shape
  <2>6. PICK e \in Replies : e = Head(toParent) BY <2>0
  <2>1. reader /\ e \in Replies BY <1>5 DEF Receive
  <2>2. UNCHANGED op BY <1>5 DEF Receive
  <2>3. CASE AcceptsEvent(ledger, e)
    <3>1. ledger' = Told(ledger, e) /\ responses' = Append(responses, e)
          /\ UNCHANGED <<adapter, reader>>
      BY <1>5, <2>3, <2>6 DEF Receive
    <3>2. e.event \in Terminals \cup {"SAFE_TEXT", "CANCEL_DEFERRED"}
      BY <1>1, <2>3 DEF AcceptsEvent
    <3>3. ledger.active # NoRequest
      BY <2>3, <3>2, TerminalsAre DEF AcceptsEvent, Answers, NoRequest
    <3>4. op.phase = "wait" /\ op.kind = ledger.active.op
      BY <2>1, <3>3 DEF ParentInv, Waits
    <3>5. e.event = "CANCELLED" => ledger.active.op \in DOMAIN AfterCancelled
      BY <2>3, TerminalsAre DEF AcceptsEvent, Answers, AfterCancelled
    <3>6. /\ ledger'.counter = ledger.counter
          /\ ledger'.active = IF e.event \in {"SHUTDOWN_ACK", "CANCEL_DEFERRED", "SAFE_TEXT"}
                              THEN ledger.active ELSE NoRequest
      BY <2>1, <3>1, <3>5, ToldShape DEF Shape
    <3>7. ledger'.state \notin {"STOPPING", "STOPPED"}
      <4>1. CASE e.event \in {"SAFE_TEXT", "CANCEL_DEFERRED"}
        BY <1>1, <3>1, <4>1 DEF Told, Shape, Ledgers
      <4>2. CASE e.event \in Terminals
        <5>1. ledger' = [Ended(ledger, e) EXCEPT !.active = NoRequest]
          BY <3>1, <4>2, TerminalsAre DEF Told
        <5>2. Ended(ledger, e).state
                  \in {"ENGINE_READY", "CONVERSATION_READY", "MEASURED", "TAINTED"}
              /\ DOMAIN Ended(ledger, e) = DOMAIN ledger
          BY <4>2, <3>5, TerminalsAre DEF Ended, Shape, Ledgers, AfterCancelled
        <5>3. QED BY <5>1, <5>2 DEF Shape, Ledgers
      <4>3. QED BY <3>2, <4>1, <4>2
    <3>8. ASSUME NEW i \in 1 .. Len(responses) PROVE ~Terminal(responses[i])
      BY <3>3, <3>4 DEF ParentInv, Own, Mine
    <3>9. ~Terminal(e) \/ Mine(e)'
      <4>1. CASE Terminal(e)
        <5>1. e.event \in Terminals BY <4>1 DEF Terminal
        <5>2. e.id = ledger.counter /\ ledger.active.op \in Answers[e.event]
          BY <2>3, <5>1, TerminalsAre DEF AcceptsEvent
        <5>3. ledger'.active = NoRequest BY <3>6, <5>1, TerminalsAre
        <5>4. e \in Replies /\ op'.phase = "wait" /\ op'.kind = ledger.active.op
              /\ ledger'.counter = ledger.counter
          BY <2>1, <2>2, <3>4, <3>6
        <5>5. QED BY <5>2, <5>3, <5>4 DEF Mine
      <4>2. QED BY <4>1
    <3>10. Own'
      <4> DEFINE n == Len(responses) + 1
      <4>1. Len(responses') = n /\ n \in Nat /\ responses'[n] = e
            /\ \A i \in 1 .. Len(responses) : responses'[i] = responses[i]
        BY <1>4, <2>1, <3>1
      <4>2. ASSUME NEW i \in 1 .. n, Terminal(responses'[i])
            PROVE  Mine(responses[i])' /\ i = n
        <5>1. i = n BY <1>4, <3>8, <4>1, <4>2
        <5>2. responses'[i] = e BY <4>1, <5>1
        <5>3. Mine(e)' BY <3>9, <4>2, <5>2 DEF Terminal
        <5>4. QED BY <5>1, <5>2, <5>3 DEF Mine
      <4>3. QED BY <4>1, <4>2 DEF Own, Terminal
    <3>11. Sides' /\ Awaits' /\ Waits'
      BY <1>3, <2>1, <2>2, <3>1, <3>4, <3>6, <3>7 DEF ParentInv, Sides, Awaits, Waits, NoOp
    <3>12. QED BY <3>10, <3>11 DEF ParentInv
  <2>4. CASE ~AcceptsEvent(ledger, e)
    <3>1. Destroy /\ UNCHANGED <<op, responses, ledger, worker, toChild>>
      BY <1>5, <2>4, <2>6 DEF Receive
    <3>2. op.phase # "ready" BY <2>1 DEF ParentInv, Sides
    <3>3. QED BY <3>1, <3>2, Destroyed DEF Destroy
  <2>5. QED BY <2>3, <2>4
<1>6. CASE EndOfFile BY <1>6, Destroyed DEF EndOfFile, Destroy
<1>7. ASSUME op.phase = "wait", responses # <<>>, responses' = Tail(responses),
             UNCHANGED <<op, ledger>>
      PROVE  Own'
  <2>1. /\ Len(responses') = Len(responses) - 1 /\ Len(responses) \in Nat
        /\ \A i \in 1 .. Len(responses') : responses'[i] = responses[i + 1]
    BY <1>4, <1>7
  <2>2. ASSUME NEW i \in 1 .. Len(responses'), Terminal(responses'[i])
        PROVE  Mine(responses[i])' /\ i = Len(responses')
    <3>1. i + 1 \in 1 .. Len(responses) /\ responses'[i] = responses[i + 1] BY <2>1
    <3>2. Mine(responses[i + 1]) /\ i + 1 = Len(responses)
      BY <1>7, <2>2, <3>1 DEF ParentInv, Own
    <3>3. PICK r : r = responses[i + 1] OBVIOUS
    <3>4. Mine(r)' /\ responses'[i] = r BY <1>7, <3>1, <3>2, <3>3 DEF Mine
    <3>5. i = Len(responses') BY <2>1, <3>2
    <3>6. QED BY <3>4, <3>5 DEF Mine
  <2>3. QED BY <2>2 DEF Own, Terminal
<1>8. CASE TakeFragment
  <2>1. ledger' = ledger /\ op.phase = "wait" BY <1>8 DEF TakeFragment
  <2>2. CASE UNCHANGED <<op, adapter, destruction, reader, faults>>
    <3>1. Own' BY <1>7, <1>8, <2>2 DEF TakeFragment
    <3>2. QED
      BY <1>3, <2>1, <2>2, <3>1 DEF ParentInv, Sides, Awaits, Waits, NoOp
  <2>3. CASE Destroy /\ Fail(op.kind)
    BY <1>1, <1>2, <2>1, <2>3, Failed DEF Destroy
  <2>4. QED BY <1>8, <2>2, <2>3 DEF TakeFragment
<1>9. CASE TakeTerminal
  <2>1. /\ op.phase = "wait" /\ responses # <<>> /\ responses' = Tail(responses)
        /\ Head(responses).event \in Terminals /\ ledger' = ledger
    BY <1>9 DEF TakeTerminal
  <2>2. CASE adapter' = Synced /\ op' = NoOp /\ reader' = reader
    <3>1. Head(responses) = responses[1] /\ 1 \in 1 .. Len(responses) BY <1>4, <2>1
    <3>2. Mine(responses[1]) /\ Len(responses) = 1
      BY <2>1, <3>1 DEF ParentInv, Own, Terminal
    <3>3. ledger.active = NoRequest BY <3>2 DEF Mine
    <3>4. Len(responses') = 0 BY <1>4, <2>1, <3>2
    <3>5. Own' BY <3>4 DEF Own
    <3>6. adapter # "STOPPED" BY <2>1 DEF ParentInv, Sides, NoOp
    <3>7. adapter' # "STOPPED" BY <1>1, <2>2, <3>6 DEF Synced
    <3>8. QED
      BY <1>3, <2>1, <2>2, <3>3, <3>5, <3>7 DEF ParentInv, Sides, Awaits, Waits, NoOp
  <2>3. CASE Destroy /\ Fail(op.kind)
    BY <1>1, <1>2, <2>1, <2>3, Failed DEF Destroy
  <2>4. QED BY <1>9, <2>2, <2>3 DEF TakeTerminal, SampleFails
<1>10. CASE TakeFailure
  BY <1>1, <1>2, <1>10, Failed DEF TakeFailure, Destroy
<1>11. CASE Deadline
  <2> DEFINE frame == Frame("CANCEL", ledger.counter, 0, 0)
  <2>1. ledger' = ledger \/ ledger' = Commanded(ledger, frame) BY <1>11 DEF Deadline
  <2>2. Commanded(ledger, frame) = Cancelling(ledger) BY CancelCommand DEF Frame
  <2>3. ledger \in Ledgers BY DEF Shape
  <2>4. ledger'.active = ledger.active /\ ledger'.counter = ledger.counter
        /\ ledger'.state = ledger.state
    BY <2>1, <2>2, <2>3, CancelShape
  <2>5. CASE Destroy /\ Fail(op.kind)
    BY <1>1, <1>2, <2>4, <2>5, Failed DEF Destroy
  <2>6. CASE op' = [op EXCEPT !.expired = TRUE] /\ UNCHANGED <<adapter, destruction, reader>>
    <3>1. op'.phase = op.phase /\ op'.kind = op.kind /\ op.phase = "wait"
          /\ responses' = responses
      BY <1>11, <2>6 DEF Deadline, Shape, Operations
    <3>2. ASSUME NEW i \in 1 .. Len(responses), Mine(responses[i]) PROVE Mine(responses[i])'
      BY <2>4, <3>1, <3>2 DEF Mine
    <3>3. Own' BY <2>6, <3>1, <3>2 DEF ParentInv, Own, Terminal, Usable
    <3>4. QED
      BY <1>1, <1>3, <2>4, <2>6, <3>1, <3>3 DEF ParentInv, Sides, Awaits, Waits, NoOp
  <2>7. QED BY <1>11, <2>5, <2>6 DEF Deadline
<1>12. CASE GraceEnds
  BY <1>1, <1>2, <1>12, Failed DEF GraceEnds, Destroy
<1>13. CASE TaskCancelled
  <2>1. CASE Fail(op.kind)
    BY <1>1, <1>2, <1>13, <2>1, Failed DEF TaskCancelled, Destroy
  <2>2. CASE UNCHANGED op
    BY <1>13, <2>2, Destroyed DEF TaskCancelled, Destroy
  <2>3. QED BY <1>13, <2>1, <2>2 DEF TaskCancelled
<1>14. QED
  BY <1>5, <1>6, <1>8, <1>9, <1>10, <1>11, <1>12, <1>13 DEF Responses

(* So does what the rest of the program asks for.                          *)
LEMMA ParentControl ==
    ASSUME Shape, ParentInv, Control
    PROVE  ParentInv'
<1>1. ledger.state \notin {"STOPPING", "STOPPED"} BY DEF ParentInv, Sides
<1>2. ASSUME Fail("STOP") PROVE op'.phase = "raise"
  BY <1>2 DEF Fail, Shape, Operations
<1>3. CASE Abort
  <2> DEFINE frame == Frame("CANCEL", ledger.counter, 0, 0)
  <2>1. ledger' = ledger \/ ledger' = Commanded(ledger, frame) BY <1>3 DEF Abort
  <2>2. Commanded(ledger, frame) = Cancelling(ledger) BY CancelCommand DEF Frame
  <2>3. ledger \in Ledgers BY DEF Shape
  <2>4. ledger'.active = ledger.active /\ ledger'.counter = ledger.counter
        /\ ledger'.state = ledger.state
    BY <2>1, <2>2, <2>3, CancelShape
  <2>5. op' = op \/ op' = [op EXCEPT !.atomic = TRUE] BY <1>3 DEF Abort
  <2>6. op'.phase = op.phase /\ op'.kind = op.kind /\ op.phase = "wait"
        /\ UNCHANGED <<responses, adapter, reader, worker, stopping>>
    BY <1>3, <2>5 DEF Abort, Shape, Operations
  <2>7. ASSUME NEW i \in 1 .. Len(responses), Mine(responses[i]) PROVE Mine(responses[i])'
    BY <2>4, <2>6, <2>7 DEF Mine
  <2>8. Own' BY <2>6, <2>7 DEF ParentInv, Own, Terminal, Usable
  <2>9. QED
    BY <1>1, <2>4, <2>6, <2>8 DEF ParentInv, Sides, Awaits, Waits, NoOp
<1>4. ASSUME op = NoOp, UNCHANGED <<adapter, ledger, op, responses, worker, toChild, toParent>>,
             reader' = reader, stopping' = stopping \/ adapter # "STOPPED"
      PROVE  ParentInv'
  BY <1>4 DEF ParentInv, Sides, Awaits, Waits, Own, Mine, Usable
<1>5. CASE AbortReturns BY <1>4, <1>5 DEF AbortReturns
<1>6. CASE ForceAbort BY <1>6, Destroyed DEF ForceAbort, Destroy
<1>7. CASE AuthorizeRecovery BY <1>4, <1>7 DEF AuthorizeRecovery
<1>8. CASE RecoveryAuthorized
  <2>1. CASE Destroy BY <1>8, <2>1, Destroyed DEF RecoveryAuthorized, Destroy
  <2>2. CASE UNCHANGED <<adapter, destruction, reader>>
    BY <1>4, <1>8, <2>2 DEF RecoveryAuthorized
  <2>3. QED BY <1>8, <2>1, <2>2 DEF RecoveryAuthorized
<1>9. CASE Stop BY <1>4, <1>9 DEF Stop
<1>10. ASSUME adapter' = "STOPPED", Forgotten, op' = NoOp, stopping' = FALSE, reader' = FALSE,
              \A i \in 1 .. Len(responses) : ~Terminal(responses[i]) \/ op.phase # "wait",
              responses' = responses
       PROVE  ParentInv'
  <2>1. ledger'.state = "ENGINE_READY" BY <1>10 DEF Forgotten, FreshLedger
  <2>2. QED BY <1>10, <2>1 DEF ParentInv, Sides, Awaits, Waits, Own, Usable, NoOp
<1>11. CASE Shutdown
  <2>1. op = NoOp /\ reader' = FALSE /\ responses' = responses BY <1>11 DEF Shutdown
  <2>2. CASE adapter # "DESTROYED" /\ Live
    <3>1. op' = [NoOp EXCEPT !.kind = "STOP", !.phase = "stop"]
          /\ UNCHANGED <<adapter, ledger, stopping>>
      BY <1>11, <2>2 DEF Shutdown
    <3>2. op'.phase = "stop" BY <3>1 DEF NoOp
    <3>3. adapter # "STOPPED" BY <1>11 DEF Shutdown, ParentInv, Sides
    <3>4. ASSUME NEW i \in 1 .. Len(responses), Terminal(responses[i]) PROVE ~Usable
      BY <2>1, <3>4 DEF ParentInv, Own, Mine, NoOp
    <3>5. QED
      BY <1>1, <2>1, <3>1, <3>2, <3>3, <3>4
      DEF ParentInv, Sides, Awaits, Waits, Own, Terminal, Usable
  <2>3. CASE adapter # "DESTROYED" /\ ~Live
    <3>1. Destroy /\ Fail("STOP") /\ UNCHANGED ledger BY <1>11, <2>3 DEF Shutdown
    <3>2. QED BY <1>1, <1>2, <3>1, Failed DEF Destroy
  <2>4. CASE adapter = "DESTROYED"
    <3>1. adapter' = "STOPPED" /\ Forgotten /\ stopping' = FALSE /\ UNCHANGED op
      BY <1>11, <2>4 DEF Shutdown
    <3>2. op.phase # "wait" BY <2>1 DEF NoOp
    <3>3. QED BY <1>10, <2>1, <3>1, <3>2
  <2>5. QED BY <2>2, <2>3, <2>4
<1>12. CASE Stopped
  <2>1. op.phase = "stop" /\ UNCHANGED responses BY <1>12 DEF Stopped
  <2>2. CASE Destroy /\ Fail("STOP") /\ UNCHANGED ledger
    BY <1>1, <1>2, <2>2, Failed DEF Destroy
  <2>3. CASE adapter' = "STOPPED" /\ Forgotten /\ op' = NoOp /\ stopping' = FALSE
             /\ UNCHANGED reader
    <3>1. ~reader BY <2>1 DEF ParentInv, Sides
    <3>2. reader \in BOOLEAN BY DEF Shape
    <3>3. reader' = FALSE BY <2>3, <3>1, <3>2
    <3>4. QED BY <1>10, <2>1, <2>3, <3>3
  <2>4. QED BY <1>12, <2>2, <2>3 DEF Stopped
<1>13. CASE StopExpires
  BY <1>1, <1>2, <1>13, Failed DEF StopExpires, Destroy
<1>14. QED
  BY <1>3, <1>5, <1>6, <1>7, <1>8, <1>9, <1>11, <1>12, <1>13 DEF Control

(* And so does the child.                                                  *)
LEMMA ParentChild ==
    ASSUME Shape, ParentInv, Child
    PROVE  ParentInv'
<1>1. UNCHANGED <<adapter, ledger, op, responses, reader, stopping>>
  BY DEF parent, Child, Boot, Announce, Crash, Command, ShutdownChild, CacheRead, Native, Emit,
         NativeEnds, Relay, Cancel, End
<1>2. worker \in Workers /\ toParent \in Seq(Replies) BY DEF Shape
<1>3. Waits' /\ Own' BY <1>1 DEF ParentInv, Waits, Own, Mine, Usable
<1>4. SUFFICES (worker'.status = "starting" => worker.status = "starting") /\ Awaits'
  BY <1>1, <1>3 DEF ParentInv, Sides
<1>5. ASSUME worker'.status = "exited", worker'.ledger = worker.ledger,
             toChild' = toChild \/ toChild # <<>>
      PROVE  Awaits'
  BY <1>1, <1>5 DEF ParentInv, Awaits
<1>6. ASSUME worker.status = "busy" PROVE Awaits'
  BY <1>1, <1>6 DEF ParentInv, Awaits
<1>7. CASE Boot
  <2>1. CASE worker' = [worker EXCEPT !.stage = @ + 1]
    <3>1. worker'.status = worker.status /\ worker'.ledger = worker.ledger
          /\ UNCHANGED <<toChild, toParent>>
      BY <1>2, <1>7, <2>1 DEF Boot, Workers
    <3>2. QED BY <1>1, <3>1 DEF ParentInv, Awaits
  <2>2. CASE Exit
    <3>1. worker'.status = "exited" /\ worker'.ledger = worker.ledger
          /\ UNCHANGED <<toChild, toParent>>
      BY <1>2, <1>7, <2>2 DEF Boot, Exit, Workers
    <3>2. QED BY <1>5, <3>1
  <2>3. QED BY <1>7, <2>1, <2>2 DEF Boot
<1>8. CASE Announce
  <2>1. worker'.status = "idle" /\ worker'.ledger = worker.ledger /\ worker.status = "starting"
        /\ UNCHANGED toChild
    BY <1>2, <1>8 DEF Announce, Workers
  <2> DEFINE e == Reply("READY", 0, 0, 0, 0, TRUE)
  <2>2. toParent' = Append(toParent, e) BY <1>8 DEF Announce, Write
  <2> HIDE DEF e
  <2>3. op.phase = "ready" => toParent = <<>> /\ toChild = <<>> /\ worker.ledger = FreshLedger
    BY <2>1 DEF ParentInv, Awaits
  <2>4. toParent = <<>> => Len(toParent') = 1 BY <2>2
  <2>5. QED BY <1>1, <2>1, <2>3, <2>4 DEF Awaits
<1>9. CASE Crash
  <2>1. worker'.status = "exited" /\ worker'.ledger = worker.ledger /\ UNCHANGED toChild
    BY <1>2, <1>9 DEF Crash, Exit, Workers
  <2>2. QED BY <1>5, <2>1
<1>10. CASE Command
  <2>1. toChild # <<>> BY <1>10 DEF Command
  <2>2. op'.phase # "ready" BY <1>1, <2>1 DEF ParentInv, Awaits
  <2>3. worker'.status \in {"busy", "exited"} BY <1>2, <1>10 DEF Command, Exit, Workers
  <2>4. QED BY <2>2, <2>3 DEF Awaits
<1>11. CASE ShutdownChild
  <2>1. worker'.status = "exited" /\ worker'.ledger = worker.ledger /\ toChild # <<>>
    BY <1>2, <1>11 DEF ShutdownChild, Workers
  <2>2. QED BY <1>5, <2>1
<1>12. CASE CacheRead
  <2>1. worker'.status = worker.status /\ worker'.ledger = worker.ledger
        /\ UNCHANGED <<toChild, toParent>>
    BY <1>2, <1>12 DEF CacheRead, Workers
  <2>2. QED BY <1>1, <2>1 DEF ParentInv, Awaits
<1>13. CASE Native \/ Emit \/ NativeEnds \/ Relay \/ Cancel
  <2>1. worker.status = "busy" BY <1>13 DEF Native, Emit, NativeEnds, Relay, Cancel
  <2>2. worker'.status \in {"busy", "exited"}
    BY ZenonT(60), <1>2, <1>13, <2>1
    DEF Native, Emit, NativeEnds, NativeDone, Relay, Cancel, Exit, Workers
  <2>3. QED BY <1>6, <2>1, <2>2
<1>14. CASE End
  <2>1. worker.status = "busy" BY <1>14 DEF End
  <2>2. worker'.status \in {"idle", "exited"}
    BY ZenonT(60), <1>2, <1>14 DEF End, Answer, Cancelled, Exit, Workers
  <2>3. QED BY <1>6, <2>1, <2>2
<1>15. QED
  BY <1>7, <1>8, <1>9, <1>10, <1>11, <1>12, <1>13, <1>14 DEF Child

(* No step makes an answer reach another request.                          *)
LEMMA ParentStep == Shape /\ ParentInv /\ [Next]_vars => ParentInv'
<1>1. SUFFICES ASSUME Shape, ParentInv, [Next]_vars PROVE ParentInv' OBVIOUS
<1>2. CASE UNCHANGED vars
  BY <1>1, <1>2 DEF vars, parent, ParentInv, Sides, Awaits, Waits, Own, Mine, Usable
<1>3. QED
  BY <1>1, <1>2, ParentLifecycle, ParentRequests, ParentResponses, ParentControl, ParentChild
  DEF Next

(***************************************************************************)
(* The two ledgers stay one replay apart.                                  *)
(***************************************************************************)
(* Who is not alone with its ledger need not be looked at.                 *)
LEMMA Apart ==
    ASSUME ~reader' \/ worker'.status = "exited"
    PROVE  Together'
BY DEF Together, Live

(* A step that touches neither ledger nor pipe changes nothing.            *)
LEMMA Untouched ==
    ASSUME Together, reader' => reader, UNCHANGED <<ledger, toChild, toParent>>,
           worker'.status = worker.status, worker'.ledger = worker.ledger
    PROVE  Together'
BY DEF Together, Linked, Live, Doomed, Replays, Follows

(* An open request is a request.                                           *)
LEMMA BusyHasRequest ==
    ASSUME WorkerInv, worker.status = "busy"
    PROVE  worker.ledger.active # NoRequest
BY DEF WorkerInv, Working, NoRequest, Ops

(* The READY finds both ledgers fresh.                                     *)
LEMMA ReadyTogether ==
    ASSUME Shape, ParentInv, op.phase = "ready", toParent # <<>>, ledger' = FreshLedger,
           toParent' = Tail(toParent), UNCHANGED <<worker, toChild>>
    PROVE  Together'
<1>1. CASE worker.status = "exited" BY <1>1, Apart
<1>2. CASE worker.status # "exited"
  <2>1. worker.status = "idle" /\ Len(toParent) = 1 /\ toChild = <<>>
        /\ worker.ledger = FreshLedger
    BY <1>2 DEF ParentInv, Awaits
  <2>2. toParent \in Seq(Replies) BY DEF Shape
  <2>3. Len(toParent') = 0 BY <2>1, <2>2
  <2> DEFINE ls == [i \in 0 .. 0 |-> FreshLedger]
  <2>10. FreshLedger \in Ledgers BY FreshIsALedger
  <2>11. ls \in [0 .. 0 -> Ledgers] BY <2>10
  <2>5. ls[0] = FreshLedger OBVIOUS
  <2> HIDE DEF ls
  <2>4. ls \in [0 .. Len(toParent') -> Ledgers] BY <2>3, <2>11, Zenon
  <2>12. ls[Len(toParent')] = worker'.ledger BY <2>1, <2>3, <2>5
  <2>14. 1 .. 0 = {} OBVIOUS
  <2>13. 1 .. Len(toParent') = {} BY <2>3, <2>14, Zenon
  <2>6. Replays(ls)' BY <2>12, <2>13, Zenon DEF Replays
  <2>7. Follows(ls[0])' BY <2>1, <2>5 DEF Follows
  <2>8. Linked' BY <2>4, <2>6, <2>7 DEF Linked
  <2>9. QED BY <2>8 DEF Together
<1>3. QED BY <1>1, <1>2

(* A request finds both ledgers the same, and the child idle.              *)
LEMMA RequestTogether ==
    ASSUME Shape, ParentInv, WorkerInv, Together, reader, Live, ledger.active = NoRequest,
           NEW frame \in Frames, frame.op \in Ops, ledger' = Commanded(ledger, frame),
           toChild' = Append(toChild, frame), UNCHANGED <<worker, toParent>>
    PROVE  Together'
<1>1. toChild \in Seq(Frames) /\ toParent \in Seq(Replies) /\ worker \in Workers
  BY DEF Shape
<1>2. CASE Doomed
  <2>1. toChild' # <<>> /\ Head(toChild') = Head(toChild) BY <1>1, <1>2 DEF Doomed
  <2>2. QED BY <1>2, <2>1 DEF Together, Doomed
<1>3. CASE Linked
  <2>1. PICK ls \in [0 .. Len(toParent) -> Ledgers] : Replays(ls) /\ Follows(ls[0])
    BY <1>3 DEF Linked
  <2>2. Len(toParent) \in Nat BY <1>1
  <2>3. ls[0] \in Ledgers BY <2>1, <2>2
  <2>4. ASSUME Len(toParent) # 0 PROVE ls[0].active # NoRequest
    <3>1. 1 \in 1 .. Len(toParent) BY <2>2, <2>4
    <3>2. ls[1 - 1].active # NoRequest BY <2>1, <3>1 DEF Replays
    <3>3. QED BY <3>2
  <2>5. worker.status \in {"idle", "busy"}
    BY <1>1 DEF ParentInv, Sides, Live, Workers
  <2>6. ASSUME ls[0].active = NoRequest
        PROVE  Len(toParent) = 0 /\ ls[0] = worker.ledger /\ worker.status = "idle"
    <3>1. Len(toParent) = 0 BY <2>4, <2>6
    <3>2. ls[0] = worker.ledger BY <2>1, <3>1 DEF Replays
    <3>3. QED BY <2>5, <2>6, <3>1, <3>2, BusyHasRequest
  <2>7. toChild = <<>> /\ ledger = ls[0]
    <3>1. CASE toChild = <<>> /\ ledger = ls[0] BY <3>1
    <3>2. CASE worker.status = "busy" /\ ledger = Cancelling(ls[0])
      <4>1. ls[0].active = NoRequest BY <2>3, <3>2, CancelShape
      <4>2. QED BY <2>6, <3>2, <4>1
    <3>3. CASE /\ toChild # <<>> /\ toChild[1].op \in Ops
               /\ \/ ledger = Commanded(ls[0], toChild[1])
                  \/ ledger = Cancelling(Commanded(ls[0], toChild[1]))
      <4>1. toChild[1] \in Frames BY <1>1, <3>3
      <4>2. /\ Commanded(ls[0], toChild[1]) \in Ledgers
            /\ Commanded(ls[0], toChild[1]).active.op \in Ops
        <5>1. Commanded(ls[0], toChild[1]) \in Ledgers
              /\ Commanded(ls[0], toChild[1]).active
                   = [op |-> toChild[1].op, generation |-> toChild[1].generation,
                      ticket |-> toChild[1].ticket]
          BY <2>3, <3>3, <4>1, RequestShape
        <5>2. QED BY <3>3, <5>1
      <4>3. ledger.active.op \in Ops BY <3>3, <4>2, CancelShape
      <4>4. QED BY <4>3 DEF NoRequest, Ops
    <3>4. QED BY <2>1, <3>1, <3>2, <3>3 DEF Follows
  <2>8. Len(toParent) = 0 /\ ls[0] = worker.ledger /\ worker.status = "idle"
    BY <2>6, <2>7
  <2>9. Len(toChild') = 1 /\ toChild'[1] = frame /\ toChild' # <<>> BY <1>1, <2>7
  <2>10. toParent = <<>> BY <1>1, <2>8
  <2>11. Follows(ls[0])' BY <2>7, <2>8, <2>9, <2>10 DEF Follows
  <2>12. Replays(ls)' BY <2>1 DEF Replays
  <2>13. Linked' BY <2>1, <2>11, <2>12 DEF Linked
  <2>14. QED BY <2>13 DEF Together
<1>4. QED BY <1>2, <1>3 DEF Together

(* A CANCEL follows the request, or crosses its answer.                    *)
LEMMA CancelTogether ==
    ASSUME Shape, ParentInv, Together, reader, Live, ~ledger.cancelled,
           NEW frame \in Frames, frame.op = "CANCEL", ledger' = Cancelling(ledger),
           toChild' = Append(toChild, frame), UNCHANGED <<worker, toParent>>
    PROVE  Together'
<1>1. toChild \in Seq(Frames) /\ toParent \in Seq(Replies) /\ worker \in Workers
  BY DEF Shape
<1>2. CASE Doomed
  <2>1. toChild' # <<>> /\ Head(toChild') = Head(toChild) BY <1>1, <1>2 DEF Doomed
  <2>2. QED BY <1>2, <2>1 DEF Together, Doomed
<1>3. CASE Linked
  <2>1. PICK ls \in [0 .. Len(toParent) -> Ledgers] : Replays(ls) /\ Follows(ls[0])
    BY <1>3 DEF Linked
  <2>2. Len(toParent) \in Nat BY <1>1
  <2>3. ls[0] \in Ledgers BY <2>1, <2>2
  <2>4. worker.status \in {"idle", "busy"}
    BY <1>1 DEF ParentInv, Sides, Live, Workers
  <2>5. CASE toChild = <<>> /\ ledger = ls[0]
    <3>1. Len(toChild') = 1 /\ toChild'[1] = frame /\ toChild' # <<>>
          /\ Head(toChild') = frame
      BY <1>1, <2>5
    <3>2. CASE worker.status = "idle" BY <3>1, <3>2 DEF Together, Doomed
    <3>3. CASE worker.status = "busy"
      <4>1. Follows(ls[0])' BY <2>5, <3>1, <3>3 DEF Follows
      <4>2. Replays(ls)' BY <2>1 DEF Replays
      <4>3. Linked' BY <2>1, <4>1, <4>2 DEF Linked
      <4>4. QED BY <4>3 DEF Together
    <3>4. QED BY <2>4, <3>2, <3>3
  <2>6. CASE ledger = Cancelling(ls[0]) BY <2>3, <2>6, CancelShape
  <2>7. CASE /\ worker.status = "idle" /\ toParent = <<>> /\ toChild # <<>>
             /\ toChild[1].op \in Ops
             /\ Len(toChild) = 1 /\ ledger = Commanded(ls[0], toChild[1])
    <3>1. Len(toChild') = 2 /\ toChild'[2] = frame /\ toChild'[1] = toChild[1]
          /\ toChild' # <<>>
      <4>1. Len(toChild) = 1 BY <2>7
      <4>2. Len(toChild') = 2 /\ toChild'[2] = frame /\ toChild'[1] = toChild[1]
        <5>1. Len(toChild') = Len(toChild) + 1 /\ toChild'[Len(toChild) + 1] = frame
              /\ \A i \in 1 .. Len(toChild) : toChild'[i] = toChild[i]
          BY <1>1
        <5>2. 1 \in 1 .. Len(toChild) /\ Len(toChild) + 1 = 2 BY <4>1
        <5>3. QED BY <5>1, <5>2
      <4>3. toChild' # <<>> BY <4>2
      <4>4. QED BY <4>2, <4>3
    <3>2. Follows(ls[0])' BY <2>7, <3>1 DEF Follows
    <3>3. Replays(ls)' BY <2>1 DEF Replays
    <3>4. Linked' BY <2>1, <3>2, <3>3 DEF Linked
    <3>5. QED BY <3>4 DEF Together
  <2>8. CASE /\ toChild # <<>> /\ toChild[1].op \in Ops
             /\ ledger = Cancelling(Commanded(ls[0], toChild[1]))
    <3>1. toChild[1] \in Frames BY <1>1, <2>8
    <3>2. Commanded(ls[0], toChild[1]) \in Ledgers BY <2>3, <2>8, <3>1, RequestShape
    <3>3. QED BY <2>8, <3>2, CancelShape
  <2>9. QED BY <2>1, <2>5, <2>6, <2>7, <2>8 DEF Follows
<1>4. QED BY <1>2, <1>3 DEF Together

(* The parent hears of an event: one step less between them.               *)
LEMMA ReceiveTogether ==
    ASSUME Shape, Together, reader, Live, toParent # <<>>,
           ledger' = Told(ledger, Head(toParent)), toParent' = Tail(toParent),
           UNCHANGED <<worker, toChild>>
    PROVE  Together'
<1>1. toParent \in Seq(Replies) BY DEF Shape
<1>2. CASE Doomed BY <1>2 DEF Together, Doomed
<1>3. CASE Linked
  <2>1. PICK ls \in [0 .. Len(toParent) -> Ledgers] : Replays(ls) /\ Follows(ls[0])
    BY <1>3 DEF Linked
  <2> DEFINE n == Len(toParent)
             ms == [i \in 0 .. n - 1 |-> ls[i + 1]]
  <2>2. /\ n \in Nat /\ n # 0 /\ Len(toParent') = n - 1 /\ Head(toParent) = toParent[1]
        /\ \A i \in 1 .. n - 1 : toParent'[i] = toParent[i + 1]
    BY <1>1
  <2>3. ls \in [0 .. n -> Ledgers] BY <2>1
  <2>4. /\ ls[n] = worker.ledger
        /\ \A i \in 1 .. n : ls[i - 1].active # NoRequest /\ ls[i] = Told(ls[i - 1], toParent[i])
    BY <2>1 DEF Replays
  <2>5. ls[0] \in Ledgers BY <2>2, <2>3
  <2>6. ls[1] = Told(ls[0], Head(toParent))
    <3>1. 1 \in 1 .. n BY <2>2
    <3>2. ls[1] = Told(ls[1 - 1], toParent[1]) BY <2>4, <3>1
    <3>3. QED BY <2>2, <3>2
  <2> HIDE DEF n
  <2>7. ms \in [0 .. n - 1 -> Ledgers] BY <2>2, <2>3
  <2>8. ms[n - 1] = worker.ledger BY <2>2, <2>4
  <2>9. ASSUME NEW i \in 1 .. n - 1
        PROVE  ms[i - 1].active # NoRequest /\ ms[i] = Told(ms[i - 1], toParent[i + 1])
    <3>1. i + 1 \in 1 .. n /\ i - 1 \in 0 .. n - 1 /\ i \in 0 .. n - 1
          /\ (i + 1) - 1 = i /\ (i - 1) + 1 = i
      BY <2>2
    <3>2. ls[i].active # NoRequest /\ ls[i + 1] = Told(ls[i], toParent[i + 1])
      <4>1. ls[(i + 1) - 1].active # NoRequest
            /\ ls[i + 1] = Told(ls[(i + 1) - 1], toParent[i + 1])
        BY <2>4, <3>1
      <4>2. QED BY <3>1, <4>1
    <3>3. ms[i] = ls[i + 1] BY <3>1
    <3>4. ms[i - 1] = ls[i]
      <4>1. ms[i - 1] = ls[(i - 1) + 1] BY <3>1
      <4>2. QED BY <3>1, <4>1
    <3>5. QED BY <3>2, <3>3, <3>4
  <2>10. ms[0] = ls[1] BY <2>2
  <2> HIDE DEF ms
  <2>15. PICK ks : ks = ms OBVIOUS
  <2>16. ks \in [0 .. Len(toParent') -> Ledgers] BY <2>2, <2>7, <2>15
  <2>11. Replays(ks)' BY <2>2, <2>8, <2>9, <2>15 DEF Replays
  <2>12. CASE toChild = <<>> /\ ledger = ls[0]
    <3>1. Follows(ks[0])' BY <2>6, <2>10, <2>12, <2>15 DEF Follows
    <3>2. Linked' BY <2>11, <2>16, <3>1 DEF Linked
    <3>3. QED BY <3>2 DEF Together
  <2>13. CASE worker.status = "busy" /\ Len(toChild) = 1 /\ toChild[1].op = "CANCEL"
              /\ ledger = Cancelling(ls[0])
    <3>1. ledger' = Cancelling(ls[1]) BY <2>5, <2>6, <2>13, CancelCommutes
    <3>2. Follows(ks[0])' BY <2>10, <2>13, <2>15, <3>1 DEF Follows
    <3>3. Linked' BY <2>11, <2>16, <3>2 DEF Linked
    <3>4. QED BY <3>3 DEF Together
  <2>14. QED BY <2>1, <2>12, <2>13 DEF Follows
<1>4. QED BY <1>2, <1>3 DEF Together

(* The child says something: one step more.                                *)
LEMMA EventTogether ==
    ASSUME Shape, WorkerInv, Together, reader, worker.status = "busy", NEW e \in Replies,
           worker'.ledger = Told(worker.ledger, e), worker'.ledger \in Ledgers,
           toParent' = Append(toParent, e), UNCHANGED <<ledger, toChild>>,
           worker'.status = "busy" \/ toChild = <<>>
    PROVE  Together'
<1>1. toParent \in Seq(Replies) BY DEF Shape
<1>2. Linked BY DEF Together, Live, Doomed
<1>3. PICK ls \in [0 .. Len(toParent) -> Ledgers] : Replays(ls) /\ Follows(ls[0])
  BY <1>2 DEF Linked
<1> DEFINE n == Len(toParent)
           ms == [i \in 0 .. n + 1 |-> IF i = n + 1 THEN worker'.ledger ELSE ls[i]]
<1>4. /\ n \in Nat /\ Len(toParent') = n + 1 /\ toParent'[n + 1] = e
      /\ \A i \in 1 .. n : toParent'[i] = toParent[i]
  BY <1>1
<1>5. ls \in [0 .. n -> Ledgers] BY <1>3
<1>6. /\ ls[n] = worker.ledger
      /\ \A i \in 1 .. n : ls[i - 1].active # NoRequest /\ ls[i] = Told(ls[i - 1], toParent[i])
  BY <1>3 DEF Replays
<1> HIDE DEF n
<1>7. ms \in [0 .. n + 1 -> Ledgers] BY <1>4, <1>5
<1>8. ms[n + 1] = worker'.ledger /\ ms[n] = ls[n] /\ ms[0] = ls[0] BY <1>4
<1>9. ASSUME NEW i \in 1 .. n + 1
      PROVE  ms[i - 1].active # NoRequest /\ ms[i] = Told(ms[i - 1], toParent'[i])
  <2>1. CASE i = n + 1
    <3>1. ms[i - 1] = worker.ledger /\ ms[i] = worker'.ledger
      <4>1. i - 1 = n BY <1>4, <2>1
      <4>2. QED BY <1>6, <1>8, <2>1, <4>1
    <3>2. QED BY <1>4, <2>1, <3>1, BusyHasRequest
  <2>2. CASE i # n + 1
    <3>1. i \in 1 .. n /\ i - 1 \in 0 .. n BY <1>4, <2>2
    <3>2. ms[i] = ls[i] /\ ms[i - 1] = ls[i - 1] BY <1>4, <2>2, <3>1
    <3>3. QED BY <1>4, <1>6, <3>1, <3>2
  <2>3. QED BY <2>1, <2>2
<1> HIDE DEF ms
<1>10. ASSUME NEW ks, ks = ms PROVE Replays(ks)' /\ Follows(ks[0])'
  <2>1. Replays(ks)' BY <1>4, <1>8, <1>9, <1>10 DEF Replays
  <2>2. ks[0] = ls[0] BY <1>8, <1>10
  <2>3. Follows(ls[0])
    BY <1>3
  <2>4. Follows(ks[0])' BY <2>2, <2>3 DEF Follows
  <2>5. QED BY <2>1, <2>4
<1>11. PICK ks : ks = ms OBVIOUS
<1>12. ks \in [0 .. Len(toParent') -> Ledgers] BY <1>4, <1>7, <1>11
<1>13. Linked' BY <1>10, <1>11, <1>12 DEF Linked
<1>14. QED BY <1>13 DEF Together

(* The child takes the CANCEL: as if it had been there from the start.     *)
LEMMA TakeCancelTogether ==
    ASSUME Shape, WorkerInv, Together, reader, worker.status = "busy", toChild # <<>>,
           NEW e \in Replies, worker'.ledger = Told(Cancelling(worker.ledger), e),
           worker'.ledger \in Ledgers, worker'.status = "busy",
           toParent' = Append(toParent, e), toChild' = Tail(toChild), UNCHANGED ledger
    PROVE  Together'
<1>1. toParent \in Seq(Replies) /\ toChild \in Seq(Frames) BY DEF Shape
<1>2. Linked BY DEF Together, Live, Doomed
<1>3. PICK ls \in [0 .. Len(toParent) -> Ledgers] : Replays(ls) /\ Follows(ls[0])
  BY <1>2 DEF Linked
<1> DEFINE n == Len(toParent)
           ms == [i \in 0 .. n + 1 |-> IF i = n + 1 THEN worker'.ledger ELSE Cancelling(ls[i])]
<1>4. /\ n \in Nat /\ Len(toParent') = n + 1 /\ toParent'[n + 1] = e
      /\ \A i \in 1 .. n : toParent'[i] = toParent[i]
  BY <1>1
<1>5. ls \in [0 .. n -> Ledgers] BY <1>3
<1>6. /\ ls[n] = worker.ledger
      /\ \A i \in 1 .. n : ls[i - 1].active # NoRequest /\ ls[i] = Told(ls[i - 1], toParent[i])
  BY <1>3 DEF Replays
<1>15. Len(toChild) = 1 /\ ledger = Cancelling(ls[0]) BY <1>3 DEF Follows
<1> HIDE DEF n
<1>16. \A i \in 0 .. n : ls[i] \in Ledgers /\ Cancelling(ls[i]) \in Ledgers
                         /\ Cancelling(ls[i]).active = ls[i].active
  BY <1>5, CancelShape
<1>7. ms \in [0 .. n + 1 -> Ledgers] BY <1>4, <1>16
<1>8. ms[n + 1] = worker'.ledger /\ ms[n] = Cancelling(ls[n]) /\ ms[0] = Cancelling(ls[0])
  BY <1>4
<1>9. ASSUME NEW i \in 1 .. n + 1
      PROVE  ms[i - 1].active # NoRequest /\ ms[i] = Told(ms[i - 1], toParent'[i])
  <2>1. CASE i = n + 1
    <3>1. ms[i - 1] = Cancelling(worker.ledger) /\ ms[i] = worker'.ledger
      <4>1. i - 1 = n BY <1>4, <2>1
      <4>2. QED BY <1>6, <1>8, <2>1, <4>1
    <3>2. n \in 0 .. n BY <1>4
    <3>3. QED BY <1>4, <1>6, <1>16, <2>1, <3>1, <3>2, BusyHasRequest
  <2>2. CASE i # n + 1
    <3>1. i \in 1 .. n /\ i - 1 \in 0 .. n /\ i \in 0 .. n BY <1>4, <2>2
    <3>2. ms[i] = Cancelling(ls[i]) /\ ms[i - 1] = Cancelling(ls[i - 1])
      BY <1>4, <2>2, <3>1
    <3>3. ls[i - 1].active # NoRequest /\ ls[i] = Told(ls[i - 1], toParent[i])
          /\ toParent'[i] = toParent[i]
      BY <1>4, <1>6, <3>1
    <3>4. Cancelling(Told(ls[i - 1], toParent[i])) = Told(Cancelling(ls[i - 1]), toParent[i])
      BY <1>16, <3>1, CancelCommutes
    <3>5. QED BY <1>16, <3>1, <3>2, <3>3, <3>4
  <2>3. QED BY <2>1, <2>2
<1> HIDE DEF ms
<1>17. toChild' = <<>>
  <2>1. Len(toChild') = 0 /\ toChild' \in Seq(Frames) BY <1>1, <1>15
  <2>2. QED BY <2>1
<1>10. ASSUME NEW ks, ks = ms PROVE Replays(ks)' /\ Follows(ks[0])'
  <2>1. Replays(ks)' BY <1>4, <1>8, <1>9, <1>10 DEF Replays
  <2>2. ks[0] = ledger BY <1>8, <1>10, <1>15
  <2>3. Follows(ks[0])' BY <1>17, <2>2 DEF Follows
  <2>4. QED BY <2>1, <2>3
<1>11. PICK ks : ks = ms OBVIOUS
<1>12. ks \in [0 .. Len(toParent') -> Ledgers] BY <1>4, <1>7, <1>11
<1>13. Linked' BY <1>10, <1>11, <1>12 DEF Linked
<1>14. QED BY <1>13 DEF Together

(* No step parts the ledgers for good.                                     *)
LEMMA TogetherStep ==
    Shape /\ ParentInv /\ WorkerInv /\ Together /\ [Next]_vars => Together'
<1>1. SUFFICES ASSUME Shape, ParentInv, WorkerInv, Together, [Next]_vars PROVE Together'
  OBVIOUS
<1>2. worker \in Workers /\ ledger \in Ledgers /\ worker.ledger \in Ledgers
  BY <1>1 DEF Shape, Workers
<1>3. CASE UNCHANGED vars BY <1>1, <1>3, Untouched DEF vars, parent
<1>4. ASSUME Destroy PROVE Together' BY <1>4, Apart DEF Destroy
<1>5. CASE Lifecycle
  <2>1. CASE Start
    <3>1. ~reader /\ reader' = reader BY <1>1, <2>1 DEF Start, ParentInv, Sides
    <3>2. QED BY <3>1, Apart
  <2>2. CASE Rebuild BY <1>4, <2>2 DEF Rebuild
  <2>3. CASE Replace
    <3>1. op.phase = "destroy" /\ reader' = reader BY <2>3 DEF Replace
    <3>2. ~reader BY <1>1, <3>1 DEF ParentInv, Sides
    <3>3. QED BY <3>1, <3>2, Apart
  <2>4. CASE Ready
    <3>1. CASE Destroy BY <1>4, <3>1
    <3>2. CASE ~Destroy
      <4>1. op.phase = "ready" /\ toParent # <<>> /\ ledger' = FreshLedger
            /\ toParent' = Tail(toParent) /\ UNCHANGED <<worker, toChild>>
        BY <2>4, <3>2 DEF Ready
      <4>2. QED BY <1>1, <4>1, ReadyTogether
    <3>3. QED BY <3>1, <3>2
  <2>5. CASE StartFails BY <1>4, <2>5 DEF StartFails
  <2>6. CASE DestroyEnds
    <3>1. worker'.status = "exited" BY <1>2, <2>6 DEF DestroyEnds, Workers
    <3>2. QED BY <3>1, Apart
  <2>7. CASE DestroyFails \/ Raise
    BY <1>1, <2>7, Untouched DEF DestroyFails, Raise
  <2>8. QED
    BY <1>5, <2>1, <2>2, <2>3, <2>4, <2>5, <2>6, <2>7 DEF Lifecycle
<1>6. ASSUME NEW kind \in Ops, NEW gen \in Generations, Request(kind, gen),
             UNCHANGED <<worker, toParent>>
      PROVE  Together'
  <2> DEFINE ticket == IF kind \in {"GENERATE", "DISCARD_TICKET"} THEN ledger.ticket ELSE 0
             frame == Frame(kind, ledger.counter + 1, gen, ticket)
  <2>1. ticket \in Nat /\ ledger.counter + 1 \in Nat BY <1>2 DEF Ledgers
  <2>2. frame \in Frames /\ frame.op = kind BY <2>1 DEF Frame, Frames
  <2>3. ledger' = Commanded(ledger, frame) BY <1>6 DEF Request
  <2>4. AcceptsCommand(ledger, frame) BY <1>6 DEF Request
  <2>5. ledger.active = NoRequest BY <2>2, <2>4 DEF AcceptsCommand, Ops
  <2>6. CASE Live
    <3>1. toChild' = Append(toChild, frame) /\ reader' = reader
      BY <1>6, <2>6 DEF Request, Send
    <3> HIDE DEF frame
    <3>2. CASE reader
      BY <1>1, <1>6, <2>2, <2>3, <2>5, <2>6, <3>1, <3>2, RequestTogether
    <3>3. CASE ~reader BY <3>1, <3>3, Apart
    <3>4. QED BY <3>2, <3>3
  <2>7. CASE ~Live BY <1>4, <1>6, <2>7 DEF Request
  <2>8. QED BY <2>6, <2>7
<1>7. CASE Requests
  <2>1. ledger.claim \in Generations BY <1>2 DEF Ledgers
  <2>2. CASE OpenConversation
    <3>1. generation + 1 \in Generations
      BY <1>1, <2>2, Bounds DEF OpenConversation, Shape, Generations
    <3>2. Request("OPEN", generation + 1) \/ Destroy
      BY <2>2 DEF OpenConversation, SampleFails
    <3>3. UNCHANGED <<worker, toParent>> BY <2>2 DEF OpenConversation
    <3>4. QED BY <1>4, <1>6, <3>1, <3>2, <3>3 DEF Ops
  <2>3. CASE \E kind \in {"MEASURE", "GENERATE", "DISCARD_TICKET"} : Turn(kind)
    BY <1>6, <2>1, <2>3 DEF Turn, Ops
  <2>4. CASE Refused
    <3>1. CASE Destroy BY <1>4, <3>1
    <3>2. CASE ~Destroy BY <1>1, <2>4, <3>2, Untouched DEF Refused
    <3>3. QED BY <3>1, <3>2
  <2>5. CASE CloseConversation BY <1>6, <2>1, <2>5 DEF CloseConversation, Ops
  <2>6. QED BY <1>7, <2>2, <2>3, <2>4, <2>5 DEF Requests
<1>8. ASSUME Live, ~ledger.cancelled, UNCHANGED <<worker, toParent>>, reader' = reader,
             ledger' = Commanded(ledger, Frame("CANCEL", ledger.counter, 0, 0)),
             toChild' = Append(toChild, Frame("CANCEL", ledger.counter, 0, 0))
      PROVE  Together'
  <2> DEFINE frame == Frame("CANCEL", ledger.counter, 0, 0)
  <2>1. ledger.counter \in Nat BY <1>2 DEF Ledgers
  <2>2. frame \in Frames /\ frame.op = "CANCEL" BY <2>1, Values DEF Frame, Frames
  <2>3. ledger' = Cancelling(ledger) BY <1>8, <2>2, CancelCommand
  <2>4. toChild' = Append(toChild, frame) BY <1>8
  <2> HIDE DEF frame
  <2>5. CASE reader BY <1>1, <1>8, <2>2, <2>3, <2>4, <2>5, CancelTogether
  <2>6. CASE ~reader BY <1>8, <2>6, Apart
  <2>7. QED BY <2>5, <2>6
<1>9. CASE Responses
  <2>1. CASE Receive
    <3>1. CASE AcceptsEvent(ledger, Head(toParent))
      <4>1. reader /\ toParent # <<>> /\ ledger' = Told(ledger, Head(toParent))
            /\ toParent' = Tail(toParent) /\ UNCHANGED <<worker, toChild>>
        BY <2>1, <3>1 DEF Receive
      <4>2. CASE Live BY <1>1, <4>1, <4>2, ReceiveTogether
      <4>3. CASE ~Live BY <4>1, <4>3, Apart DEF Live
      <4>4. QED BY <4>2, <4>3
    <3>2. CASE ~AcceptsEvent(ledger, Head(toParent)) BY <1>4, <2>1, <3>2 DEF Receive
    <3>3. QED BY <3>1, <3>2
  <2>2. CASE EndOfFile BY <1>4, <2>2 DEF EndOfFile
  <2>3. CASE TakeFragment \/ TakeTerminal
    <3>1. CASE Destroy BY <1>4, <3>1
    <3>2. CASE ~Destroy
      BY <1>1, <2>3, <3>2, Untouched DEF TakeFragment, TakeTerminal, SampleFails
    <3>3. QED BY <3>1, <3>2
  <2>4. CASE TakeFailure \/ GraceEnds \/ TaskCancelled
    BY <1>4, <2>4 DEF TakeFailure, GraceEnds, TaskCancelled
  <2>5. CASE Deadline
    <3>1. CASE Destroy BY <1>4, <3>1
    <3>2. CASE ledger.active # NoRequest /\ ~ledger.cancelled /\ ~Destroy
      <4>1. op.kind # "DISCARD_TICKET" /\ Live BY <2>5, <3>2 DEF Deadline
      <4>2. /\ ledger' = Commanded(ledger, Frame("CANCEL", ledger.counter, 0, 0))
            /\ toChild' = Append(toChild, Frame("CANCEL", ledger.counter, 0, 0))
            /\ reader' = reader /\ UNCHANGED <<worker, toParent>>
        BY <2>5, <3>2, <4>1 DEF Deadline, Send
      <4>3. QED BY <1>8, <3>2, <4>1, <4>2
    <3>3. CASE ~(ledger.active # NoRequest /\ ~ledger.cancelled) /\ ~Destroy
      BY <1>1, <2>5, <3>3, Untouched DEF Deadline
    <3>4. QED BY <3>1, <3>2, <3>3
  <2>6. QED
    BY <1>9, <2>1, <2>2, <2>3, <2>4, <2>5 DEF Responses
<1>10. CASE Control
  <2>1. CASE Abort
    <3>1. CASE UNCHANGED <<ledger, toChild>> BY <1>1, <2>1, <3>1, Untouched DEF Abort
    <3>2. CASE ~UNCHANGED <<ledger, toChild>>
      <4>1. /\ Live /\ ~ledger.cancelled
            /\ ledger' = Commanded(ledger, Frame("CANCEL", ledger.counter, 0, 0))
            /\ toChild' = Append(toChild, Frame("CANCEL", ledger.counter, 0, 0))
            /\ reader' = reader /\ UNCHANGED <<worker, toParent>>
        BY <2>1, <3>2 DEF Abort, Send
      <4>2. QED BY <1>8, <4>1
    <3>3. QED BY <3>1, <3>2
  <2>2. CASE AbortReturns \/ AuthorizeRecovery \/ Stop
    BY <1>1, <2>2, Untouched DEF AbortReturns, AuthorizeRecovery, Stop
  <2>3. CASE ForceAbort \/ StopExpires BY <1>4, <2>3 DEF ForceAbort, StopExpires
  <2>4. CASE RecoveryAuthorized
    <3>1. CASE Destroy BY <1>4, <3>1
    <3>2. CASE ~Destroy BY <1>1, <2>4, <3>2, Untouched DEF RecoveryAuthorized
    <3>3. QED BY <3>1, <3>2
  <2>5. CASE Shutdown BY <2>5, Apart DEF Shutdown
  <2>6. CASE Stopped BY <2>6, Apart DEF Stopped, Live
  <2>7. QED BY <1>10, <2>1, <2>2, <2>3, <2>4, <2>5, <2>6 DEF Control
<1>11. CASE Child
  <2>1. reader' = reader /\ ledger' = ledger
    BY <1>11
    DEF parent, Child, Boot, Announce, Crash, Command, ShutdownChild, CacheRead, Native, Emit,
        NativeEnds, Relay, Cancel, End
  <2>2. ASSUME Exit PROVE Together'
    <3>1. worker'.status = "exited" BY <1>2, <2>2 DEF Exit, Workers
    <3>2. QED BY <3>1, Apart
  <2>3. CASE ~reader BY <2>1, <2>3, Apart
  <2>4. CASE reader
    <3>1. worker.status # "starting" BY <1>1, <2>4 DEF ParentInv, Sides
    <3>2. CASE Boot \/ Announce BY <3>1, <3>2 DEF Boot, Announce
    <3>3. CASE Crash BY <2>2, <3>3 DEF Crash
    <3>4. CASE Command
      <4> DEFINE frame == Head(toChild)
                 m == Commanded(worker.ledger, frame)
      <4>1. worker.status = "idle" /\ toChild # <<>> /\ toChild' = Tail(toChild)
            /\ toParent' = toParent
        BY <3>4 DEF Command
      <4>2. toChild \in Seq(Frames) /\ toParent \in Seq(Replies) BY <1>1 DEF Shape
      <4>3. frame \in Frames /\ frame = toChild[1] BY <4>1, <4>2
      <4>4. CASE ~(frame.op \in Ops /\ AcceptsCommand(worker.ledger, frame))
        BY <2>2, <3>4, <4>4 DEF Command
      <4>5. CASE frame.op \in Ops /\ AcceptsCommand(worker.ledger, frame)
        <5>1. worker' = [worker EXCEPT !.status = "busy", !.ledger = m, !.thread = "ready",
                                       !.outcome = "none", !.queue = 0, !.produced = 0,
                                       !.pending = FALSE, !.hit = FALSE]
          BY <3>4, <4>5 DEF Command
        <5>2. m \in Ledgers BY <1>2, <4>3, <4>5, RequestShape
        <5>3. ~Doomed BY <4>5 DEF Doomed, Ops
        <5>4. PICK ls \in [0 .. Len(toParent) -> Ledgers] : Replays(ls) /\ Follows(ls[0])
          BY <1>1, <2>4, <4>1, <5>3 DEF Together, Live, Linked
        <5>5. /\ toParent = <<>>
              /\ \/ Len(toChild) = 1 /\ ledger = Commanded(ls[0], toChild[1])
                 \/ /\ Len(toChild) = 2 /\ toChild[2].op = "CANCEL"
                    /\ ledger = Cancelling(Commanded(ls[0], toChild[1]))
          BY <4>1, <5>4 DEF Follows
        <5>6. Len(toParent) = 0 /\ ls[0] = worker.ledger
          <6>1. Len(toParent) = 0 BY <5>5
          <6>2. QED BY <5>4, <6>1 DEF Replays
        <5>7. m = Commanded(ls[0], toChild[1]) BY <4>3, <5>6
        <5> HIDE DEF m, frame
        <5>8. worker'.status = "busy" /\ worker'.ledger = m BY <1>2, <5>1 DEF Workers
        <5>9. PICK ks : ks = [i \in 0 .. 0 |-> worker'.ledger] OBVIOUS
        <5>10. ks \in [0 .. 0 -> Ledgers] /\ ks[0] = worker'.ledger BY <5>2, <5>8, <5>9
        <5>11. Len(toParent') = 0 BY <4>1, <5>6
        <5>12. Replays(ks)' BY <5>10, <5>11 DEF Replays
        <5>13. CASE Len(toChild) = 1 /\ ledger = Commanded(ls[0], toChild[1])
          <6>1. toChild' = <<>>
            <7>1. Len(toChild') = 0 /\ toChild' \in Seq(Frames) BY <4>1, <4>2, <5>13
            <7>2. QED BY <7>1
          <6>2. Follows(ks[0])' BY <2>1, <5>7, <5>8, <5>10, <5>13, <6>1 DEF Follows
          <6>3. Linked' BY <5>10, <5>11, <5>12, <6>2 DEF Linked
          <6>4. QED BY <6>3 DEF Together
        <5>14. CASE Len(toChild) = 2 /\ toChild[2].op = "CANCEL"
                    /\ ledger = Cancelling(Commanded(ls[0], toChild[1]))
          <6>1. Len(toChild') = 1 /\ toChild'[1] = toChild[2]
            <7>1. Len(toChild') = Len(toChild) - 1
                  /\ \A i \in 1 .. Len(toChild') : toChild'[i] = toChild[i + 1]
              BY <4>1, <4>2
            <7>2. QED BY <5>14, <7>1
          <6>2. Follows(ks[0])' BY <2>1, <5>7, <5>8, <5>10, <5>14, <6>1 DEF Follows
          <6>3. Linked' BY <5>10, <5>11, <5>12, <6>2 DEF Linked
          <6>4. QED BY <6>3 DEF Together
        <5>15. QED BY <5>5, <5>13, <5>14
      <4>6. QED BY <4>4, <4>5
    <3>5. CASE ShutdownChild
      <4>1. worker'.status = "exited" BY <1>2, <3>5 DEF ShutdownChild, Workers
      <4>2. QED BY <4>1, Apart
    <3>6. CASE CacheRead \/ Native \/ Emit \/ NativeEnds
      <4>1. worker'.status = worker.status /\ worker'.ledger = worker.ledger
        BY <1>2, <3>6 DEF CacheRead, Native, Emit, NativeEnds, NativeDone, Workers
      <4>2. UNCHANGED <<toChild, toParent>> BY <3>6 DEF CacheRead, Native, Emit, NativeEnds
      <4>3. QED BY <1>1, <2>1, <4>1, <4>2, Untouched
    <3>7. CASE Relay
      <4> DEFINE e == Reply("SAFE_TEXT", worker.ledger.counter, 0, worker.ledger.fragments, 0,
                            TRUE)
                 m == Told(worker.ledger, e)
      <4>1. e \in Replies /\ m \in Ledgers BY <1>2, WrittenShape, FragmentShape
      <4>2. /\ worker.status = "busy" /\ toParent' = Append(toParent, e) /\ UNCHANGED toChild
            /\ worker' = [worker EXCEPT !.queue = worker.queue - 1, !.ledger = m]
        BY <3>7 DEF Relay, Write
      <4>3. m = Told(worker.ledger, e) OBVIOUS
      <4> HIDE DEF e, m
      <4>4. worker'.status = "busy" /\ worker'.ledger = m BY <1>2, <4>2 DEF Workers
      <4>5. QED
        BY <1>1, <2>1, <2>4, <4>1, <4>2, <4>3, <4>4, EventTogether
    <3>8. CASE Cancel
      <4> DEFINE e == Reply("CANCEL_DEFERRED", worker.ledger.counter, 0, 0, 0, TRUE)
                 m == Told(Commanded(worker.ledger, Head(toChild)), e)
                 h == worker.ledger.active.op = "GENERATE" /\ worker.thread = "native"
      <4>1. CASE Head(toChild).op = "CANCEL" /\ AcceptsCommand(worker.ledger, Head(toChild))
        <5>1. e \in Replies /\ m \in Ledgers /\ m = Told(Cancelling(worker.ledger), e)
          BY <1>2, <4>1, WrittenShape, DeferredShape
        <5>2. /\ worker.status = "busy" /\ toChild # <<>> /\ toChild' = Tail(toChild)
              /\ worker' = [worker EXCEPT !.ledger = m, !.pending = TRUE, !.hit = h]
              /\ toParent' = Append(toParent, e)
          BY <3>8, <4>1 DEF Cancel, Write
        <5> HIDE DEF e, m, h
        <5>3. worker'.status = "busy" /\ worker'.ledger = m BY <1>2, <5>2 DEF Workers
        <5>4. QED BY <1>1, <2>1, <2>4, <5>1, <5>2, <5>3, TakeCancelTogether
      <4>2. CASE ~(Head(toChild).op = "CANCEL" /\ AcceptsCommand(worker.ledger, Head(toChild)))
        BY <2>2, <3>8, <4>2 DEF Cancel
      <4>3. QED BY <4>1, <4>2
    <3>9. CASE End
      <4>1. worker.status = "busy" /\ toChild = <<>> /\ UNCHANGED toChild
        BY <3>9 DEF End
      <4>2. worker.ledger.active.op \in Ops
            /\ (worker.ledger.cancelled => worker.ledger.active.op \in Cancellable)
        BY <1>1, <4>1 DEF WorkerInv, Working
      <4>3. CASE Answer
        <5> DEFINE e == AnswerTo(worker.ledger, worker.outcome)
                   m == Told(worker.ledger, e)
        <5>1. e \in Replies /\ e.event # "CANCELLED" BY <1>2, <4>2, AnswerShape
        <5>2. m \in Ledgers /\ m = Told(worker.ledger, e) BY <1>2, <5>1, ToldShape
        <5>3. \/ worker' = [worker EXCEPT !.status = "idle", !.thread = "none", !.ledger = m]
                 /\ toParent' = Append(toParent, e)
              \/ Exit
          BY <4>3 DEF Answer, Write
        <5> HIDE DEF e, m
        <5>4. CASE worker' = [worker EXCEPT !.status = "idle", !.thread = "none", !.ledger = m]
                   /\ toParent' = Append(toParent, e)
          <6>1. worker'.ledger = m BY <1>2, <5>4 DEF Workers
          <6>2. QED
            BY <1>1, <2>1, <2>4, <4>1, <5>1, <5>2, <5>4, <6>1, EventTogether
        <5>5. QED BY <2>2, <5>3, <5>4
      <4>4. ASSUME NEW cleaned \in BOOLEAN, Cancelled(cleaned) PROVE Together'
        <5> DEFINE operation == worker.ledger.active.op
                   proven == cleaned /\ worker.outcome # "failed" /\ operation # "CLOSE"
                   e == Reply("CANCELLED", worker.ledger.counter, 0, 0, 0, proven)
                   m == IF proven THEN Told(worker.ledger, e) ELSE worker.ledger
                   w == [worker EXCEPT
                           !.status = IF proven THEN "idle" ELSE "exited", !.thread = "none",
                           !.conversation = @ /\ operation # "OPEN",
                           !.scratch = @ /\ ~(operation = "MEASURE" /\ cleaned),
                           !.ledger = m]
        <5>1. e \in Replies /\ e.event = "CANCELLED" BY <1>2, WrittenShape DEF Reply
        <5>2. \/ worker' = w /\ toParent' = Append(toParent, e)
              \/ Exit
          BY <4>4 DEF Cancelled, Write
        <5>3. proven => operation \in DOMAIN AfterCancelled
          BY <4>2, <4>4 DEF Cancelled, Cancellable, AfterCancelled
        <5>4. proven => m \in Ledgers /\ m = Told(worker.ledger, e)
          BY <1>2, <5>1, <5>3, ToldShape
        <5>5. CASE worker' = w /\ toParent' = Append(toParent, e)
          <6>1. worker'.status = (IF proven THEN "idle" ELSE "exited") /\ worker'.ledger = m
            BY <1>2, <5>5 DEF Workers
          <6>2. CASE proven
            <7>1. worker'.ledger = Told(worker.ledger, e) /\ worker'.ledger \in Ledgers
              BY <5>4, <6>1, <6>2
            <7>2. toParent' = Append(toParent, e) BY <5>5
            <7> HIDE DEF e, m, w, proven, operation
            <7>3. QED
              BY <1>1, <2>1, <2>4, <4>1, <5>1, <7>1, <7>2, EventTogether
          <6>3. CASE ~proven BY <6>1, <6>3, Apart
          <6>4. QED BY <6>2, <6>3
        <5> HIDE DEF w, e
        <5>6. QED BY <2>2, <5>2, <5>5
      <4>5. QED BY <3>9, <4>3, <4>4 DEF End
    <3>10. QED
      BY <1>11, <3>2, <3>3, <3>4, <3>5, <3>6, <3>7, <3>8, <3>9 DEF Child
  <2>5. QED BY <2>3, <2>4
<1>12. QED BY <1>1, <1>3, <1>5, <1>7, <1>9, <1>10, <1>11 DEF Next

(***************************************************************************)
(* The theorems.                                                           *)
(***************************************************************************)
(* The invariant holds of the initial state.                               *)
LEMMA InitIInv == Init => IInv
<1>1. SUFFICES ASSUME Init PROVE IInv OBVIOUS
<1>2. /\ ledger = FreshLedger /\ op = NoOp /\ responses = <<>> /\ reader = FALSE
      /\ stopping = FALSE /\ worker = NoWorker /\ toChild = <<>>
  BY <1>1 DEF Init
<1>3. Len(responses) = 0 /\ Len(toChild) = 0 BY <1>2
<1>4. worker.status = "exited" /\ worker.ledger.claim = 0
  BY <1>2 DEF NoWorker, FreshLedger
<1>5. ParentInv
  BY <1>2, <1>3, <1>4 DEF ParentInv, Sides, Awaits, Waits, Own, NoOp, FreshLedger
<1>6. WorkerInv
  BY <1>4
  DEF WorkerInv, Working, Conversing, Scrubbed, CleanChild, ClaimIsNative, NoInputKept
<1>7. Together /\ Asked BY <1>2, <1>3 DEF Together, Asked
<1>8. QED BY <1>1, <1>5, <1>6, <1>7, InitShape DEF IInv

(* And of every state after it.                                            *)
LEMMA IInvStep == IInv /\ [Next]_vars => IInv'
<1>1. SUFFICES ASSUME IInv, [Next]_vars PROVE IInv' OBVIOUS
<1>2. Shape'
  <2>1. CASE UNCHANGED vars BY <1>1, <2>1 DEF IInv, Shape, vars, parent
  <2>2. QED
    BY <1>1, <2>1, LifecycleShape, RequestsShape, ResponsesShape, ControlShape, ChildShape
    DEF IInv, WorkerInv, Next
<1>3. QED
  BY <1>1, <1>2, ParentStep, TogetherStep, AskedStep, WorkerStep DEF IInv

(* Every reachable state has it.                                           *)
LEMMA Invariance == Spec => []IInv
<1>1. QED BY InitIInv, IInvStep, PTL DEF Spec

(* When nothing is in the pipes parent and child hold the same ledger,     *)
(* whatever was cancelled, refused or timed out on the way.                *)
THEOREM Agreement == Spec => []LedgersAgree
<1>1. IInv => LedgersAgree
  <2>1. SUFFICES ASSUME IInv PROVE LedgersAgree OBVIOUS
  <2>2. TypeOK BY <2>1 DEF IInv, Shape, TypeOK, Operations, Workers, Generations
  <2>3. ASSUME Quiet PROVE ledger = worker.ledger
    <3>1. ~Doomed /\ Live /\ reader /\ toChild = <<>> /\ toParent = <<>>
          /\ worker.status = "idle"
      BY <2>3 DEF Quiet, Doomed, Live
    <3>2. PICK ls \in [0 .. Len(toParent) -> Ledgers] : Replays(ls) /\ Follows(ls[0])
      BY <2>1, <3>1 DEF IInv, Together, Linked
    <3>3. Len(toParent) = 0 BY <3>1
    <3>4. ls[0] = worker.ledger BY <3>2, <3>3 DEF Replays
    <3>5. ledger = ls[0] BY <3>1, <3>2 DEF Follows
    <3>6. QED BY <3>4, <3>5
  <2>4. QED BY <2>2, <2>3 DEF LedgersAgree
<1>2. QED BY <1>1, Invariance, PTL

(* A terminal that waits to be taken is the answer to the operation that   *)
(* waits for it, as long as the engine can be used.                        *)
THEOREM AnswersAreOwned == Spec => []EachAnswersItsOwn
<1>1. IInv => EachAnswersItsOwn
  BY DEF IInv, ParentInv, Own, Mine, EachAnswersItsOwn
<1>2. QED BY <1>1, Invariance, PTL

(* An idle child has the conversation its ledger claims and no other, and  *)
(* no measured text its ledger does not hold a ticket for.                 *)
THEOREM ChildIsClean == Spec => []CleanChild
<1>1. IInv => CleanChild BY DEF IInv, WorkerInv
<1>2. QED BY <1>1, Invariance, PTL
=============================================================================
