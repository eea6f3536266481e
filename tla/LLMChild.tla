------------------------------ MODULE LLMChild ------------------------------
(***************************************************************************)
(* The LLM engine as the rest of the program uses it: the adapter          *)
(* (cognition/litert_lm/adapter.py), its child process                     *)
(* (cognition/litert_lm/worker.py) and the two pipes between them.  Parent *)
(* and child each keep a ledger of LLMProtocol.  The child runs one native *)
(* operation at a time in a thread, while its control loop goes on reading *)
(* commands; the parent reads events in a task of its own, hands them to   *)
(* the operation that waits, and destroys the process group when anything  *)
(* is out of order.  The measurement mode of the adapter and its fault     *)
(* injector are left out.                                                  *)
(***************************************************************************)
EXTENDS LLMProtocol, Sequences

CONSTANTS MaxGeneration,   \* bound: conversations ever opened
          MaxRequests,     \* bound: requests of one child
          MaxFragments,    \* bound: fragments of one answer
          QueueSize,       \* maxsize of the child's stream_queue
          MaxEpoch,        \* bound: children ever started
          MaxFaults        \* bound: things that go wrong

ASSUME LLMAssumption ==
    /\ {MaxGeneration, MaxRequests, MaxFragments, MaxFaults} \subseteq Nat
    /\ QueueSize \in Nat \ {0} /\ MaxEpoch \in Nat \ {0}

VARIABLES adapter,        \* LiteRTLMAdapter.state
          ledger,         \* the parent's _ledger
          op,             \* the operation that holds _operation_lock
          responses,      \* _responses
          reader,         \* whether _reader_task reads
          destruction,    \* _destruction_task
          recycle,        \* _pending: the generation that was refused memory
          proof,          \* _closed_proof: the generation it names
          authorization,  \* _authorization: the planned recovery
          aborting,       \* whether an abort() waits
          stopping,       \* stop() is under way
          generation,     \* the conversations the manager has asked for
          epoch,          \* _epoch
          worker,         \* the child process
          toChild,        \* its stdin
          toParent,       \* its stdout
          faults          \* things that went wrong so far

parent == <<adapter, ledger, op, responses, reader, destruction, recycle, proof,
            authorization, aborting, stopping, generation, epoch>>
vars == <<parent, worker, toChild, toParent, faults>>

AdapterStates == {"STOPPED", "STARTING", "ENGINE_READY", "CONVERSATION_READY",
                  "MEASURED", "TAINTED", "RECYCLE_PENDING", "RECOVERING", "DESTROYED"}
NoOp == [kind |-> "none", phase |-> "idle", expired |-> FALSE, atomic |-> FALSE]
Fatal == Reply("FATAL", 0, 0, 0, 0, FALSE)
NoWorker == [status |-> "exited", stage |-> 0, ledger |-> FreshLedger, thread |-> "none",
             outcome |-> "none", queue |-> 0, produced |-> 0, conversation |-> FALSE,
             scratch |-> FALSE, pending |-> FALSE, hit |-> FALSE, cache |-> "none"]

Init ==
    /\ adapter = "STOPPED" /\ ledger = FreshLedger /\ op = NoOp /\ responses = <<>>
    /\ reader = FALSE /\ destruction = "none" /\ recycle = 0 /\ proof = 0
    /\ authorization = "none" /\ aborting = FALSE /\ stopping = FALSE
    /\ generation = 0 /\ epoch = 0 /\ worker = NoWorker
    /\ toChild = <<>> /\ toParent = <<>> /\ faults = 0

Fault == faults < MaxFaults /\ faults' = faults + 1
Usable == adapter \notin {"STOPPED", "STARTING", "RECOVERING", "DESTROYED"}
Live == worker.status # "exited"

----------------------------------------------------------------------------
(* Destruction.  _destroy starts one task per child, which everybody joins: *)
(* it cancels the reader, terminates the process group and fails whatever   *)
(* waits; only the next child resets it.                                    *)

Destroy ==
    /\ adapter' = "DESTROYED"
    /\ destruction' = IF destruction = "none" THEN "running" ELSE destruction
    /\ reader' = FALSE

Fail(kind) == op' = [op EXCEPT !.kind = kind, !.phase = "raise"]

\* force_terminate: TERM, then KILL; the group is gone when it returns.
DestroyEnds ==
    /\ destruction = "running"
    /\ destruction' = "done"
    /\ worker' = [worker EXCEPT !.status = "exited"]
    /\ ledger' = [FreshLedger EXCEPT !.state = "DESTROYED"]
    /\ responses' = <<Fatal>>
    /\ toChild' = <<>> /\ toParent' = <<>>
    /\ UNCHANGED <<adapter, op, reader, recycle, proof, authorization, aborting,
                   stopping, generation, epoch, faults>>

\* Neither signal ends the group: TerminationProofError.
DestroyFails ==
    /\ destruction = "running" /\ Live /\ Fault
    /\ destruction' = "unproven"
    /\ UNCHANGED <<adapter, ledger, op, responses, reader, recycle, proof, authorization,
                   aborting, stopping, generation, epoch, worker, toChild, toParent>>

\* An operation that has to destroy first raises when that is over.
Raise ==
    /\ op.phase = "raise" /\ destruction \in {"done", "unproven"}
    /\ op' = NoOp
    /\ IF op.kind = "REBUILD" /\ authorization = "rebuilding"
       THEN authorization' = "broken" ELSE UNCHANGED authorization
    /\ stopping' = FALSE
    /\ UNCHANGED <<adapter, ledger, responses, reader, destruction, recycle, proof, aborting,
                   generation, epoch, worker, toChild, toParent, faults>>

----------------------------------------------------------------------------
(* The life of a child *)

Spawn(kind) ==
    /\ adapter' = "STARTING" /\ epoch' = epoch + 1 /\ destruction' = "none"
    /\ worker' = [NoWorker EXCEPT !.status = "starting"]
    /\ toChild' = <<>> /\ toParent' = <<>>
    /\ op' = [NoOp EXCEPT !.kind = kind, !.phase = "ready"]

Start ==
    /\ adapter = "STOPPED" /\ op = NoOp /\ epoch < MaxEpoch
    /\ Spawn("START")
    /\ UNCHANGED <<ledger, responses, reader, recycle, proof, authorization, aborting,
                   stopping, generation, faults>>

\* Only without a claim; the memory sample before it may fail.
Rebuild ==
    /\ op = NoOp /\ ~stopping /\ adapter # "STOPPED" /\ epoch < MaxEpoch
    /\ \/ authorization = "running" /\ authorization' = "rebuilding"
       \/ adapter = "DESTROYED" /\ UNCHANGED authorization
    /\ ledger.claim = 0 /\ destruction # "unproven"
    /\ Destroy
    /\ \/ op' = [NoOp EXCEPT !.kind = "REBUILD", !.phase = "destroy"] /\ UNCHANGED faults
       \/ destruction = "none" /\ Fault /\ Fail("REBUILD")
    /\ UNCHANGED <<ledger, responses, recycle, proof, aborting, stopping, generation, epoch,
                   worker, toChild, toParent>>

Replace ==
    /\ op.kind = "REBUILD" /\ op.phase = "destroy"
    /\ \/ destruction = "done" /\ Spawn("REBUILD")
       \/ destruction = "unproven" /\ Fail("REBUILD")
          /\ UNCHANGED <<adapter, epoch, destruction, worker, toChild, toParent>>
    /\ UNCHANGED <<ledger, responses, reader, recycle, proof, authorization, aborting,
                   stopping, generation, faults>>

\* parse_ready, the first memory sample and the reader task.
Ready ==
    /\ op.phase = "ready" /\ toParent # <<>>
    /\ \/ /\ adapter' = "ENGINE_READY"
          /\ ledger' = FreshLedger /\ responses' = <<>> /\ reader' = TRUE
          /\ toParent' = Tail(toParent)
          /\ op' = NoOp
          /\ authorization' = IF authorization = "rebuilding" THEN "rebuilt" ELSE authorization
          /\ UNCHANGED <<destruction, faults>>
       \/ /\ Fault /\ Destroy /\ Fail(op.kind)
          /\ UNCHANGED <<ledger, responses, toParent, authorization>>
    /\ UNCHANGED <<recycle, proof, aborting, stopping, generation, epoch, worker, toChild>>

\* The child exits, or is too slow, before its READY.
StartFails ==
    /\ op.phase = "ready" /\ toParent = <<>>
    /\ IF Live THEN Fault ELSE UNCHANGED faults
    /\ Destroy /\ Fail(op.kind)
    /\ UNCHANGED <<ledger, responses, recycle, proof, authorization, aborting, stopping,
                   generation, epoch, worker, toChild, toParent>>

----------------------------------------------------------------------------
(* Requests.  An operation applies its command to the ledger, sends it and *)
(* waits for the terminal, with a deadline and after it a grace.           *)

\* SubprocessLLMChild.send: it raises when the child has exited.
Send(frame) == toChild' = Append(toChild, frame)

Request(kind, gen) ==
    LET frame == Frame(kind, ledger.counter + 1, gen,
                       IF kind \in {"GENERATE", "DISCARD_TICKET"} THEN ledger.ticket ELSE 0)
    IN /\ ledger.counter < MaxRequests
       /\ AcceptsCommand(ledger, frame)
       /\ ledger' = Commanded(ledger, frame)
       /\ IF Live
          THEN /\ Send(frame)
               /\ op' = [NoOp EXCEPT !.kind = kind, !.phase = "wait"]
               /\ UNCHANGED <<adapter, destruction, reader>>
          ELSE Destroy /\ Fail(kind) /\ UNCHANGED toChild

\* The memory sample that comes before or after an operation is invalid.
SampleFails(kind) == Fault /\ Destroy /\ Fail(kind)

\* The state manager opens one conversation at a time, each with a new
\* generation, and only when no recovery is owed.
OpenConversation ==
    /\ op = NoOp /\ Usable /\ ~stopping
    /\ recycle = 0 /\ authorization \in {"none", "done"}
    /\ generation < MaxGeneration
    /\ generation' = generation + 1
    /\ \/ Request("OPEN", generation + 1) /\ UNCHANGED faults
       \/ ledger.state = "ENGINE_READY" /\ SampleFails("OPEN")
          /\ UNCHANGED <<ledger, toChild>>
    /\ UNCHANGED <<responses, recycle, proof, authorization, aborting, stopping, epoch, worker,
                   toParent>>

\* A turn of the reasoner: MEASURE, then GENERATE or DISCARD_TICKET.
Turn(kind) ==
    /\ op = NoOp /\ Usable /\ ~stopping /\ recycle = 0
    /\ Request(kind, ledger.claim)
    /\ UNCHANGED <<responses, recycle, proof, authorization, aborting, stopping, generation,
                   epoch, worker, toParent, faults>>

\* The sample before GENERATE decides whether there is memory for it; if not
\* the engine is to be recycled when its conversation is closed.
Refused ==
    /\ op = NoOp /\ Usable /\ ~stopping /\ ledger.state = "MEASURED"
    /\ \/ /\ recycle = 0
          /\ recycle' = ledger.claim
          /\ authorization' = "none"
          /\ adapter' = "RECYCLE_PENDING"
          /\ UNCHANGED <<op, destruction, reader>>
       \/ Destroy /\ Fail("GENERATE") /\ UNCHANGED <<recycle, authorization>>
    /\ Fault
    /\ UNCHANGED <<ledger, responses, proof, aborting, stopping, generation, epoch,
                   worker, toChild, toParent>>

CloseConversation ==
    /\ op = NoOp /\ Usable /\ ledger.claim # 0
    /\ Request("CLOSE", ledger.claim)
    /\ UNCHANGED <<responses, recycle, proof, authorization, aborting, stopping, generation,
                   epoch, worker, toParent, faults>>

\* _read_responses: the ledger sees an event before the operation does.
Receive ==
    /\ reader /\ toParent # <<>>
    /\ toParent' = Tail(toParent)
    /\ IF AcceptsEvent(ledger, Head(toParent))
       THEN /\ ledger' = Told(ledger, Head(toParent))
            /\ responses' = Append(responses, Head(toParent))
            /\ UNCHANGED <<adapter, destruction, reader>>
       ELSE Destroy /\ UNCHANGED <<ledger, responses>>
    /\ UNCHANGED <<op, recycle, proof, authorization, aborting, stopping, generation,
                   epoch, worker, toChild, faults>>

EndOfFile ==
    /\ reader /\ toParent = <<>> /\ ~Live
    /\ Destroy
    /\ UNCHANGED <<ledger, op, responses, recycle, proof, authorization, aborting,
                   stopping, generation, epoch, worker, toChild, toParent, faults>>

\* _sync_state, whoever is destroying meanwhile.
Synced == IF recycle # 0 THEN "RECYCLE_PENDING"
          ELSE IF ledger.state \in AdapterStates THEN ledger.state ELSE adapter

\* The operation takes the next response: fragments go to the speech, whose
\* callback may raise; a terminal ends it.
TakeFragment ==
    /\ op.phase = "wait" /\ responses # <<>>
    /\ Head(responses).event \in {"SAFE_TEXT", "CANCEL_DEFERRED"}
    /\ responses' = Tail(responses)
    /\ \/ UNCHANGED <<op, adapter, destruction, reader, faults>>
       \/ Head(responses).event = "SAFE_TEXT" /\ Fault /\ Destroy /\ Fail(op.kind)
    /\ UNCHANGED <<ledger, recycle, proof, authorization, aborting, stopping,
                   generation, epoch, worker, toChild, toParent>>

\* A cancelled operation raises and keeps the engine, a late interrupt of a
\* DISCARD_TICKET raises after it, anything else is the result.
TakeTerminal ==
    /\ op.phase = "wait" /\ responses # <<>>
    /\ responses' = Tail(responses)
    /\ LET e == Head(responses)
           sampled == op.kind \in {"OPEN", "GENERATE", "CLOSE"} /\ e.event # "OPEN_REJECTED"
       IN /\ e.event \in Terminals
          /\ proof' = IF e.event = "CLOSED" /\ adapter # "DESTROYED" THEN e.generation
                      ELSE IF e.event = "OPENED" /\ adapter # "DESTROYED" THEN 0 ELSE proof
          /\ \/ /\ e.event = "CANCELLED" \/ adapter # "DESTROYED"
                /\ adapter' = Synced /\ op' = NoOp
                /\ UNCHANGED <<destruction, reader, faults>>
             \/ /\ e.event # "CANCELLED" /\ adapter = "DESTROYED"
                /\ Destroy /\ Fail(op.kind) /\ UNCHANGED faults
             \/ /\ e.event # "CANCELLED" /\ adapter # "DESTROYED" /\ sampled
                /\ SampleFails(op.kind)
    /\ UNCHANGED <<ledger, recycle, authorization, aborting, stopping, generation,
                   epoch, worker, toChild, toParent>>

TakeFailure ==
    /\ op.phase = "wait" /\ responses # <<>> /\ Head(responses) = Fatal
    /\ responses' = Tail(responses)
    /\ Destroy /\ Fail(op.kind)
    /\ UNCHANGED <<ledger, recycle, proof, authorization, aborting, stopping,
                   generation, epoch, worker, toChild, toParent, faults>>

\* The deadline sends one CANCEL, unless an abort() has sent it; a
\* DISCARD_TICKET cannot be cancelled.
Deadline ==
    /\ op.phase = "wait" /\ ~op.expired
    /\ IF op.kind = "DISCARD_TICKET" \/ (ledger.active # NoRequest /\ ~ledger.cancelled /\ ~Live)
       THEN Destroy /\ Fail(op.kind) /\ UNCHANGED <<ledger, toChild>>
       ELSE /\ op' = [op EXCEPT !.expired = TRUE]
            /\ UNCHANGED <<adapter, destruction, reader>>
            /\ IF ledger.active # NoRequest /\ ~ledger.cancelled
               THEN LET frame == Frame("CANCEL", ledger.counter, 0, 0)
                    IN ledger' = Commanded(ledger, frame) /\ Send(frame)
               ELSE UNCHANGED <<ledger, toChild>>
    /\ UNCHANGED <<responses, recycle, proof, authorization, aborting, stopping,
                   generation, epoch, worker, toParent, faults>>

GraceForDead ==                                  \* mutant: the grace ends with the child
    /\ op.phase = "wait" /\ op.expired /\ ~Live
    /\ Destroy /\ Fail(op.kind)
    /\ UNCHANGED <<ledger, responses, recycle, proof, authorization, aborting, stopping,
                   generation, epoch, worker, toChild, toParent, faults>>

GraceEnds ==
    /\ op.phase = "wait" /\ op.expired
    /\ Destroy /\ Fail(op.kind)
    /\ UNCHANGED <<ledger, responses, recycle, proof, authorization, aborting, stopping,
                   generation, epoch, worker, toChild, toParent, faults>>

LeaveOpen ==                                     \* mutant: nobody ends the open request
    /\ op.phase = "wait" /\ ledger.active # NoRequest /\ Fault
    /\ op' = NoOp
    /\ UNCHANGED <<adapter, ledger, responses, reader, destruction, recycle, proof, authorization,
                   aborting, stopping, generation, epoch, worker, toChild, toParent>>

\* The task of the operation is cancelled with its request open, or another
\* task finds the operation lock held: the engine is destroyed.
TaskCancelled ==
    /\ op.phase = "wait" /\ ledger.active # NoRequest /\ Fault
    /\ Destroy
    /\ \/ Fail(op.kind) \/ UNCHANGED op
    /\ UNCHANGED <<ledger, responses, recycle, proof, authorization, aborting, stopping,
                   generation, epoch, worker, toChild, toParent>>

----------------------------------------------------------------------------
(* abort(), force_abort(), the planned recovery and stop() *)

\* A request that the reader has seen answered is only waited for.
Abort ==
    /\ op.phase = "wait" /\ ~aborting /\ ~stopping
    /\ aborting' = TRUE
    /\ \/ /\ ledger.active = NoRequest \/ ledger.cancelled
          /\ UNCHANGED <<op, ledger, toChild>>
       \/ /\ ledger.active.op = "DISCARD_TICKET"
          /\ op' = [op EXCEPT !.atomic = TRUE]
          /\ UNCHANGED <<ledger, toChild>>
       \/ /\ ledger.active.op \in Cancellable /\ ~ledger.cancelled /\ Live
          /\ LET frame == Frame("CANCEL", ledger.counter, 0, 0)
             IN ledger' = Commanded(ledger, frame) /\ Send(frame)
          /\ UNCHANGED op
    /\ UNCHANGED <<adapter, responses, reader, destruction, recycle, proof, authorization,
                   stopping, generation, epoch, worker, toParent, faults>>

AbortReturns ==
    /\ aborting /\ op = NoOp
    /\ aborting' = FALSE
    /\ UNCHANGED <<adapter, ledger, op, responses, reader, destruction, recycle, proof,
                   authorization, stopping, generation, epoch, worker, toChild, toParent, faults>>

\* Level 2: the abort() did not return in time.
ForceAbort ==
    /\ aborting
    /\ aborting' = FALSE
    /\ Destroy
    /\ UNCHANGED <<ledger, op, responses, recycle, proof, authorization, stopping,
                   generation, epoch, worker, toChild, toParent, faults>>

\* The manager owes a recovery after the CLOSE of a refused conversation.
AuthorizeRecovery ==
    /\ op = NoOp /\ ~stopping /\ authorization = "none" /\ recycle # 0
    /\ proof = recycle
    /\ ledger.claim = 0 /\ ledger.active = NoRequest
    /\ authorization' = "running"
    /\ UNCHANGED <<adapter, ledger, op, responses, reader, destruction, recycle, proof,
                   aborting, stopping, generation, epoch, worker, toChild, toParent, faults>>

RecoveryAuthorized ==
    /\ op = NoOp
    /\ \/ /\ authorization = "rebuilt" /\ adapter = "ENGINE_READY" /\ ledger.claim = 0
          /\ recycle' = 0 /\ authorization' = "done"
          /\ UNCHANGED <<adapter, destruction, reader>>
       \/ /\ authorization = "broken" \/ (authorization = "rebuilt" /\ adapter # "ENGINE_READY")
          /\ authorization' = "failed" /\ Destroy /\ UNCHANGED recycle
    /\ UNCHANGED <<ledger, op, responses, proof, aborting, stopping, generation, epoch,
                   worker, toChild, toParent, faults>>

\* stop(): the planned recovery is cancelled, the open conversation closed
\* (CloseConversation), and then the child, if there is one left, shut down.
Stop ==
    /\ op = NoOp /\ ~stopping /\ adapter # "STOPPED"
    /\ stopping' = TRUE /\ authorization' = "none" /\ aborting' = FALSE
    /\ UNCHANGED <<adapter, ledger, op, responses, reader, destruction, recycle, proof,
                   generation, epoch, worker, toChild, toParent, faults>>

Forgotten == ledger' = FreshLedger /\ recycle' = 0 /\ proof' = 0 /\ authorization' = "none"

Shutdown ==
    /\ stopping /\ op = NoOp /\ ledger.claim = 0 /\ destruction # "running"
    /\ reader' = FALSE
    /\ \/ /\ adapter # "DESTROYED" /\ Live
          /\ Send(Frame("SHUTDOWN", 0, 0, 0))
          /\ op' = [NoOp EXCEPT !.kind = "STOP", !.phase = "stop"]
          /\ UNCHANGED <<adapter, destruction, ledger, recycle, proof, authorization, stopping>>
       \/ /\ adapter # "DESTROYED" /\ ~Live
          /\ Destroy /\ Fail("STOP")
          /\ UNCHANGED <<toChild, ledger, recycle, proof, authorization, stopping>>
       \/ /\ adapter = "DESTROYED"
          /\ adapter' = "STOPPED" /\ Forgotten /\ stopping' = FALSE
          /\ UNCHANGED <<op, destruction, toChild>>
    /\ UNCHANGED <<responses, aborting, generation, epoch, worker, toParent, faults>>

\* Only the acknowledgement and an exit with zero are a stop.
Stopped ==
    /\ op.phase = "stop" /\ ~Live
    /\ IF toParent # <<>> /\ Head(toParent).event = "SHUTDOWN_ACK"
       THEN /\ adapter' = "STOPPED" /\ Forgotten /\ op' = NoOp /\ stopping' = FALSE
            /\ UNCHANGED <<destruction, reader>>
       ELSE Destroy /\ Fail("STOP") /\ UNCHANGED <<ledger, recycle, proof, authorization, stopping>>
    /\ toParent' = <<>>
    /\ UNCHANGED <<responses, aborting, generation, epoch, worker, toChild, faults>>

StopExpires ==
    /\ op.phase = "stop" /\ Live
    /\ Fault /\ Destroy /\ Fail("STOP")
    /\ UNCHANGED <<ledger, responses, recycle, proof, authorization, aborting, stopping,
                   generation, epoch, worker, toChild, toParent>>

----------------------------------------------------------------------------
(* The child *)

Write(e) == toParent' = Append(toParent, e)
Exit == worker' = [worker EXCEPT !.status = "exited"]

\* main(): the package lock and the paths are verified, the network denied,
\* and only then the native runtime imported and its engine built.
Stages == <<"verify", "deny network", "load engine">>
Boot ==
    /\ worker.status = "starting" /\ worker.stage < Len(Stages)
    /\ \/ worker' = [worker EXCEPT !.stage = @ + 1] /\ UNCHANGED faults
       \/ Fault /\ Exit
    /\ UNCHANGED <<parent, toChild, toParent>>

\* run() begins with the READY.
Announce ==
    /\ worker.status = "starting" /\ worker.stage = Len(Stages)
    /\ worker' = [worker EXCEPT !.status = "idle"]
    /\ Write(Reply("READY", 0, 0, 0, 0, TRUE))
    /\ UNCHANGED <<parent, toChild, faults>>

\* The process dies: killed by the kernel, or by a native crash.
Crash ==
    /\ worker.status \in {"idle", "busy"} /\ Fault
    /\ Exit
    /\ UNCHANGED <<parent, toChild, toParent>>

\* The control loop takes a command; one that its ledger refuses ends it.
Command ==
    /\ worker.status = "idle" /\ toChild # <<>> /\ Head(toChild).op # "SHUTDOWN"
    /\ toChild' = Tail(toChild)
    /\ IF Head(toChild).op \in Ops /\ AcceptsCommand(worker.ledger, Head(toChild))
       THEN worker' = [worker EXCEPT !.status = "busy", !.ledger = Commanded(@, Head(toChild)),
                                     !.thread = "ready", !.outcome = "none", !.queue = 0,
                                     !.produced = 0, !.pending = FALSE, !.hit = FALSE]
       ELSE Exit
    /\ UNCHANGED <<parent, toParent, faults>>

\* runtime.close() stops the cache reader, which may be stuck in a read.
ShutdownChild ==
    /\ worker.status = "idle" /\ toChild # <<>> /\ Head(toChild).op = "SHUTDOWN"
    /\ toChild' = Tail(toChild)
    /\ worker' = [worker EXCEPT !.status = "exited", !.cache = "none"]
    /\ \/ AcceptsCommand(worker.ledger, Head(toChild)) /\ Write(Reply("SHUTDOWN_ACK", 0, 0, 0, 0, TRUE))
          /\ UNCHANGED faults
       \/ worker.cache = "reading" /\ Fault /\ UNCHANGED toParent
    /\ UNCHANGED parent

\* WeightCachePrefetch._read: it ends by itself and nobody waits for it.
CacheRead ==
    /\ worker.cache = "reading" /\ Live
    /\ worker' = [worker EXCEPT !.cache = "done"]
    /\ UNCHANGED <<parent, toChild, toParent, faults>>

\* The native thread.  A CANCEL that came before generate() has its
\* conversation is pending and seen there, a later one reaches the engine.
Native ==
    /\ worker.status = "busy" /\ worker.thread = "ready"
    /\ worker' =
         IF worker.ledger.active.op = "GENERATE" /\ worker.pending
         THEN [worker EXCEPT !.thread = "done", !.outcome = "cancelled", !.pending = FALSE]
         ELSE [worker EXCEPT !.thread = "native",
                             !.cache = IF worker.ledger.active.op = "OPEN" /\ @ = "none"
                                       THEN "reading" ELSE @]
    /\ UNCHANGED <<parent, toChild, toParent, faults>>

\* emit_safe: the put blocks while the queue is full.
Emit ==
    /\ worker.status = "busy" /\ worker.thread = "native"
    /\ worker.ledger.active.op = "GENERATE"
    /\ worker.produced < MaxFragments /\ worker.queue < QueueSize
    /\ worker' = [worker EXCEPT !.queue = @ + 1, !.produced = @ + 1]
    /\ UNCHANGED <<parent, toChild, toParent, faults>>

\* What the operation has done when it returns: the conversation exists or is
\* gone, the renderer keeps the text it measured until it renders another.
NativeDone(outcome) ==
    LET operation == worker.ledger.active.op
    IN [worker EXCEPT
          !.thread = "done", !.outcome = outcome,
          !.conversation = CASE operation = "OPEN" -> outcome = "ok"
                             [] operation = "CLOSE" -> FALSE
                             [] OTHER -> @,
          !.scratch = CASE operation = "MEASURE" -> TRUE
                        [] operation = "CLOSE" -> FALSE
                        [] operation = "GENERATE" -> FALSE
                        [] operation = "DISCARD_TICKET" -> @ /\ outcome # "ok"
                        [] OTHER -> @]

NativeEnds ==
    /\ worker.status = "busy" /\ worker.thread = "native"
    /\ \/ worker' = NativeDone("ok") /\ UNCHANGED faults
       \/ worker.ledger.active.op = "GENERATE" /\ Fault /\ worker' = NativeDone("rejected")
       \/ worker.hit /\ worker' = NativeDone("cancelled") /\ UNCHANGED faults
       \/ Fault /\ worker' = NativeDone("failed")
    /\ UNCHANGED <<parent, toChild, toParent>>

\* The control loop while the thread runs: what the thread has emitted goes
\* out, and then a CANCEL may come in.
Relay ==
    /\ worker.status = "busy" /\ worker.queue > 0
    /\ LET e == Reply("SAFE_TEXT", worker.ledger.counter, 0, worker.ledger.fragments, 0, TRUE)
       IN /\ worker' = [worker EXCEPT !.queue = @ - 1, !.ledger = Told(@, e)]
          /\ Write(e)
    /\ UNCHANGED <<parent, toChild, faults>>

Cancel ==
    /\ worker.status = "busy" /\ toChild # <<>>
    /\ toChild' = Tail(toChild)
    /\ IF Head(toChild).op = "CANCEL" /\ AcceptsCommand(worker.ledger, Head(toChild))
       THEN LET e == Reply("CANCEL_DEFERRED", worker.ledger.counter, 0, 0, 0, TRUE)
            IN /\ worker' = [worker EXCEPT
                     !.ledger = Told(Commanded(@, Head(toChild)), e), !.pending = TRUE,
                     !.hit = worker.ledger.active.op = "GENERATE" /\ worker.thread = "native"]
               /\ Write(e)
       ELSE Exit /\ UNCHANGED toParent
    /\ UNCHANGED <<parent, faults>>

\* After the thread has been joined and every fragment written: the terminal.
\* A cancelled OPEN is closed again and a cancelled MEASURE scrubbed, and what
\* cannot be proved ends the child.
EventOf == [OPEN |-> "OPENED", MEASURE |-> "MEASURED", DISCARD_TICKET |-> "TICKET_DISCARDED",
            CLOSE |-> "CLOSED"]
AnswerTo(l, outcome) ==
    LET operation == l.active.op
    IN Reply(IF operation # "GENERATE" THEN EventOf[operation]
             ELSE IF outcome = "ok" THEN "RESULT" ELSE "REQUEST_FAILED",
             l.counter, l.active.generation,
             IF operation = "GENERATE" THEN l.revision + 1 ELSE l.revision,
             IF operation = "MEASURE" THEN l.counter ELSE l.active.ticket, TRUE)

Answer ==
    /\ ~worker.ledger.cancelled
    /\ IF worker.outcome \in {"ok", "rejected"}
       THEN LET e == AnswerTo(worker.ledger, worker.outcome)
            IN /\ Write(e)
               /\ worker' = [worker EXCEPT !.status = "idle", !.thread = "none",
                                           !.ledger = Told(@, e)]
       ELSE Exit /\ UNCHANGED toParent
    /\ UNCHANGED faults

CancelledUntold(cleaned) ==                      \* mutant: its ledger never hears of it
    LET operation == worker.ledger.active.op
        proven == cleaned /\ worker.outcome # "failed" /\ operation # "CLOSE"
        e == Reply("CANCELLED", worker.ledger.counter, 0, 0, 0, proven)
    IN /\ worker.ledger.cancelled
       /\ cleaned => UNCHANGED faults
       /\ ~cleaned => operation \in {"OPEN", "MEASURE"} /\ Fault
       /\ IF operation = "OPEN" /\ ~(cleaned /\ worker.conversation)
          THEN Exit /\ UNCHANGED toParent
          ELSE /\ Write(e)
               /\ worker' = [worker EXCEPT
                    !.status = IF proven THEN "idle" ELSE "exited", !.thread = "none",
                    !.conversation = @ /\ operation # "OPEN",
                    !.scratch = @ /\ ~(operation = "MEASURE" /\ cleaned)]

CancelledUnscrubbed(cleaned) ==                  \* mutant: the measured text stays
    LET operation == worker.ledger.active.op
        proven == cleaned /\ worker.outcome # "failed" /\ operation # "CLOSE"
        e == Reply("CANCELLED", worker.ledger.counter, 0, 0, 0, proven)
    IN /\ worker.ledger.cancelled
       /\ cleaned => UNCHANGED faults
       /\ ~cleaned => operation \in {"OPEN", "MEASURE"} /\ Fault
       /\ IF operation = "OPEN" /\ ~(cleaned /\ worker.conversation)
          THEN Exit /\ UNCHANGED toParent
          ELSE /\ Write(e)
               /\ worker' = [worker EXCEPT
                    !.status = IF proven THEN "idle" ELSE "exited", !.thread = "none",
                    !.conversation = @ /\ operation # "OPEN",
                    !.ledger = IF proven THEN Told(@, e) ELSE @]

Cancelled(cleaned) ==
    LET operation == worker.ledger.active.op
        proven == cleaned /\ worker.outcome # "failed" /\ operation # "CLOSE"
        e == Reply("CANCELLED", worker.ledger.counter, 0, 0, 0, proven)
    IN /\ worker.ledger.cancelled
       /\ cleaned => UNCHANGED faults
       /\ ~cleaned => operation \in {"OPEN", "MEASURE"} /\ Fault
       /\ IF operation = "OPEN" /\ ~(cleaned /\ worker.conversation)
          THEN Exit /\ UNCHANGED toParent
          ELSE /\ Write(e)
               /\ worker' = [worker EXCEPT
                    !.status = IF proven THEN "idle" ELSE "exited", !.thread = "none",
                    !.conversation = @ /\ operation # "OPEN",
                    !.scratch = @ /\ ~(operation = "MEASURE" /\ cleaned),
                    !.ledger = IF proven THEN Told(@, e) ELSE @]

End ==
    /\ worker.status = "busy" /\ worker.thread = "done" /\ worker.queue = 0 /\ toChild = <<>>
    /\ \/ Answer
       \/ Cancelled(TRUE)
       \/ Cancelled(FALSE)
    /\ UNCHANGED <<parent, toChild>>

----------------------------------------------------------------------------
Lifecycle == Start \/ Rebuild \/ Replace \/ Ready \/ StartFails \/ DestroyEnds \/ DestroyFails
             \/ Raise
Requests == OpenConversation \/ Turn("MEASURE") \/ Turn("GENERATE") \/ Turn("DISCARD_TICKET")
            \/ Refused \/ CloseConversation
Responses == Receive \/ EndOfFile \/ TakeFragment \/ TakeTerminal \/ TakeFailure \/ Deadline
             \/ GraceEnds \/ TaskCancelled
Control == Abort \/ AbortReturns \/ ForceAbort \/ AuthorizeRecovery \/ RecoveryAuthorized
           \/ Stop \/ Shutdown \/ Stopped \/ StopExpires
Child == Boot \/ Announce \/ Crash \/ Command \/ ShutdownChild \/ CacheRead \/ Native \/ Emit
         \/ NativeEnds \/ Relay \/ Cancel \/ End

Next == Lifecycle \/ Requests \/ Responses \/ Control \/ Child

\* The event loop runs what is ready, its timers fire and a killed process
\* group ends; the child owes nothing: the native call may never return.
Fairness ==
    /\ WF_vars(DestroyEnds) /\ WF_vars(Raise) /\ WF_vars(Replace)
    /\ WF_vars(Receive) /\ WF_vars(EndOfFile)
    /\ WF_vars(TakeFragment) /\ WF_vars(TakeTerminal) /\ WF_vars(TakeFailure)
    /\ WF_vars(Deadline) /\ WF_vars(GraceEnds) /\ WF_vars(AbortReturns)

Spec == Init /\ [][Next]_vars
FairSpec == Spec /\ Fairness

----------------------------------------------------------------------------
(* Properties *)

TypeOK ==
    /\ adapter \in AdapterStates
    /\ op.kind \in Ops \cup {"none", "START", "REBUILD", "STOP"}
    /\ op.phase \in {"idle", "destroy", "ready", "wait", "raise", "stop"}
    /\ destruction \in {"none", "running", "done", "unproven"}
    /\ authorization \in {"none", "running", "rebuilding", "rebuilt", "broken", "done", "failed"}
    /\ {reader, aborting, stopping} \subseteq BOOLEAN
    /\ {recycle, proof} \subseteq 0 .. MaxGeneration
    /\ worker.status \in {"starting", "idle", "busy", "exited"}
    /\ worker.queue \in 0 .. QueueSize

Quiet == toChild = <<>> /\ toParent = <<>> /\ worker.status = "idle" /\ reader

\* Parent and child never disagree about the conversation: when nothing is in
\* the pipes, both ledgers are the same, whatever was cancelled on the way.
LedgersAgree == TypeOK /\ (Quiet => ledger = worker.ledger)

\* A terminal is taken by the operation it answers: while the engine is usable
\* none stays behind for the next one, though _request keeps _responses from
\* one request to the next and an operation may leave while its answer comes.
EachAnswersItsOwn ==
    Usable => \A i \in 1 .. Len(responses) :
        Terminal(responses[i]) =>
            /\ op.phase = "wait" /\ op.kind \in Answers[responses[i].event]
            /\ responses[i].id = ledger.counter

\* The native conversation and the claim go together: an idle engine that says
\* it has no conversation has none, also after a cancelled OPEN.
ClaimIsNative ==
    worker.status = "idle" => (worker.conversation <=> worker.ledger.claim # 0)

\* A conversation that is ready holds no text that was measured and then
\* discarded or cancelled.
NoInputKept ==
    worker.status = "idle" /\ worker.ledger.state \in {"ENGINE_READY", "CONVERSATION_READY"}
        => ~worker.scratch

\* What the child's ledger says of its native side is so, whatever was
\* cancelled: no conversation without a claim, no text without its ticket.
CleanChild == ClaimIsNative /\ NoInputKept

\* Whoever waits for the engine is told: an operation ends by its terminal, its
\* deadline, its grace or the destruction of the child.
RequestEnds == op.kind \in Ops ~> op = NoOp \/ destruction = "unproven"

============================================================================
