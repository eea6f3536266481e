----------------------------- MODULE ListenChild -----------------------------
(***************************************************************************)
(* Listening: one call of the Listen worker, the operation task in which   *)
(* the whisper.cpp adapter transcribes, the microphone it reads from, the  *)
(* child process (a supervisor and its native worker, one process group)   *)
(* it talks to over two pipes, and the manager that aborts the call, forces*)
(* its abort, rebuilds the child and stops it.                             *)
(*                                                                         *)
(* An action is what one coroutine does between two awaits.  A frame is a  *)
(* message without content; where speech ends is the child's free choice.  *)
(***************************************************************************)
EXTENDS Naturals, Sequences, FiniteSets

CONSTANTS
    MaxCalls,         \* perceive() calls of a behaviour
    MaxFrames,        \* MAX_FRAMES: what one request may capture
    TerminalSilence,  \* EOF_TERMINAL_SILENCE_FRAMES
    MaxGeneration,    \* children started, the first one included
    MaxCrashes        \* supervisors that die on their own

ASSUME ListenBounds ==
    /\ MaxCalls \in Nat /\ MaxCrashes \in Nat
    /\ MaxFrames \in Nat \ {0} /\ TerminalSilence \in Nat \ {0}
    /\ MaxGeneration \in Nat \ {0}

VARIABLES
    call,        \* WorkerRuntime._active and where perceive() is
    op,          \* the operation task: transcribe()
    mic,         \* AlsaAudioInput: its stream and the queue of its one thread
    asr,         \* the adapter's own fields
    process,     \* FramedProcess.state
    child,       \* the process group: supervisor and native worker
    toChild, toParent,
    manager,     \* the converger, the recovery and the stop
    calls, generation, crashes

vars == <<call, op, mic, asr, process, child, toChild, toParent, manager,
          calls, generation, crashes>>
bounds == <<calls, generation, crashes>>
pipes == <<toChild, toParent>>

None == 0
ChildStates == {"STOPPED", "READY", "BUSY", "DESTROYED"}

(* The faults perceive() raises, by the recovery key they declare: the ASR *)
(* backend or the audio input.                                             *)
NoFault == "none"
Keys(fault) == IF fault = NoFault THEN {} ELSE {fault}

NoChild == [life |-> "absent", native |-> FALSE, active |-> None, frames |-> 0,
            inferring |-> FALSE, cancelled |-> FALSE]
Running == [NoChild EXCEPT !.life = "up", !.native = TRUE]

NoOp == [at |-> "none", loop |-> "capture", silence |-> 0, held |-> "none",
         cancel |-> FALSE, result |-> "none"]

(* Startup has succeeded: READY was read and its identity validated.       *)
Init ==
    /\ call = [at |-> "idle", cancelled |-> FALSE, fault |-> NoFault]
    /\ op = NoOp
    /\ mic = [stream |-> FALSE, queue |-> <<>>]
    /\ asr = [active |-> None, cancel |-> FALSE, ready |-> TRUE,
              cancelSent |-> None, destroyed |-> FALSE, nextId |-> 1]
    /\ process = "READY"
    /\ child = Running
    /\ toChild = <<>> /\ toParent = <<>>
    /\ manager = [at |-> "idle", report |-> {}, cause |-> "none"]
    /\ calls = 0 /\ generation = 1 /\ crashes = 0

ReadyForNext == process = "READY" /\ asr.active = None
GroupDead == child.life \in {"absent", "exited"} /\ ~child.native
Abortable == asr.active # None /\ process = "BUSY"
OpDone == op.at \in {"none", "done"}

(* The audio thread runs one native operation after the other.  A read that*)
(* nobody awaits any more still runs, and the close comes behind it.       *)
Queued(what) == \E i \in DOMAIN mic.queue : mic.queue[i] = what
Reading == Queued("read")
Closing == Queued("close")
StartRead == mic' = [mic EXCEPT !.queue = Append(@, "read")]

CancelledOp == IF OpDone THEN op ELSE [op EXCEPT !.cancel = TRUE]

(***************************************************************************)
(* Pipes.  What is written to a process that is gone is lost.              *)
(***************************************************************************)
Write(commands) ==
    toChild' = IF child.life = "exited" THEN toChild ELSE toChild \o commands
Cmd(name) == [op |-> name, id |-> asr.active]
EndOfFile == child.life = "exited" /\ toParent = <<>>
Heard == IF EndOfFile THEN "EOF" ELSE Head(toParent).event
Hears == EndOfFile \/ toParent # <<>>
Consume == toParent' = IF EndOfFile THEN toParent ELSE Tail(toParent)

(* An event is only good for the request it names.                         *)
Event == IF ~EndOfFile /\ Head(toParent).id # asr.active THEN "stray" ELSE Heard

(***************************************************************************)
(* The call: Listen.perceive inside WorkerRuntime._run_call.               *)
(***************************************************************************)
Perceive ==
    /\ manager.at = "idle" /\ call.at = "idle" /\ call.fault = NoFault
    /\ calls < MaxCalls
    /\ calls' = calls + 1
    /\ call' = [at |-> "waiting", cancelled |-> FALSE, fault |-> NoFault]
    /\ mic' = [mic EXCEPT !.stream = TRUE]
    /\ op' = [NoOp EXCEPT !.at = "begin"]
    /\ UNCHANGED <<asr, process, child, pipes, manager, generation, crashes>>

(* After asr.abort() only ready_for_next proves that a timeout is no fault;*)
(* the operation that may still wait for its first frame is cancelled.     *)
Judge ==
    /\ call' = [call EXCEPT !.at = "settling",
                            !.fault = IF ReadyForNext THEN NoFault ELSE "asr"]
    /\ op' = CancelledOp

Deadline ==
    /\ call.at = "waiting"
    /\ IF Abortable
       THEN /\ asr' = [asr EXCEPT !.cancel = TRUE]
            /\ call' = [call EXCEPT !.at = "aborting"]
            /\ UNCHANGED op
       ELSE Judge /\ UNCHANGED asr
    /\ UNCHANGED <<mic, process, child, pipes, manager, bounds>>

AbortReturns ==
    /\ call.at = "aborting" /\ asr.ready
    /\ Judge
    /\ UNCHANGED <<mic, asr, process, child, pipes, manager, bounds>>

(* _close_frames: aclose() of a stream that is still the active one queues *)
(* the close of the source behind whatever the thread is doing.            *)
CloseFrames ==
    mic' = IF mic.stream THEN [mic EXCEPT !.stream = FALSE, !.queue = Append(@, "close")]
           ELSE mic

OpReturns ==
    /\ call.at \in {"waiting", "settling"} /\ op.at = "done"
    /\ call' = [call EXCEPT !.at = "closing",
                  !.fault = IF call.at = "waiting" /\ op.result \in {"asr", "mic"}
                            THEN op.result ELSE @]
    /\ CloseFrames
    /\ UNCHANGED <<op, asr, process, child, pipes, manager, bounds>>

CallEnds ==
    /\ call.at = "closing" /\ ~Closing
    /\ call' = [call EXCEPT !.at = "idle"]
    /\ op' = NoOp
    /\ UNCHANGED <<mic, asr, process, child, pipes, manager, bounds>>

(***************************************************************************)
(* The operation: transcribe().  A cancelled operation ends where it waits;*)
(* an anext() in flight first gives the stream back, and waits for that.   *)
(***************************************************************************)
Done(result) == [op EXCEPT !.at = "done", !.result = result]
Abandoned(queue) == [i \in DOMAIN queue |-> IF queue[i] = "read" THEN "stale" ELSE queue[i]]
Release ==
    mic' = IF Reading THEN [stream |-> FALSE, queue |-> Append(Abandoned(mic.queue), "close")]
           ELSE mic

Transcribe ==
    /\ op.at = "begin"
    /\ IF op.cancel
       THEN op' = Done("cancelled") /\ UNCHANGED mic
       ELSE IF process # "READY"
       THEN op' = Done("asr") /\ UNCHANGED mic
       ELSE op' = [op EXCEPT !.at = "first"] /\ StartRead
    /\ UNCHANGED <<call, asr, process, child, pipes, manager, bounds>>

OpCancelled ==
    /\ op.cancel
    /\ \/ /\ op.at \in {"first", "frame", "late"} /\ Reading
          /\ Release /\ op' = [op EXCEPT !.at = "releasing", !.result = "cancelled"]
       \/ /\ \/ op.at \in {"reply", "eof", "draining"}
             \/ op.at \in {"first", "frame", "late"} /\ ~Reading
          /\ op' = Done("cancelled") /\ UNCHANGED mic
    /\ UNCHANGED <<call, asr, process, child, pipes, manager, bounds>>

Released ==
    /\ op.at = "releasing" /\ ~Closing
    /\ op' = Done(op.result)
    /\ UNCHANGED <<call, mic, asr, process, child, pipes, manager, bounds>>

(* Mutant: the request keeps the cancellation mark of an earlier one. *)
FrameReadyKeepsMark ==
    /\ mic.queue # <<>> /\ Head(mic.queue) = "read"
    /\ mic' = [mic EXCEPT !.queue = Tail(@)]
    /\ \/ /\ op.at = "first" /\ ~op.cancel
          /\ process' = "BUSY"
          /\ asr' = [asr EXCEPT !.active = asr.nextId, !.nextId = @ + 1, !.ready = FALSE,
                                !.cancel = FALSE]
          /\ Write(<<[op |-> "BEGIN", id |-> asr.nextId],
                     [op |-> "FRAME", id |-> asr.nextId]>>)
          /\ op' = [op EXCEPT !.at = "reply"]
       \/ /\ op.at = "frame" /\ ~op.cancel
          /\ Write(<<Cmd("FRAME")>>)
          /\ op' = [op EXCEPT !.at = "reply"]
          /\ UNCHANGED <<asr, process>>
       \/ /\ op.at = "late"
          /\ UNCHANGED <<op, asr, process, toChild>>
    /\ UNCHANGED <<call, child, toParent, manager, bounds>>

(* The frame read by the thread.  The first one allocates the request; the *)
(* later ones are taken unless a cancellation was seen before them.        *)
FrameReady ==
    /\ mic.queue # <<>> /\ Head(mic.queue) = "read"
    /\ mic' = [mic EXCEPT !.queue = Tail(@)]
    /\ \/ /\ op.at = "first" /\ ~op.cancel
          /\ process' = "BUSY"
          /\ asr' = [asr EXCEPT !.active = asr.nextId, !.nextId = @ + 1, !.ready = FALSE,
                                !.cancel = FALSE, !.cancelSent = None]
          /\ Write(<<[op |-> "BEGIN", id |-> asr.nextId],
                     [op |-> "FRAME", id |-> asr.nextId]>>)
          /\ op' = [op EXCEPT !.at = "reply"]
       \/ /\ op.at = "frame" /\ ~op.cancel
          /\ Write(<<Cmd("FRAME")>>)
          /\ op' = [op EXCEPT !.at = "reply"]
          /\ UNCHANGED <<asr, process>>
       \/ /\ op.at = "late"
          /\ UNCHANGED <<op, asr, process, toChild>>
    /\ UNCHANGED <<call, child, toParent, manager, bounds>>

(* The input ends by itself (a finite input): before the first frame the   *)
(* request is refused, later the adapter pads with silence.                *)
SourceEnds ==
    /\ mic.queue # <<>> /\ Head(mic.queue) = "read"
    /\ op.at \in {"first", "frame"} /\ ~op.cancel
    /\ mic' = [mic EXCEPT !.queue = Tail(@)]
    /\ IF op.at = "first"
       THEN op' = Done("rejected") /\ UNCHANGED toChild
       ELSE /\ Write(<<Cmd("FRAME")>>)
            /\ op' = [op EXCEPT !.at = "reply", !.silence = TerminalSilence]
    /\ UNCHANGED <<call, asr, process, child, toParent, manager, bounds>>

(* A read that raises releases the stream and is raised after that; no     *)
(* handler of transcribe() takes the exception: an open request stays open.*)
CaptureFails ==
    /\ mic.queue # <<>> /\ Head(mic.queue) = "read" /\ ~op.cancel
    /\ mic' = [stream |-> FALSE, queue |-> <<"close">>]
    /\ UNCHANGED <<call, op, asr, process, child, pipes, manager, bounds>>

CaptureRaised ==
    /\ op.at \in {"first", "frame"} /\ ~op.cancel /\ mic.queue = <<>>
    /\ op' = Done("mic")
    /\ UNCHANGED <<call, mic, asr, process, child, pipes, manager, bounds>>

(* What the thread runs for nobody's result: a stale read, the close.      *)
AudioThread ==
    /\ mic.queue # <<>> /\ Head(mic.queue) \in {"stale", "close"}
    /\ mic' = [mic EXCEPT !.queue = Tail(@)]
    /\ UNCHANGED <<call, op, asr, process, child, pipes, manager, bounds>>

(* _send_cancel_once, by the two waits that watch the cancellation.        *)
CancelOnce ==
    /\ asr' = [asr EXCEPT !.cancelSent = asr.active]
    /\ IF asr.cancelSent = asr.active THEN UNCHANGED toChild
       ELSE Write(<<Cmd("CANCEL")>>)

SendCancel ==
    /\ asr.cancel /\ ~op.cancel
    /\ \/ op.at = "reply" /\ asr.cancelSent # asr.active /\ UNCHANGED op
       \/ op.at = "frame" /\ op' = [op EXCEPT !.at = "late"]
    /\ CancelOnce
    /\ UNCHANGED <<call, mic, process, child, toParent, manager, bounds>>

Finish(result) ==
    /\ process' = "READY"
    /\ asr' = [asr EXCEPT !.active = None, !.ready = TRUE]
    /\ op' = Done(result)
Fail == op' = [op EXCEPT !.at = "failing", !.held = "kill"] /\ UNCHANGED <<asr, process>>

(* What a terminal does to the request, in every wait; a request that is no*)
(* longer BUSY cannot be finished: operation_finished raises.              *)
Conclude(event) ==
    /\ UNCHANGED toChild
    /\ CASE event \in {"CANCELLED", "NO_SPEECH"} /\ process = "BUSY" -> Finish("rejected")
         [] event = "RESULT" /\ op.loop = "terminal" /\ process = "BUSY" -> Finish("text")
         [] OTHER -> Fail

ToTerminal ==
    /\ op' = [op EXCEPT !.at = "reply", !.loop = "terminal", !.held = "none"]
    /\ UNCHANGED <<asr, process, toChild>>

(* An accepted frame is followed by the next one: from the microphone, or  *)
(* of silence until the child had enough of it and the request is dropped. *)
Accepted ==
    CASE op.silence = 0 ->
           /\ op' = [op EXCEPT !.at = "frame"] /\ StartRead
           /\ UNCHANGED <<asr, process, toChild>>
      [] op.silence = 1 ->
           op' = [op EXCEPT !.at = "eof"] /\ CancelOnce /\ UNCHANGED <<mic, process>>
      [] OTHER ->
           /\ op' = [op EXCEPT !.silence = @ - 1] /\ Write(<<Cmd("FRAME")>>)
           /\ UNCHANGED <<mic, asr, process>>

TakeReply ==
    /\ op.at = "reply" /\ ~op.cancel /\ Hears
    /\ CASE Event = "FRAME_ACCEPTED" /\ op.loop = "capture" -> Accepted
         [] Event = "ENDPOINT" /\ op.loop = "capture" -> ToTerminal /\ UNCHANGED mic
         [] Event = "CANCEL_DEFERRED" -> ToTerminal /\ UNCHANGED mic
         [] OTHER -> Conclude(Event) /\ UNCHANGED mic
    /\ Consume
    /\ UNCHANGED <<call, child, manager, bounds>>

TakeEndOfInput ==
    /\ op.at = "eof" /\ ~op.cancel /\ Hears
    /\ Conclude(Event)
    /\ Consume
    /\ UNCHANGED <<call, mic, child, manager, bounds>>

(* _next_frame_or_event after its CANCEL: the event is held until the read *)
(* that lost the race has been cancelled and its stream released.          *)
TakeLate ==
    /\ op.at = "late" /\ ~op.cancel /\ Hears
    /\ op' = [op EXCEPT !.at = "draining", !.held = Event]
    /\ Release
    /\ Consume
    /\ UNCHANGED <<call, asr, process, child, toChild, manager, bounds>>

Drained ==
    /\ op.at = "draining" /\ ~op.cancel /\ ~Closing
    /\ IF op.held = "CANCEL_DEFERRED" THEN ToTerminal ELSE Conclude(op.held)
    /\ UNCHANGED <<call, mic, child, toParent, manager, bounds>>

(* Mutant: only the supervisor is waited for. *)
FailureTerminatedLeader ==
    /\ op.at = "failing" /\ op.held = "kill" /\ child.life = "exited"
    /\ process' = "DESTROYED"
    /\ op' = [op EXCEPT !.held = "clean"]
    /\ UNCHANGED <<call, mic, asr, child, pipes, manager, bounds>>

(* Mutant: the destruction is not marked as to be reported. *)
FailureCleanedUnmarked ==
    /\ op.at = "failing" /\ op.held = "clean"
    /\ asr' = [asr EXCEPT !.active = None, !.ready = TRUE]
    /\ op' = [op EXCEPT !.held = "cleaned"]
    /\ UNCHANGED <<call, mic, process, child, pipes, manager, bounds>>

(* _protocol_failure: a shielded task kills the group, cleans up and only  *)
(* then tells the adapter; the operation resumes after it, and if it was   *)
(* cancelled meanwhile it ends cancelled, without its fault.               *)
FailureTerminated ==
    /\ op.at = "failing" /\ op.held = "kill" /\ GroupDead
    /\ process' = "DESTROYED"
    /\ op' = [op EXCEPT !.held = "clean"]
    /\ UNCHANGED <<call, mic, asr, child, pipes, manager, bounds>>

(* AudioTerminationProofError: not even KILL has emptied the group in time.*)
FailureUnproven ==
    /\ op.at = "failing" /\ op.held = "kill" /\ ~GroupDead /\ crashes < MaxCrashes
    /\ crashes' = crashes + 1
    /\ op' = Done(IF op.cancel THEN "cancelled" ELSE "asr")
    /\ UNCHANGED <<call, mic, asr, process, child, pipes, manager, calls, generation>>

FailureCleaned ==
    /\ op.at = "failing" /\ op.held = "clean"
    /\ asr' = [asr EXCEPT !.destroyed = TRUE, !.active = None, !.ready = TRUE]
    /\ op' = [op EXCEPT !.held = "cleaned"]
    /\ UNCHANGED <<call, mic, process, child, pipes, manager, bounds>>

FailureRaised ==
    /\ op.at = "failing" /\ op.held = "cleaned"
    /\ op' = Done(IF op.cancel THEN "cancelled" ELSE "asr")
    /\ UNCHANGED <<call, mic, asr, process, child, pipes, manager, bounds>>

(***************************************************************************)
(* The child: the supervisor's loop and its one inference slot.            *)
(***************************************************************************)
Say(event, id) == toParent' = Append(toParent, [event |-> event, id |-> id])
Idle == [child EXCEPT !.active = None, !.frames = 0, !.inferring = FALSE,
                      !.cancelled = FALSE]
(* return 3: the finally clause terminates the native worker.              *)
ExitsNonzero == child' = [Idle EXCEPT !.life = "exited", !.native = FALSE]
                /\ UNCHANGED toParent

Booted ==
    /\ child.life = "booting"
    /\ child' = Running
    /\ Say("READY", None)
    /\ UNCHANGED <<call, op, mic, asr, process, toChild, manager, bounds>>

ReadBegin(id) == child' = [Idle EXCEPT !.active = id] /\ UNCHANGED toParent

ReadFrame(id) ==
    IF id # child.active \/ child.inferring THEN ExitsNonzero
    ELSE \/ /\ child.frames < MaxFrames
            /\ child' = [child EXCEPT !.frames = @ + 1]
            /\ Say("FRAME_ACCEPTED", id)
         \/ /\ child.frames < MaxFrames
            /\ child' = [child EXCEPT !.frames = @ + 1, !.inferring = TRUE]
            /\ Say("ENDPOINT", id)
         \/ /\ child.frames = MaxFrames
            /\ child' = Idle
            /\ Say("NO_SPEECH", id)

(* Mutant: an inference that runs is acknowledged as cancelled at once. *)
ReadCancelEarly(id) ==
    IF id # child.active THEN ExitsNonzero
    ELSE /\ child' = [child EXCEPT !.cancelled = TRUE]
         /\ Say("CANCELLED", id)

ReadCancel(id) ==
    CASE id # child.active -> ExitsNonzero
      [] id = child.active /\ child.inferring -> /\ child' = [child EXCEPT !.cancelled = TRUE]
                                                 /\ Say("CANCEL_DEFERRED", id)
      [] OTHER -> child' = Idle /\ Say("CANCELLED", id)

ReadShutdown ==
    IF child.active # None THEN ExitsNonzero
    ELSE /\ child' = [child EXCEPT !.life = "exited", !.native = FALSE]
         /\ Say("SHUTDOWN_ACK", None)

ReadCommand ==
    /\ child.life = "up" /\ toChild # <<>>
    /\ toChild' = Tail(toChild)
    /\ LET c == Head(toChild) IN
       CASE c.op = "BEGIN" -> ReadBegin(c.id)
         [] c.op = "FRAME" -> ReadFrame(c.id)
         [] c.op = "CANCEL" -> ReadCancel(c.id)
         [] c.op = "SHUTDOWN" -> ReadShutdown
    /\ UNCHANGED <<call, op, mic, asr, process, manager, bounds>>

(* The future is done: a result, or an error of any kind.                  *)
Inferred ==
    /\ child.life = "up" /\ child.inferring
    /\ \E outcome \in {IF child.cancelled THEN "CANCELLED" ELSE "RESULT",
                       "INFERENCE_REJECTED"} : Say(outcome, child.active)
    /\ child' = Idle
    /\ UNCHANGED <<call, op, mic, asr, process, toChild, manager, bounds>>

(* The supervisor dies and leaves its native worker behind.                *)
Crash ==
    /\ child.life \in {"booting", "up"} /\ crashes < MaxCrashes
    /\ crashes' = crashes + 1
    /\ child' = [Idle EXCEPT !.life = "exited"]
    /\ UNCHANGED <<call, op, mic, asr, process, pipes, manager, calls, generation>>

(***************************************************************************)
(* force_terminate: TERM, then KILL, until no member of the group is left. *)
(***************************************************************************)
Terminating ==
    \/ op.at = "failing" /\ op.held = "kill"
    \/ manager.at \in {"level2_kill", "replace_kill", "stop_kill"}

KillSupervisor ==
    /\ Terminating /\ child.life \in {"booting", "up"}
    /\ child' = [Idle EXCEPT !.life = "exited"]
    /\ UNCHANGED <<call, op, mic, asr, process, pipes, manager, bounds>>

KillNative ==
    /\ Terminating /\ child.life = "exited" /\ child.native
    /\ child' = [child EXCEPT !.native = FALSE]
    /\ UNCHANGED <<call, op, mic, asr, process, pipes, manager, bounds>>

(***************************************************************************)
(* The manager.  Level 1: WorkerRuntime.abort() under its deadline.        *)
(***************************************************************************)
Abort ==
    /\ manager.at = "idle" /\ call.at # "idle" /\ ~call.cancelled
    /\ call' = [call EXCEPT !.cancelled = TRUE]
    /\ IF Abortable
       THEN /\ asr' = [asr EXCEPT !.cancel = TRUE]
            /\ manager' = [manager EXCEPT !.at = "level1_abort"]
            /\ UNCHANGED op
       ELSE /\ op' = CancelledOp
            /\ manager' = [manager EXCEPT !.at = "level1_done"]
            /\ UNCHANGED asr
    /\ UNCHANGED <<mic, process, child, pipes, bounds>>

Level1Cancels ==
    /\ manager.at = "level1_abort" /\ asr.ready
    /\ op' = CancelledOp
    /\ manager' = [manager EXCEPT !.at = "level1_done"]
    /\ UNCHANGED <<call, mic, asr, process, child, pipes, bounds>>

(* Level 2: WorkerRuntime.force_abort() of the worker that is still busy or*)
(* has a fault to answer for; the adapter either reports a destruction that*)
(* has already taken place, once, or destroys its child now.  A worker that*)
(* is neither reports nothing.                                             *)
ForceAbort ==
    /\ call' = [call EXCEPT !.cancelled = TRUE]
    /\ IF call.at = "idle" /\ call.fault = NoFault
       THEN /\ manager' = [manager EXCEPT !.at = "level2_done", !.report = {}]
            /\ UNCHANGED <<op, asr>>
       ELSE IF process \in {"STOPPED", "DESTROYED"}
       THEN /\ manager' = [manager EXCEPT !.at = "level2_done",
                              !.report = IF asr.destroyed THEN {"asr"} ELSE {}]
            /\ asr' = [asr EXCEPT !.destroyed = FALSE]
            /\ op' = CancelledOp
       ELSE /\ manager' = [manager EXCEPT !.at = "level2_kill", !.report = {"asr"}]
            /\ UNCHANGED <<op, asr>>

Level1Ends ==
    /\ manager.at = "level1_done" /\ call.at = "idle"
    /\ IF call.fault # NoFault THEN ForceAbort
       ELSE /\ manager' = [manager EXCEPT !.at = "idle"]
            /\ UNCHANGED <<call, op, asr>>
    /\ UNCHANGED <<mic, process, child, pipes, bounds>>

(* The deadline of the level may also pass behind the end of the call: the *)
(* adapter's abort() waits for a request that nobody closes any more.      *)
Level1Expires ==
    /\ manager.at \in {"level1_abort", "level1_done"}
    /\ ForceAbort
    /\ UNCHANGED <<mic, process, child, pipes, bounds>>

FaultConverges ==
    /\ manager.at = "idle" /\ call.at = "idle" /\ call.fault # NoFault
    /\ ForceAbort
    /\ UNCHANGED <<mic, process, child, pipes, bounds>>

Level2Terminated ==
    /\ manager.at = "level2_kill" /\ GroupDead
    /\ process' = "DESTROYED"
    /\ manager' = [manager EXCEPT !.at = "level2_clean"]
    /\ UNCHANGED <<call, op, mic, asr, child, pipes, bounds>>

Level2Cleaned ==
    /\ manager.at = "level2_clean"
    /\ asr' = [asr EXCEPT !.active = None, !.ready = TRUE]
    /\ op' = CancelledOp
    /\ manager' = [manager EXCEPT !.at = "level2_done"]
    /\ UNCHANGED <<call, mic, process, child, pipes, bounds>>

Fatal(cause) == manager' = [manager EXCEPT !.at = "fatal", !.cause = cause]

(* The report must name exactly the keys the fault has declared.           *)
Level2Ends ==
    /\ manager.at = "level2_done" /\ call.at = "idle"
    /\ IF call.fault # NoFault /\ manager.report # Keys(call.fault)
       THEN Fatal("mismatch") /\ UNCHANGED call
       ELSE /\ manager' = [manager EXCEPT
                         !.at = IF manager.report = {} THEN "idle" ELSE "rebuild"]
            /\ call' = [call EXCEPT !.fault = NoFault]
    /\ UNCHANGED <<op, mic, asr, process, child, pipes, bounds>>

Level2Expires ==
    /\ manager.at \in {"level2_kill", "level2_clean", "level2_done"}
    /\ ~(manager.at = "level2_done" /\ call.at = "idle")
    /\ Fatal("force_abort_timeout")
    /\ UNCHANGED <<call, op, mic, asr, process, child, pipes, bounds>>

(* rebuild(): a new FramedProcess, adopted only when it is READY.          *)
Rebuild ==
    /\ manager.at = "rebuild" /\ process = "DESTROYED"
    /\ generation < MaxGeneration
    /\ manager' = [manager EXCEPT !.at = "starting"]
    /\ generation' = generation + 1
    /\ child' = [NoChild EXCEPT !.life = "booting"]
    /\ toChild' = <<>> /\ toParent' = <<>>
    /\ UNCHANGED <<call, op, mic, asr, process, calls, crashes>>

Adopted ==
    /\ manager.at = "starting" /\ toParent # <<>>
    /\ Head(toParent).event = "READY"
    /\ toParent' = Tail(toParent)
    /\ process' = "READY"
    /\ asr' = [asr EXCEPT !.destroyed = FALSE, !.nextId = 1]
    /\ manager' = [manager EXCEPT !.at = "idle", !.report = {}]
    /\ UNCHANGED <<call, op, mic, child, toChild, bounds>>

(* READY times out, or the replacement dies: it is terminated as well.     *)
StartFails ==
    /\ manager.at = "starting" /\ (child.life = "booting" \/ EndOfFile)
    /\ manager' = [manager EXCEPT !.at = "replace_kill"]
    /\ UNCHANGED <<call, op, mic, asr, process, child, pipes, bounds>>

ReplacementKilled ==
    /\ manager.at = "replace_kill" /\ GroupDead
    /\ Fatal("rebuild")
    /\ UNCHANGED <<call, op, mic, asr, process, child, pipes, bounds>>

(***************************************************************************)
(* Listen.stop(), after the last call: SHUTDOWN, its acknowledgement and   *)
(* the exit of the whole group, else the group is terminated.              *)
(***************************************************************************)
Stop ==
    /\ manager.at = "idle" /\ call.at = "idle" /\ call.fault = NoFault
    /\ IF process # "READY"
       THEN manager' = [manager EXCEPT !.at = "stopped"] /\ UNCHANGED toChild
       ELSE IF child.life = "exited"
       THEN manager' = [manager EXCEPT !.at = "stop_kill"] /\ UNCHANGED toChild
       ELSE /\ manager' = [manager EXCEPT !.at = "stop_ack"]
            /\ Write(<<[op |-> "SHUTDOWN", id |-> None]>>)
    /\ UNCHANGED <<call, op, mic, asr, process, child, toParent, bounds>>

StopAcknowledged ==
    /\ manager.at = "stop_ack" /\ Hears
    /\ manager' = [manager EXCEPT !.at = IF Heard = "SHUTDOWN_ACK" THEN "stop_exit"
                                         ELSE "stop_kill"]
    /\ Consume
    /\ UNCHANGED <<call, op, mic, asr, process, child, toChild, bounds>>

StopExpires ==
    /\ manager.at \in {"stop_ack", "stop_exit"}
    /\ ~(manager.at = "stop_exit" /\ GroupDead)
    /\ manager' = [manager EXCEPT !.at = "stop_kill"]
    /\ UNCHANGED <<call, op, mic, asr, process, child, pipes, bounds>>

Stopped ==
    /\ manager.at \in {"stop_exit", "stop_kill"} /\ GroupDead
    /\ process' = IF manager.at = "stop_exit" THEN "STOPPED" ELSE "DESTROYED"
    /\ manager' = [manager EXCEPT !.at = "stopped"]
    /\ UNCHANGED <<call, op, mic, asr, child, pipes, bounds>>

Body == Deadline \/ AbortReturns \/ OpReturns \/ CallEnds
Operation ==
    \/ Transcribe \/ OpCancelled \/ Released \/ SendCancel \/ TakeReply
    \/ TakeEndOfInput \/ TakeLate \/ Drained \/ CaptureRaised
    \/ FailureTerminated \/ FailureCleaned \/ FailureRaised
Microphone == FrameReady \/ SourceEnds \/ CaptureFails \/ AudioThread
ChildSteps == Booted \/ ReadCommand \/ Inferred
Killing == KillSupervisor \/ KillNative
Convergence ==
    \/ Level1Cancels \/ Level1Ends \/ Level1Expires \/ FaultConverges
    \/ Level2Terminated \/ Level2Cleaned \/ Level2Ends \/ Level2Expires
Recovery == Rebuild \/ Adopted \/ StartFails \/ ReplacementKilled
Shutdown == Stop \/ StopAcknowledged \/ StopExpires \/ Stopped

Next ==
    \/ Perceive \/ Abort \/ Crash \/ FailureUnproven
    \/ Body \/ Operation \/ Microphone \/ ChildSteps \/ Killing
    \/ Convergence \/ Recovery \/ Shutdown

Spec == Init /\ [][Next]_vars

(* The event loop runs every coroutine that can go on and fires its timers;*)
(* the audio thread ends every read; the supervisor reads what it is sent, *)
(* and its native worker answers or is given up after 120 s; a process that*)
(* is killed goes away.  Nothing says that anybody aborts or stops.        *)
Fairness ==
    /\ WF_vars(Body) /\ WF_vars(Operation)
    /\ WF_vars(Microphone) /\ WF_vars(ChildSteps)
    /\ WF_vars(Killing) /\ WF_vars(Convergence)
FairSpec == Spec /\ Fairness

(***************************************************************************)
(* Properties                                                              *)
(***************************************************************************)
(* The type of the state. *)
TypeOK ==
    /\ call \in [at : {"idle", "waiting", "aborting", "settling", "closing"},
                 cancelled : BOOLEAN, fault : {NoFault, "asr", "mic"}]
    /\ op.at \in {"none", "begin", "first", "reply", "frame", "late", "draining",
                  "eof", "releasing", "failing", "done"}
    /\ mic.stream \in BOOLEAN
    /\ \A i \in DOMAIN mic.queue : mic.queue[i] \in {"read", "stale", "close"}
    /\ process \in ChildStates
    /\ asr.active \in 0..asr.nextId /\ asr.nextId \in 1..MaxCalls + 1
    /\ child.frames \in 0..MaxFrames
    /\ child.life \in {"absent", "booting", "up", "exited"}
    /\ manager.report \subseteq {"asr"}
    /\ calls \in 0..MaxCalls /\ generation \in 1..MaxGeneration

(* framed_child.py:285: a FramedProcess that says STOPPED or DESTROYED has *)
(* no live member of its process group left, so that the one that replaces *)
(* it is alone with the model's memory and the workdir.                    *)
OneEngine ==
    /\ TypeOK
    /\ (process \in {"STOPPED", "DESTROYED"} /\ manager.at \notin {"starting", "replace_kill"})
           => GroupDead

(* listener.py:137: when perceive() has ended, nothing of the call is left:*)
(* no operation, no stream and no awaited read at the microphone; and a    *)
(* child that says READY holds no request and has said nothing unread, so  *)
(* that the next request can only hear its own answers.                    *)
QuietBetweenCalls ==
    call.at = "idle" =>
        /\ op.at = "none" /\ ~mic.stream /\ ~Reading
        /\ process = "READY" /\ manager.at = "idle" =>
              child.active = None /\ toParent = <<>> /\ asr.active = None

(* whispercpp/adapter.py:433: a child destroyed by its own fault may escape*)
(* the convergence (its fault is lost to a cancellation), but it is never  *)
(* forgotten: the next forced abort will report it.                        *)
NoForgottenDestruction ==
    manager.at = "idle" /\ call.at = "idle" /\ process = "DESTROYED" => asr.destroyed

(* listener.py:77: every call ends, with a result, a refusal or a fault, or*)
(* in the fatal exit of a convergence that cannot be proven.  The one call *)
(* that may wait for ever is past its deadline, and its operation is gone  *)
(* without having closed its request: nothing will announce its end.       *)
LostRequest == call.at = "aborting" /\ OpDone /\ ~asr.ready
PerceiveEnds ==
    call.at # "idle" ~> (call.at = "idle" \/ manager.at = "fatal" \/ LostRequest)

==============================================================================
