------------------------- MODULE ListenChild_proofs -------------------------
(***************************************************************************)
(* ListenChild for every number of calls, frames, children and crashes: a  *)
(* process that is gone has no live member left, a call leaves nothing     *)
(* behind, and no destruction of the child is forgotten.                   *)
(***************************************************************************)
EXTENDS ListenChild, TLAPS

(***************************************************************************)
(* The state has its types.                                                *)
(***************************************************************************)
Commands == [op : {"BEGIN", "FRAME", "CANCEL", "SHUTDOWN"}, id : Nat]
Terminals == {"NO_SPEECH", "CANCELLED", "RESULT", "INFERENCE_REJECTED"}
EventNames == Terminals \cup {"READY", "FRAME_ACCEPTED", "ENDPOINT", "CANCEL_DEFERRED",
                              "SHUTDOWN_ACK"}
Events == [event : EventNames, id : Nat]
Jobs == {"read", "stale", "close"}
Mics == [stream : BOOLEAN, queue : Seq(Jobs)]

Calls == [at : {"idle", "waiting", "aborting", "settling", "closing"},
          cancelled : BOOLEAN, fault : {NoFault, "asr", "mic"}]
Places == {"none", "begin", "first", "reply", "frame", "late", "draining", "eof",
           "releasing", "failing", "done"}
Operations ==
    [at : Places, loop : {"capture", "terminal"}, silence : 0..TerminalSilence,
     held : {"none", "kill", "clean", "cleaned", "EOF", "stray"} \cup EventNames,
     cancel : BOOLEAN,
     result : {"none", "cancelled", "asr", "mic", "rejected", "text"}]
Adapters == [active : Nat, cancel : BOOLEAN, ready : BOOLEAN, cancelSent : Nat,
             destroyed : BOOLEAN, nextId : Nat \ {0}]
Children == [life : {"absent", "booting", "up", "exited"}, native : BOOLEAN, active : Nat,
             frames : 0..MaxFrames, inferring : BOOLEAN, cancelled : BOOLEAN]
Stopping == {"stop_ack", "stop_exit", "stop_kill", "stopped"}
Replacing == {"starting", "replace_kill"}
Managers ==
    [at : {"idle", "level1_abort", "level1_done", "level2_kill", "level2_clean", "level2_done",
           "rebuild", "fatal"} \cup Stopping \cup Replacing,
     report : SUBSET {"asr"},
     cause : {"none", "mismatch", "force_abort_timeout", "rebuild"}]
Shape ==
    /\ call \in Calls /\ op \in Operations /\ asr \in Adapters /\ process \in ChildStates
    /\ mic \in Mics /\ child \in Children /\ manager \in Managers
    /\ toChild \in Seq(Commands) /\ toParent \in Seq(Events)
    /\ calls \in 0..MaxCalls /\ generation \in 1..MaxGeneration /\ crashes \in Nat

(***************************************************************************)
(* The call and its operation, the operation and its request.              *)
(***************************************************************************)
\* An operation is over before its call; whoever rebuilds or stops the child waits for it.
Placed ==
    /\ call.at = "idle" => op.at = "none"
    /\ call.at = "closing" => op.at = "done"
    /\ manager.at \in {"rebuild"} \cup Stopping \cup Replacing => call.at = "idle"

\* An operation allocates one request, and only while the child is ready for it.
Fresh == op.at \in {"begin", "first"}
Speaking == op.at \in {"reply", "frame", "late", "eof", "draining"} /\ ~op.cancel
Allocated ==
    /\ asr.nextId <= calls + 1 /\ asr.active <= asr.nextId
    /\ Fresh => asr.nextId <= calls
    /\ Fresh /\ ~op.cancel /\ process = "READY" => manager.at = "idle"
    /\ op.at = "first" /\ ~op.cancel => process = "READY"
    /\ Speaking => asr.active # None

(***************************************************************************)
(* The microphone: one read at a time, for the wait that started it; a     *)
(* stream that is closed has its close behind its reads, and a read is only*)
(* started on an open stream.                                              *)
(***************************************************************************)
Behind(queue) ==
    \A i \in DOMAIN queue : queue[i] = "read" => \E j \in DOMAIN queue : j > i /\ queue[j] = "close"
OneRead(queue) == \A i, j \in DOMAIN queue : queue[i] = "read" /\ queue[j] = "read" => i = j
MicInv ==
    /\ ~mic.stream => Behind(mic.queue)
    /\ OneRead(mic.queue) /\ (Reading => op.at \in {"first", "frame", "late"})
    /\ op.at = "begin" \/ (op.at = "reply" /\ op.loop = "capture") => mic.stream
    /\ op.at \in {"first", "frame"} /\ Reading => mic.stream
    /\ call.at \in {"idle", "closing"} => ~mic.stream

(***************************************************************************)
(* The child and its pipes.                                                *)
(***************************************************************************)
\* The request a child has, and a BEGIN that is on its way to it.
Asked(what) == \E i \in DOMAIN toChild : toChild[i].op = what
Resting == child.active = None /\ ~Asked("BEGIN")
Silent == \A i \in DOMAIN toParent : toParent[i].event \notin Terminals

\* One BEGIN at a time; every command but SHUTDOWN names a request.
Ordered ==
    /\ \A i, j \in DOMAIN toChild : toChild[i].op = "BEGIN" /\ toChild[j].op = "BEGIN" => i = j
    /\ child.active # None => ~Asked("BEGIN")
    /\ \A i \in DOMAIN toChild : toChild[i].op # "SHUTDOWN" => toChild[i].id # None
    /\ child.inferring => child.active # None
\* What a child says last of a request is its terminal; then it rests.
LastWord ==
    /\ \A i \in DOMAIN toParent :
           toParent[i].event \in Terminals => i = Len(toParent) /\ Resting
    /\ op.at = "draining" /\ op.held \in Terminals => toParent = <<>> /\ Resting
    /\ Asked("SHUTDOWN") => manager.at \in Stopping /\ Resting /\ Silent
\* A process that says READY has no request, nor anything to say.
Ready ==
    process = "READY" =>
        /\ asr.active = None /\ Resting
        /\ manager.at \notin Stopping => toParent = <<>>
StopsReady == manager.at \in {"stop_ack", "stop_exit", "stop_kill"} => process = "READY"

\* A replacement is alone until it is adopted.
Boots ==
    /\ child.life = "booting" => manager.at \in Replacing /\ toParent = <<>>
    /\ manager.at \in Replacing =>
           /\ process = "DESTROYED" /\ toChild = <<>> /\ Len(toParent) <= 1
           /\ child.active = None

(***************************************************************************)
(* Destruction.                                                            *)
(***************************************************************************)
Gone == process \in {"STOPPED", "DESTROYED"} /\ manager.at \notin Replacing => GroupDead
Cleaning == op.at = "failing" /\ op.held = "clean"
Reported == manager.at = "level2_done" /\ manager.report # {}
Forced == manager.at \in {"level2_kill", "level2_clean"} => manager.report # {}
Remembered ==
    process = "DESTROYED" =>
        /\ asr.active = None \/ Cleaning \/ manager.at \in {"level2_clean", "fatal"}
        /\ \/ asr.destroyed \/ Cleaning \/ Reported
           \/ manager.at \in {"level2_clean", "rebuild", "fatal", "stopped"} \cup Replacing

IInv == /\ Shape /\ Placed /\ Allocated /\ MicInv
        /\ Ordered /\ LastWord /\ Ready /\ StopsReady /\ Boots
        /\ Gone /\ Forced /\ Remembered

(***************************************************************************)
(* Sequences.                                                              *)
(***************************************************************************)
\* The head and the tail of a queue.
LEMMA Takes ==
    ASSUME NEW S, NEW s \in Seq(S), s # <<>>
    PROVE  /\ Tail(s) \in Seq(S) /\ Head(s) \in S /\ Head(s) = s[1] /\ 1 \in DOMAIN s
           /\ Len(s) \in Nat /\ Len(Tail(s)) = Len(s) - 1 /\ DOMAIN s = 1..Len(s)
           /\ \A i \in DOMAIN Tail(s) : i + 1 \in DOMAIN s /\ Tail(s)[i] = s[i + 1] /\ i \in Nat
           /\ \A i \in DOMAIN s : i # 1 => i - 1 \in DOMAIN Tail(s) /\ Tail(s)[i - 1] = s[i]
  OBVIOUS

\* One more at the end of a queue.
LEMMA Adds ==
    ASSUME NEW S, NEW s \in Seq(S), NEW e \in S
    PROVE  /\ Append(s, e) \in Seq(S) /\ Len(s) \in Nat /\ Len(Append(s, e)) = Len(s) + 1
           /\ DOMAIN s = 1..Len(s) /\ DOMAIN Append(s, e) = 1..Len(s) + 1
           /\ Append(s, e)[Len(s) + 1] = e /\ Append(s, e) # <<>>
           /\ \A i \in DOMAIN s : Append(s, e)[i] = s[i]
  OBVIOUS

\* Two queues, one behind the other.
LEMMA Joins ==
    ASSUME NEW S, NEW s \in Seq(S), NEW t \in Seq(S)
    PROVE  /\ s \o t \in Seq(S) /\ Len(s \o t) = Len(s) + Len(t)
           /\ Len(s) \in Nat /\ Len(t) \in Nat
           /\ DOMAIN s = 1..Len(s) /\ DOMAIN t = 1..Len(t)
           /\ DOMAIN (s \o t) = 1..Len(s) + Len(t)
           /\ \A i \in DOMAIN s : (s \o t)[i] = s[i]
           /\ \A i \in DOMAIN t : (s \o t)[Len(s) + i] = t[i]
  OBVIOUS

(***************************************************************************)
(* What is heard and written.                                              *)
(***************************************************************************)
\* The word that is heard next, and the pipe without it.
LEMMA Hearing ==
    ASSUME Shape, Hears
    PROVE  /\ Event \in {"EOF", "stray"} \cup EventNames
           /\ Event \in EventNames => /\ toParent # <<>> /\ Head(toParent).event = Event
                                      /\ Head(toParent).id = asr.active
                                      /\ (Consume => toParent' = Tail(toParent))
           /\ Consume => /\ toParent' \in Seq(Events)
                         /\ toParent' = toParent \/ toParent' = Tail(toParent)
                         /\ toParent = <<>> => toParent' = <<>>
  <1>1. toParent # <<>> => /\ Tail(toParent) \in Seq(Events) /\ Head(toParent) \in Events
    BY Takes DEF Shape
  <1>2. CASE EndOfFile
    BY <1>2 DEF Event, Heard, Consume, EndOfFile, EventNames, Terminals, Shape
  <1>3. CASE ~EndOfFile
    BY <1>1, <1>3 DEF Event, Heard, Consume, Hears, Events, EventNames, Terminals, Shape
  <1>4. QED
    BY <1>2, <1>3

\* What is written to the child.
Sent == {<<[op |-> name, id |-> asr.active]>> : name \in {"FRAME", "CANCEL"}}
        \cup {<<[op |-> "BEGIN", id |-> asr.nextId], [op |-> "FRAME", id |-> asr.nextId]>>,
              <<[op |-> "SHUTDOWN", id |-> None]>>}
LEMMA Writing ==
    ASSUME Shape, NEW cs \in Sent
    PROVE  /\ cs \in Seq(Commands) /\ Len(cs) \in {1, 2} /\ DOMAIN cs = 1..Len(cs)
           /\ Write(cs) => /\ toChild' \in Seq(Commands)
                           /\ toChild' = toChild \/ toChild' = toChild \o cs
  <1>1. cs \in Seq(Commands) /\ Len(cs) \in {1, 2} /\ DOMAIN cs = 1..Len(cs)
    <2>1. /\ \A name \in {"FRAME", "CANCEL"} : [op |-> name, id |-> asr.active] \in Commands
          /\ \A name \in {"BEGIN", "FRAME"} : [op |-> name, id |-> asr.nextId] \in Commands
          /\ [op |-> "SHUTDOWN", id |-> None] \in Commands
      BY DEF Commands, Shape, Adapters, None
    <2>2. \A c \in Commands : <<c>> \in Seq(Commands) /\ Len(<<c>>) = 1 /\ DOMAIN <<c>> = 1..1
      OBVIOUS
    <2>3. \A c, d \in Commands : /\ <<c, d>> \in Seq(Commands) /\ Len(<<c, d>>) = 2
                               /\ DOMAIN <<c, d>> = 1..2
      OBVIOUS
    <2>4. \/ \E name \in {"FRAME", "CANCEL"} : cs = <<[op |-> name, id |-> asr.active]>>
          \/ cs = <<[op |-> "BEGIN", id |-> asr.nextId], [op |-> "FRAME", id |-> asr.nextId]>>
          \/ cs = <<[op |-> "SHUTDOWN", id |-> None]>>
      BY DEF Sent
    <2> DEFINE begin == [op |-> "BEGIN", id |-> asr.nextId]
               frame == [op |-> "FRAME", id |-> asr.nextId]
               shutdown == [op |-> "SHUTDOWN", id |-> None]
               named(name) == [op |-> name, id |-> asr.active]
    <2>5. /\ begin \in Commands /\ frame \in Commands /\ shutdown \in Commands
          /\ \A name \in {"FRAME", "CANCEL"} : named(name) \in Commands
      BY <2>1
    <2>6. \/ \E name \in {"FRAME", "CANCEL"} : cs = <<named(name)>>
          \/ cs = <<begin, frame>> \/ cs = <<shutdown>>
      BY <2>4
    <2> HIDE DEF begin, frame, shutdown, named
    <2>7. QED
      BY ZenonT(60), <2>2, <2>3, <2>5, <2>6
  <1>2. toChild \o cs \in Seq(Commands)
    BY <1>1, Joins DEF Shape
  <1>3. QED
    BY <1>1, <1>2 DEF Write, Shape

\* The writes of the operation.
LEMMA Writes ==
    ASSUME Shape
    PROVE  /\ <<Cmd("FRAME")>> \in Sent /\ <<Cmd("CANCEL")>> \in Sent
           /\ <<[op |-> "BEGIN", id |-> asr.nextId], [op |-> "FRAME", id |-> asr.nextId]>> \in Sent
           /\ <<[op |-> "SHUTDOWN", id |-> None]>> \in Sent
           /\ \A c \in {"FRAME", "CANCEL"} : Write(<<Cmd(c)>>) => toChild' \in Seq(Commands)
           /\ CancelOnce => /\ toChild' \in Seq(Commands)
                            /\ asr' = [asr EXCEPT !.cancelSent = asr.active]
                            /\ asr' \in Adapters
                            /\ toChild' = toChild \/ Write(<<Cmd("CANCEL")>>)
  <1>1. /\ <<Cmd("FRAME")>> \in Sent /\ <<Cmd("CANCEL")>> \in Sent
        /\ <<[op |-> "BEGIN", id |-> asr.nextId], [op |-> "FRAME", id |-> asr.nextId]>> \in Sent
        /\ <<[op |-> "SHUTDOWN", id |-> None]>> \in Sent
    BY DEF Cmd, Sent
  <1>2. \A c \in {"FRAME", "CANCEL"} : Write(<<Cmd(c)>>) => toChild' \in Seq(Commands)
    BY <1>1, Writing
  <1>3. [asr EXCEPT !.cancelSent = asr.active] \in Adapters
    BY DEF Shape, Adapters
  <1>4. QED
    BY <1>1, <1>2, <1>3 DEF CancelOnce, Shape

\* What a terminal, or a word that is none, makes of the request.
LEMMA Concluding ==
    ASSUME Shape, NEW event, Conclude(event)
    PROVE  /\ UNCHANGED toChild /\ asr' \in Adapters /\ op' \in Operations
           /\ \/ /\ event \in Terminals /\ process = "BUSY" /\ process' = "READY"
                 /\ asr' = [asr EXCEPT !.active = None, !.ready = TRUE]
                 /\ \E result \in {"rejected", "text"} : op' = Done(result)
              \/ /\ op' = [op EXCEPT !.at = "failing", !.held = "kill"]
                 /\ UNCHANGED <<asr, process>>
  <1>1. UNCHANGED toChild
    BY DEF Conclude
  <1>2. \/ /\ event \in Terminals /\ process = "BUSY"
           /\ \E result \in {"rejected", "text"} : Finish(result)
        \/ Fail
    BY DEF Conclude, Terminals
  <1>3. /\ [asr EXCEPT !.active = None, !.ready = TRUE] \in Adapters
        /\ \A result \in {"rejected", "text"} : Done(result) \in Operations
        /\ [op EXCEPT !.at = "failing", !.held = "kill"] \in Operations
    BY DEF Shape, Adapters, Operations, Places, Done, None
  <1>4. QED
    BY <1>1, <1>2, <1>3 DEF Finish, Fail, Shape

(***************************************************************************)
(* The shape.                                                              *)
(***************************************************************************)
\* What the bounds allow.
LEMMA Bounds ==
    /\ TerminalSilence \in Nat /\ TerminalSilence > 0 /\ MaxFrames \in Nat
    /\ MaxCalls \in Nat /\ MaxGeneration \in Nat
    /\ 0 \in 0..TerminalSilence /\ TerminalSilence \in 0..TerminalSilence
    /\ 0 \in 0..MaxFrames /\ 0 \in 0..MaxCalls /\ 1 \in 1..MaxGeneration
  <1>1. /\ TerminalSilence \in Nat /\ TerminalSilence # 0 /\ MaxFrames \in Nat
        /\ MaxCalls \in Nat /\ MaxGeneration \in Nat /\ MaxGeneration # 0
    BY ListenBounds
  <1>2. QED
    BY <1>1

\* Where an operation goes, and the child that is reset.
LEMMA Typed ==
    ASSUME Shape
    PROVE  /\ CancelledOp \in Operations /\ Idle \in Children /\ Running \in Children
           /\ NoOp \in Operations /\ NoChild \in Children
           /\ [NoOp EXCEPT !.at = "begin"] \in Operations
           /\ \A result \in {"cancelled", "asr", "mic", "rejected", "text"} : Done(result) \in Operations
           /\ Done(op.result) \in Operations
           /\ \A at \in Places : [op EXCEPT !.at = at] \in Operations
           /\ \A at \in Places, result \in {"cancelled"} :
                  [op EXCEPT !.at = at, !.result = result] \in Operations
  <1>1. op \in Operations /\ child \in Children
    BY DEF Shape
  <1>2. CancelledOp \in Operations
    BY <1>1 DEF CancelledOp, Operations
  <1>3. NoOp \in Operations /\ [NoOp EXCEPT !.at = "begin"] \in Operations
    <2>1. NoOp \in Operations
      BY Bounds DEF NoOp, Operations, Places
    <2>2. QED
      BY <2>1 DEF Operations, Places
  <1>4. NoChild \in Children /\ Running \in Children
    <2>1. NoChild \in Children
      BY Bounds DEF NoChild, Children, None
    <2>2. QED
      BY <2>1 DEF Running, Children
  <1>5. Idle \in Children
    BY <1>1, Bounds DEF Idle, Children, None
  <1>6. \A result \in {"cancelled", "asr", "mic", "rejected", "text"} : Done(result) \in Operations
    BY <1>1 DEF Done, Operations, Places
  <1>7. Done(op.result) \in Operations
    BY <1>1 DEF Done, Operations, Places
  <1>8. /\ \A at \in Places : [op EXCEPT !.at = at] \in Operations
        /\ \A at \in Places, result \in {"cancelled"} :
               [op EXCEPT !.at = at, !.result = result] \in Operations
    BY <1>1 DEF Operations
  <1>9. QED
    BY <1>2, <1>3, <1>4, <1>5, <1>6, <1>7, <1>8

\* The stream and the queue change for others of their types.
LEMMA Streams ==
    ASSUME Shape, NEW open \in BOOLEAN, NEW queue \in Seq(Jobs)
    PROVE  /\ [stream |-> open, queue |-> queue] \in Mics
           /\ [mic EXCEPT !.stream = open] \in Mics
           /\ [mic EXCEPT !.queue = queue] \in Mics
           /\ [mic EXCEPT !.stream = open, !.queue = queue] \in Mics
  BY DEF Shape, Mics

\* The calls keep it.
LEMMA BodyShape ==
    ASSUME Shape, Perceive \/ Abort \/ Body
    PROVE  Shape'
  <1> USE DEF Shape
  <1>1. CASE Perceive
    <2>1. call' \in Calls /\ calls' \in 0..MaxCalls
      BY <1>1, Bounds DEF Perceive, Calls
    <2>4. mic' \in Mics
      BY <1>1 DEF Perceive, Mics
    <2>2. op' \in Operations
      BY <1>1, Typed DEF Perceive
    <2>3. QED
      BY <1>1, <2>1, <2>2, <2>4 DEF Perceive, pipes
  <1>2. CASE Abort
    <2>1. call' \in Calls /\ manager' \in Managers
      BY <1>2 DEF Abort, Calls, Managers
    <2>2. op' \in Operations /\ asr' \in Adapters
      BY <1>2, Typed DEF Abort, Adapters
    <2>3. QED
      BY <1>2, <2>1, <2>2 DEF Abort, pipes, bounds
  <1>3. ASSUME Judge PROVE call' \in Calls /\ op' \in Operations
    BY <1>3, Typed DEF Judge, Calls
  <1>4. CASE Deadline
    <2>1. call' \in Calls /\ op' \in Operations /\ asr' \in Adapters
      BY ZenonT(60), <1>3, <1>4 DEF Deadline, Calls, Adapters
    <2>2. QED
      BY <1>4, <2>1 DEF Deadline, pipes, bounds
  <1>5. CASE AbortReturns
    BY <1>3, <1>5 DEF AbortReturns, pipes, bounds
  <1>6. CASE OpReturns
    <2>1. call' \in Calls
      BY <1>6 DEF OpReturns, Calls
    <2>2. mic' \in Mics
      <3>1. Append(mic.queue, "close") \in Seq(Jobs)
        BY DEF Mics, Jobs
      <3>2. [mic EXCEPT !.stream = FALSE, !.queue = Append(mic.queue, "close")] \in Mics
        BY <3>1, Streams
      <3>3. QED
        BY <1>6, <3>2 DEF OpReturns, CloseFrames
    <2>3. QED
      BY <1>6, <2>1, <2>2 DEF OpReturns, pipes, bounds
  <1>7. CASE CallEnds
    <2>1. call' \in Calls
      BY <1>7 DEF CallEnds, Calls
    <2>2. QED
      BY <1>7, <2>1, Typed DEF CallEnds, pipes, bounds
  <1>8. QED
    BY <1>1, <1>2, <1>4, <1>5, <1>6, <1>7 DEF Body

\* The queue of the audio thread keeps its type.
LEMMA Queues ==
    ASSUME Shape
    PROVE  /\ StartRead \/ Release => mic' \in Mics
           /\ \A job \in Jobs : Append(mic.queue, job) \in Seq(Jobs)
           /\ mic.queue # <<>> => [mic EXCEPT !.queue = Tail(mic.queue)] \in Mics
           /\ Abandoned(mic.queue) \in Seq(Jobs)
           /\ Len(Abandoned(mic.queue)) = Len(mic.queue)
           /\ \A i \in DOMAIN Abandoned(mic.queue) : Abandoned(mic.queue)[i] # "read"
  <1>1. mic.queue \in Seq(Jobs) /\ mic.stream \in BOOLEAN
    BY DEF Shape, Mics
  <1>2. /\ Abandoned(mic.queue) \in Seq(Jobs) /\ Len(Abandoned(mic.queue)) = Len(mic.queue)
        /\ \A i \in DOMAIN Abandoned(mic.queue) : Abandoned(mic.queue)[i] # "read"
    BY <1>1 DEF Abandoned, Jobs
  <1>3. /\ \A job \in Jobs : Append(mic.queue, job) \in Seq(Jobs)
        /\ Append(Abandoned(mic.queue), "close") \in Seq(Jobs)
    BY <1>1, <1>2 DEF Jobs
  <1>4. mic.queue # <<>> => Tail(mic.queue) \in Seq(Jobs)
    BY <1>1
  <1>5. StartRead \/ Release => mic' \in Mics
    <2>1. [mic EXCEPT !.queue = Append(mic.queue, "read")] \in Mics
      BY <1>3, Streams DEF Jobs
    <2>2. [stream |-> FALSE, queue |-> Append(Abandoned(mic.queue), "close")] \in Mics
      BY <1>3, Streams
    <2>3. QED
      BY <2>1, <2>2 DEF Shape, StartRead, Release
  <1>6. mic.queue # <<>> => [mic EXCEPT !.queue = Tail(mic.queue)] \in Mics
    BY <1>4, Streams
  <1>7. QED
    BY <1>2, <1>3, <1>5, <1>6

\* The operation keeps it.
LEMMA OperationShape ==
    ASSUME Shape, Operation \/ FailureUnproven
    PROVE  Shape'
  <1> USE DEF Shape
  <1>1. CASE Transcribe
    <2>1. op' \in Operations /\ mic' \in Mics
      BY <1>1, Typed, Queues DEF Transcribe, Places
    <2>2. QED
      BY <1>1, <2>1 DEF Transcribe, pipes, bounds
  <1>2. CASE OpCancelled
    <2>1. op' \in Operations /\ mic' \in Mics
      BY <1>2, Typed, Queues DEF OpCancelled, Places
    <2>2. QED
      BY <1>2, <2>1 DEF OpCancelled, pipes, bounds
  <1>3. CASE Released \/ CaptureRaised \/ FailureRaised
    BY <1>3, Typed DEF Released, CaptureRaised, FailureRaised, pipes, bounds
  <1>4. CASE SendCancel
    <2>1. op' \in Operations
      BY <1>4 DEF SendCancel, Operations, Places
    <2>2. QED
      BY <1>4, <2>1, Writes DEF SendCancel, bounds
  <1>5. ASSUME ToTerminal PROVE op' \in Operations /\ asr' \in Adapters /\ process' \in ChildStates
                               /\ toChild' \in Seq(Commands)
    BY <1>5 DEF ToTerminal, Operations, Places
  <1>6. ASSUME NEW event, Conclude(event)
        PROVE  op' \in Operations /\ asr' \in Adapters /\ process' \in ChildStates
               /\ toChild' \in Seq(Commands)
    BY <1>6, Concluding DEF ChildStates
  <1>7. CASE TakeReply
    <2>1. toParent' \in Seq(Events)
      BY <1>7, Hearing DEF TakeReply
    <2>2. CASE Event = "FRAME_ACCEPTED" /\ op.loop = "capture"
      <3>1. Accepted
        BY <1>7, <2>2 DEF TakeReply
      <3>2. op' \in Operations
        <4>1. op \in Operations
          OBVIOUS
        <4>2. ASSUME op.silence \notin {0, 1}
              PROVE  [op EXCEPT !.silence = op.silence - 1] \in Operations
          <5>1. op.silence - 1 \in 0..TerminalSilence
            BY <4>1, <4>2, Bounds DEF Operations
          <5>2. QED
            BY <4>1, <5>1 DEF Operations
        <4>3. QED
          BY <3>1, <4>1, <4>2, Typed DEF Accepted, Places
      <3>3. /\ mic' \in Mics /\ asr' \in Adapters
            /\ process' \in ChildStates /\ toChild' \in Seq(Commands)
        BY <3>1, Queues, Writes DEF Accepted
      <3>4. QED
        BY <1>7, <2>1, <3>2, <3>3 DEF TakeReply, bounds
    <2>3. CASE ~(Event = "FRAME_ACCEPTED" /\ op.loop = "capture")
      <3>1. (ToTerminal \/ Conclude(Event)) /\ UNCHANGED mic
        BY <1>7, <2>3 DEF TakeReply
      <3>2. QED
        BY <1>5, <1>6, <1>7, <2>1, <3>1 DEF TakeReply, bounds
    <2>4. QED
      BY <2>2, <2>3
  <1>8. CASE TakeEndOfInput
    <2>1. toParent' \in Seq(Events)
      BY <1>8, Hearing DEF TakeEndOfInput
    <2>2. QED
      BY <1>6, <1>8, <2>1 DEF TakeEndOfInput, bounds
  <1>9. CASE TakeLate
    <2>1. toParent' \in Seq(Events) /\ Event \in {"EOF", "stray"} \cup EventNames
      BY <1>9, Hearing DEF TakeLate
    <2>2. op' \in Operations
      BY <1>9, <2>1 DEF TakeLate, Operations, Places
    <2>3. QED
      BY <1>9, <2>1, <2>2, Queues DEF TakeLate, bounds
  <1>10. CASE Drained
    BY <1>5, <1>6, <1>10 DEF Drained, bounds
  <1>11. CASE FailureTerminated
    <2>1. op' \in Operations /\ process' \in ChildStates
      BY <1>11 DEF FailureTerminated, Operations, ChildStates
    <2>2. QED
      BY <1>11, <2>1 DEF FailureTerminated, pipes, bounds
  <1>12. CASE FailureCleaned
    <2>1. op' \in Operations /\ asr' \in Adapters
      BY <1>12 DEF FailureCleaned, Operations, Adapters, None
    <2>2. QED
      BY <1>12, <2>1 DEF FailureCleaned, pipes, bounds
  <1>13. CASE FailureUnproven
    <2>1. op' = Done("cancelled") \/ op' = Done("asr")
      BY <1>13 DEF FailureUnproven
    <2>2. op' \in Operations
      BY <2>1, Typed
    <2>3. crashes' \in Nat
      BY <1>13 DEF FailureUnproven
    <2>4. QED
      BY <1>13, <2>2, <2>3 DEF FailureUnproven, pipes
  <1>14. QED
    BY <1>1, <1>2, <1>3, <1>4, <1>7, <1>8, <1>9, <1>10, <1>11, <1>12, <1>13 DEF Operation

\* The microphone keeps it.
LEMMA MicrophoneShape ==
    ASSUME Shape, Microphone
    PROVE  Shape'
  <1> USE DEF Shape
  <1>1. CASE FrameReady
    <2>1. mic' \in Mics
      BY <1>1, Queues DEF FrameReady
    <2>2. op' \in Operations
      BY <1>1, Typed DEF FrameReady, Places
    <2>3. asr' \in Adapters /\ process' \in ChildStates
      <3>1. asr.nextId + 1 \in Nat \ {0} /\ asr.nextId \in Nat
        BY DEF Adapters
      <3>2. [asr EXCEPT !.active = asr.nextId, !.nextId = asr.nextId + 1, !.ready = FALSE,
                        !.cancel = FALSE, !.cancelSent = None] \in Adapters
        BY <3>1 DEF Adapters, None
      <3>3. QED
        BY <1>1, <3>2 DEF FrameReady, ChildStates
    <2>4. toChild' \in Seq(Commands)
      BY <1>1, Writes, Writing DEF FrameReady
    <2>5. QED
      BY <1>1, <2>1, <2>2, <2>3, <2>4 DEF FrameReady, bounds
  <1>2. CASE SourceEnds
    <2>1. mic' \in Mics
      BY <1>2, Queues DEF SourceEnds
    <2>2. op' \in Operations
      <3>1. [op EXCEPT !.at = "reply", !.silence = TerminalSilence] \in Operations
        BY Bounds DEF Operations, Places
      <3>2. QED
        BY <1>2, <3>1, Typed DEF SourceEnds
    <2>3. toChild' \in Seq(Commands)
      BY <1>2, Writes DEF SourceEnds
    <2>4. QED
      BY <1>2, <2>1, <2>2, <2>3 DEF SourceEnds, bounds
  <1>3. CASE CaptureFails
    <2>1. mic' \in Mics
      <3>1. <<"close">> \in Seq(Jobs)
        BY DEF Jobs
      <3>2. QED
        BY <1>3, <3>1, Streams DEF CaptureFails
    <2>2. QED
      BY <1>3, <2>1 DEF CaptureFails, pipes, bounds
  <1>4. CASE AudioThread
    BY <1>4, Queues DEF AudioThread, pipes, bounds
  <1>5. QED
    BY <1>1, <1>2, <1>3, <1>4 DEF Microphone

\* The child, whoever kills it, and its successor keep it.
LEMMA ChildShape ==
    ASSUME Shape, ChildSteps \/ Killing \/ Crash \/ Recovery
    PROVE  Shape'
  <1> USE DEF Shape
  <1>1. ASSUME NEW event \in EventNames, NEW id \in Nat, Say(event, id) PROVE toParent' \in Seq(Events)
    <2>1. [event |-> event, id |-> id] \in Events
      BY DEF Events
    <2>2. QED
      BY <1>1, <2>1, Adds DEF Say
  <1>2. CASE Booted
    BY <1>1, <1>2, Typed DEF Booted, bounds, EventNames, None
  <1>3. CASE ReadCommand
    <2>1. Head(toChild) \in Commands /\ toChild' \in Seq(Commands)
      BY <1>3, Takes DEF ReadCommand
    <2> DEFINE id == Head(toChild).id
    <2>2. id \in Nat
      BY <2>1 DEF Commands
    <2>3. ReadBegin(id) \/ ReadFrame(id) \/ ReadCancel(id) \/ ReadShutdown
      BY <1>3, <2>1 DEF ReadCommand, Commands
    <2> HIDE DEF id
    <2>4. /\ [Idle EXCEPT !.active = id] \in Children
          /\ [Idle EXCEPT !.life = "exited", !.native = FALSE] \in Children
          /\ [child EXCEPT !.cancelled = TRUE] \in Children
          /\ [child EXCEPT !.life = "exited", !.native = FALSE] \in Children
      BY <2>2, Typed DEF Children
    <2>5. child.frames < MaxFrames =>
             /\ [child EXCEPT !.frames = child.frames + 1] \in Children
             /\ [child EXCEPT !.frames = child.frames + 1, !.inferring = TRUE] \in Children
      <3>1. child.frames < MaxFrames => child.frames + 1 \in 0..MaxFrames
        BY Bounds DEF Children
      <3>2. QED
        BY <3>1 DEF Children
    <2>6. child' \in Children /\ toParent' \in Seq(Events)
      <3>1. ExitsNonzero => child' \in Children /\ toParent' \in Seq(Events)
        BY <2>4 DEF ExitsNonzero
      <3>2. CASE ReadBegin(id)
        BY <2>4, <3>2 DEF ReadBegin
      <3>3. CASE ReadFrame(id)
        BY <1>1, <2>2, <2>5, <3>1, <3>3, Typed DEF ReadFrame, EventNames, Terminals
      <3>4. CASE ReadCancel(id)
        BY <1>1, <2>2, <2>4, <3>1, <3>4, Typed DEF ReadCancel, EventNames, Terminals
      <3>5. CASE ReadShutdown
        BY <1>1, <2>4, <3>1, <3>5 DEF ReadShutdown, EventNames, None
      <3>6. QED
        BY <2>3, <3>2, <3>3, <3>4, <3>5
    <2>7. QED
      BY <1>3, <2>1, <2>6 DEF ReadCommand, bounds
  <1>4. CASE Inferred
    <2>1. child.active \in Nat
      BY DEF Children
    <2>2. toParent' \in Seq(Events)
      BY <1>1, <1>4, <2>1 DEF Inferred, EventNames, Terminals
    <2>3. QED
      BY <1>4, <2>2, Typed DEF Inferred, bounds
  <1>5. CASE Killing
    <2>1. child' \in Children
      BY <1>5, Typed DEF Killing, KillSupervisor, KillNative, Children
    <2>2. QED
      BY <1>5, <2>1 DEF Killing, KillSupervisor, KillNative, pipes, bounds
  <1>6. CASE Crash
    <2>1. child' \in Children /\ crashes' \in Nat
      <3>1. [Idle EXCEPT !.life = "exited"] \in Children
        BY Typed DEF Children
      <3>2. crashes + 1 \in Nat
        OBVIOUS
      <3>3. QED
        BY <1>6, <3>1, <3>2 DEF Crash
    <2>2. QED
      BY <1>6, <2>1 DEF Crash, pipes
  <1>7. CASE Rebuild
    <2>1. child' \in Children /\ manager' \in Managers
      BY <1>7, Typed DEF Rebuild, Children, Managers, Replacing
    <2>2. generation' \in 1..MaxGeneration
      BY <1>7, Bounds DEF Rebuild
    <2>3. QED
      BY <1>7, <2>1, <2>2 DEF Rebuild
  <1>8. CASE Adopted
    <2>1. asr' \in Adapters /\ process' \in ChildStates
      <3>1. 1 \in Nat \ {0}
        OBVIOUS
      <3>2. [asr EXCEPT !.destroyed = FALSE, !.nextId = 1] \in Adapters
        BY <3>1 DEF Adapters
      <3>3. QED
        BY <1>8, <3>2 DEF Adopted, ChildStates
    <2>2. manager' \in Managers /\ toParent' \in Seq(Events)
      BY <1>8, Takes DEF Adopted, Managers
    <2>3. QED
      BY <1>8, <2>1, <2>2 DEF Adopted, bounds
  <1>9. CASE StartFails \/ ReplacementKilled
    <2>1. manager' \in Managers
      BY <1>9 DEF StartFails, ReplacementKilled, Fatal, Managers, Replacing
    <2>2. QED
      BY <1>9, <2>1 DEF StartFails, ReplacementKilled, pipes, bounds
  <1>10. QED
    BY <1>2, <1>3, <1>4, <1>5, <1>6, <1>7, <1>8, <1>9 DEF ChildSteps, Recovery

\* What a forced abort changes.
LEMMA Forcing ==
    ASSUME Shape, ForceAbort
    PROVE  /\ call' \in Calls /\ call'.at = call.at
           /\ manager' \in Managers /\ asr' \in Adapters /\ op' \in {op, CancelledOp}
           /\ manager'.at \in {"level2_kill", "level2_done"}
  <1>1. call' \in Calls /\ call'.at = call.at
    BY DEF ForceAbort, Shape, Calls
  <1>2. manager' \in Managers /\ manager'.at \in {"level2_kill", "level2_done"}
    BY DEF ForceAbort, Shape, Managers
  <1>3. asr' \in Adapters /\ op' \in {op, CancelledOp}
    BY DEF ForceAbort, Shape, Adapters
  <1>4. QED
    BY <1>1, <1>2, <1>3

\* The convergence and the stop keep it.
LEMMA ManagerShape ==
    ASSUME Shape, Convergence \/ Shutdown
    PROVE  Shape'
  <1> USE DEF Shape
  <1>1. CASE Level1Cancels
    <2>1. manager' \in Managers
      BY <1>1 DEF Level1Cancels, Managers
    <2>2. QED
      BY <1>1, <2>1, Typed DEF Level1Cancels, pipes, bounds
  <1>2. CASE Level1Ends \/ Level1Expires \/ FaultConverges
    <2>1. CASE ForceAbort
      BY <1>2, <2>1, Typed, Forcing DEF Level1Ends, Level1Expires, FaultConverges, pipes, bounds
    <2>2. CASE ~ForceAbort
      <3>1. manager' \in Managers
        BY <1>2, <2>2 DEF Level1Ends, Level1Expires, FaultConverges, Managers
      <3>2. QED
        BY <1>2, <2>2, <3>1 DEF Level1Ends, Level1Expires, FaultConverges, pipes, bounds
    <2>3. QED
      BY <2>1, <2>2
  <1>3. CASE Level2Terminated \/ Level2Cleaned
    <2>1. manager' \in Managers /\ process' \in ChildStates
      BY <1>3 DEF Level2Terminated, Level2Cleaned, Managers, ChildStates
    <2>2. asr' \in Adapters
      <3>1. [asr EXCEPT !.active = None, !.ready = TRUE] \in Adapters
        BY DEF Adapters, None
      <3>2. QED
        BY <1>3, <3>1 DEF Level2Terminated, Level2Cleaned
    <2>3. QED
      BY <1>3, <2>1, <2>2, Typed DEF Level2Terminated, Level2Cleaned, pipes, bounds
  <1>4. CASE Level2Ends \/ Level2Expires
    <2>1. manager' \in Managers
      BY <1>4 DEF Level2Ends, Level2Expires, Fatal, Managers
    <2>2. call' \in Calls
      BY <1>4 DEF Level2Ends, Level2Expires, Calls
    <2>3. QED
      BY <1>4, <2>1, <2>2 DEF Level2Ends, Level2Expires, pipes, bounds
  <1>5. CASE Stop
    <2>1. manager' \in Managers
      BY <1>5 DEF Stop, Managers, Stopping
    <2>2. toChild' \in Seq(Commands)
      BY <1>5, Writes, Writing DEF Stop
    <2>3. QED
      BY <1>5, <2>1, <2>2 DEF Stop, bounds
  <1>6. CASE StopAcknowledged
    <2>1. manager' \in Managers
      BY <1>6 DEF StopAcknowledged, Managers, Stopping
    <2>2. toParent' \in Seq(Events)
      BY <1>6, Hearing DEF StopAcknowledged
    <2>3. QED
      BY <1>6, <2>1, <2>2 DEF StopAcknowledged, bounds
  <1>7. CASE StopExpires \/ Stopped
    <2>1. manager' \in Managers /\ process' \in ChildStates
      BY <1>7 DEF StopExpires, Stopped, Managers, ChildStates, Stopping
    <2>2. QED
      BY <1>7, <2>1 DEF StopExpires, Stopped, pipes, bounds
  <1>8. QED
    BY <1>1, <1>2, <1>3, <1>4, <1>5, <1>6, <1>7 DEF Convergence, Shutdown

\* Every step keeps it.
LEMMA ShapeStep ==
    ASSUME Shape, [Next]_vars
    PROVE  Shape'
  <1>1. CASE UNCHANGED vars
    BY <1>1 DEF vars, Shape
  <1>2. CASE Next
    BY <1>2, BodyShape, OperationShape, MicrophoneShape, ChildShape, ManagerShape DEF Next
  <1>3. QED
    BY <1>1, <1>2

(***************************************************************************)
(* The call and its operation.                                             *)
(***************************************************************************)
\* The operation that is cancelled stays where it is.
LEMMA Cancelling ==
    ASSUME Shape
    PROVE  /\ CancelledOp.at = op.at /\ CancelledOp.loop = op.loop /\ CancelledOp.held = op.held
           /\ CancelledOp.cancel \/ op.at \in {"none", "done"}
           /\ CancelledOp = op \/ CancelledOp.cancel
           /\ \A result : Done(result).at = "done" /\ Done(result).loop = op.loop
                          /\ Done(result).cancel = op.cancel
  BY DEF Shape, Operations, CancelledOp, OpDone, Done

\* Where the steps of an operation that hears the child lead it.
LEMMA Heeding ==
    ASSUME Shape, TakeReply \/ TakeEndOfInput \/ Drained
    PROVE  /\ op.at \in {"reply", "eof", "draining"} /\ ~op.cancel /\ ~op'.cancel
           /\ op'.at \in {"reply", "frame", "eof", "failing", "done"}
           /\ UNCHANGED <<call, child, manager, calls, generation, crashes>>
           /\ asr'.nextId = asr.nextId
           /\ op'.at = "failing" => op'.held = "kill"
           /\ \/ /\ process = "BUSY" /\ process' = "READY" /\ op'.at = "done"
                 /\ asr'.active = None /\ asr'.destroyed = asr.destroyed
                 /\ toChild' = toChild
                 /\ \/ op.at \in {"reply", "eof"} /\ Event \in Terminals /\ Hears /\ Consume
                    \/ op.at = "draining" /\ op.held \in Terminals /\ toParent' = toParent
              \/ /\ process' = process /\ asr'.active = asr.active
                 /\ asr'.destroyed = asr.destroyed
                 /\ op'.at # "done"
                 /\ \/ toChild' = toChild
                    \/ \E name \in {"FRAME", "CANCEL"} : Write(<<Cmd(name)>>)
                 /\ (Consume /\ Hears) \/ toParent' = toParent
           /\ \/ UNCHANGED mic /\ (op'.at = "reply" => op'.loop = "terminal" \/ op.at = "reply")
                               /\ (op'.at = "reply" /\ op.at # "reply" => op'.loop = "terminal")
                               /\ (op'.at = "reply" /\ op'.loop = "capture" => op.loop = "capture")
                               /\ op'.at # "frame"
              \/ StartRead /\ op.at = "reply" /\ op.loop = "capture" /\ op'.at = "frame"
  <1>1. op \in Operations /\ asr \in Adapters
    BY DEF Shape
  <1> DEFINE Good ==
           /\ ~op'.cancel
           /\ op'.at \in {"reply", "frame", "eof", "failing", "done"}
           /\ asr'.nextId = asr.nextId
           /\ op'.at = "failing" => op'.held = "kill"
           /\ process' = process /\ asr'.active = asr.active /\ asr'.destroyed = asr.destroyed
           /\ op'.at # "done"
           /\ \/ toChild' = toChild
              \/ \E name \in {"FRAME", "CANCEL"} : Write(<<Cmd(name)>>)
  <1> DEFINE Still == /\ op'.at = "reply" => op'.loop = "terminal"
                      /\ op'.at # "frame"
  <1>2. ASSUME ToTerminal, ~op.cancel PROVE Good /\ Still
    BY <1>1, <1>2 DEF ToTerminal, Operations
  <1>3. ASSUME NEW event, Conclude(event), ~op.cancel
        PROVE  /\ Still /\ ~op'.cancel /\ op'.at \in {"failing", "done"}
               /\ \/ Good
                  \/ /\ event \in Terminals /\ process = "BUSY" /\ process' = "READY"
                     /\ op'.at = "done" /\ asr'.active = None /\ asr'.destroyed = asr.destroyed
                     /\ toChild' = toChild /\ asr'.nextId = asr.nextId
    <2>1. CASE op' = [op EXCEPT !.at = "failing", !.held = "kill"] /\ UNCHANGED <<asr, process>>
      BY <1>1, <1>3, <2>1, Concluding DEF Operations
    <2>2. CASE /\ event \in Terminals /\ process = "BUSY" /\ process' = "READY"
               /\ asr' = [asr EXCEPT !.active = None, !.ready = TRUE]
               /\ \E result \in {"rejected", "text"} : op' = Done(result)
      <3>1. op'.at = "done" /\ op'.cancel = op.cancel
        BY <2>2, Cancelling
      <3>2. asr'.active = None /\ asr'.destroyed = asr.destroyed /\ asr'.nextId = asr.nextId
        BY <1>1, <2>2 DEF Adapters
      <3>3. QED
        BY <1>3, <2>2, <3>1, <3>2, Concluding
    <2>3. QED
      BY <1>3, <2>1, <2>2, Concluding
  <1>4. CASE TakeReply
    <2>1. CASE Event = "FRAME_ACCEPTED" /\ op.loop = "capture"
      <3>1. Accepted
        BY <1>4, <2>1 DEF TakeReply
      <3>2. \/ /\ op' = [op EXCEPT !.at = "frame"] /\ StartRead
               /\ UNCHANGED <<asr, process, toChild>>
            \/ op' = [op EXCEPT !.at = "eof"] /\ CancelOnce /\ UNCHANGED <<mic, process>>
            \/ /\ op' = [op EXCEPT !.silence = @ - 1] /\ Write(<<Cmd("FRAME")>>)
               /\ UNCHANGED <<mic, asr, process>>
        BY <3>1 DEF Accepted
      <3>3. CancelOnce => /\ asr'.active = asr.active /\ asr'.destroyed = asr.destroyed
                          /\ asr'.nextId = asr.nextId
                          /\ toChild' = toChild \/ Write(<<Cmd("CANCEL")>>)
        BY <1>1 DEF CancelOnce, Adapters
      <3>4. QED
        BY <1>1, <1>4, <2>1, <3>2, <3>3 DEF TakeReply, Operations, bounds
    <2>2. CASE ~(Event = "FRAME_ACCEPTED" /\ op.loop = "capture")
      <3>1. (ToTerminal \/ Conclude(Event)) /\ UNCHANGED mic
        BY <1>4, <2>2 DEF TakeReply
      <3> HIDE DEF Good, Still
      <3>2. CASE ToTerminal
        <4>1. Good /\ Still
          BY <1>2, <1>4, <3>2 DEF TakeReply
        <4>2. QED
          BY <1>4, <3>1, <4>1 DEF TakeReply, bounds, Good, Still
      <3>3. CASE Conclude(Event)
        BY <1>3, <1>4, <3>1, <3>3 DEF TakeReply, bounds, Good, Still
      <3>4. QED
        BY <3>1, <3>2, <3>3
    <2>3. QED
      BY <2>1, <2>2
  <1> HIDE DEF Good, Still
  <1>5. CASE TakeEndOfInput
    BY <1>3, <1>5 DEF TakeEndOfInput, bounds, Good, Still
  <1>6. CASE Drained
    <2>1. CASE ToTerminal
      <3>1. Good /\ Still
        BY <1>2, <1>6, <2>1 DEF Drained
      <3>2. QED
        BY <1>6, <3>1 DEF Drained, bounds, Good, Still
    <2>2. CASE Conclude(op.held)
      BY <1>3, <1>6, <2>2 DEF Drained, bounds, Good, Still
    <2>3. QED
      BY <1>6, <2>1, <2>2 DEF Drained
  <1>7. QED
    BY <1>4, <1>5, <1>6

\* A call and its operation end in order.
LEMMA PlacedStep ==
    ASSUME Shape, Placed, [Next]_vars
    PROVE  Placed'
  <1> USE DEF Placed
  <1>1. /\ call \in Calls /\ op \in Operations /\ manager \in Managers
        /\ CancelledOp.at = op.at
    BY Cancelling DEF Shape
  <1>2. CASE UNCHANGED vars
    BY <1>2 DEF vars
  <1>3. CASE Perceive \/ Abort \/ Deadline \/ AbortReturns \/ OpReturns \/ CallEnds
    <2>1. CASE Perceive \/ Abort
      BY <1>1, <2>1 DEF Perceive, Abort, Calls, Operations, NoOp, Managers, Stopping, Replacing
    <2>2. CASE Deadline \/ AbortReturns
      BY <1>1, <2>2 DEF Deadline, AbortReturns, Judge, Calls
    <2>3. CASE OpReturns
      BY <1>1, <2>3 DEF OpReturns, Calls, Managers
    <2>4. CASE CallEnds
      BY <1>1, <2>4 DEF CallEnds, Calls, NoOp
    <2>5. QED
      BY <1>3, <2>1, <2>2, <2>3, <2>4
  <1>4. CASE TakeReply \/ TakeEndOfInput \/ Drained
    BY <1>4, Heeding
  <1>5. CASE \/ Transcribe \/ OpCancelled \/ Released \/ SendCancel \/ TakeLate \/ CaptureRaised
             \/ FailureTerminated \/ FailureCleaned \/ FailureRaised \/ FailureUnproven
    BY <1>1, <1>5 DEF Transcribe, OpCancelled, Released, SendCancel, TakeLate, CaptureRaised,
       FailureTerminated, FailureCleaned, FailureRaised, FailureUnproven, Done, Operations, Places
  <1>6. CASE Microphone
    BY <1>1, <1>6 DEF Microphone, FrameReady, SourceEnds, CaptureFails, AudioThread, Done, Operations,
       Places
  <1>7. CASE ChildSteps \/ Killing \/ Crash
    <2>1. UNCHANGED <<call, op, manager>>
      BY <1>7 DEF ChildSteps, Booted, ReadCommand, Inferred, Killing, KillSupervisor, KillNative,
         Crash
    <2>2. QED
      BY <2>1
  <1>8. CASE Level1Cancels \/ Level2Terminated \/ Level2Cleaned \/ Level2Ends \/ Level2Expires
    BY ZenonT(60), <1>1, <1>8 DEF Level1Cancels, Level2Terminated, Level2Cleaned, Level2Ends, Level2Expires,
       Fatal, Calls, Managers, Stopping, Replacing
  <1>9. CASE Level1Ends \/ Level1Expires \/ FaultConverges
    <2>1. CASE ForceAbort
      BY <1>1, <2>1, Forcing DEF Stopping, Replacing
    <2>2. CASE ~ForceAbort
      BY <1>1, <1>9, <2>2 DEF Level1Ends, Level1Expires, FaultConverges, Managers, Stopping, Replacing
    <2>3. QED
      BY <2>1, <2>2
  <1>10. CASE Recovery \/ Shutdown
    BY <1>1, <1>10 DEF Recovery, Rebuild, Adopted, StartFails, ReplacementKilled, Shutdown, Stop,
       StopAcknowledged, StopExpires, Stopped, Fatal, Managers, Stopping, Replacing
  <1>11. QED
    BY <1>2, <1>3, <1>4, <1>5, <1>6, <1>7, <1>8, <1>9, <1>10
    DEF Next, Body, Operation, Convergence

(***************************************************************************)
(* Allocation: the requests are fewer than the calls.                      *)
(***************************************************************************)
\* An operation allocates one request, on a child that is ready for it.
LEMMA AllocatedStep ==
    ASSUME Shape, Placed, Allocated, Ready, Boots, Remembered, [Next]_vars
    PROVE  Allocated'
  <1> USE DEF Allocated, Fresh, Speaking
  <1>1. /\ call \in Calls /\ op \in Operations /\ manager \in Managers /\ asr \in Adapters
        /\ calls \in Nat /\ asr.nextId \in Nat /\ asr.active \in Nat /\ asr.nextId # 0
        /\ CancelledOp.at = op.at /\ (CancelledOp = op \/ CancelledOp.cancel)
        /\ CancelledOp.cancel \/ op.at \in {"none", "done"}
    BY Cancelling, Bounds DEF Shape, Adapters
  <1>2. CASE UNCHANGED vars
    BY <1>2 DEF vars
  <1>3. CASE Perceive
    BY <1>1, <1>3 DEF Perceive, NoOp
  <1>4. CASE Abort
    <2>1. asr'.active = asr.active /\ asr'.nextId = asr.nextId /\ UNCHANGED <<process, calls>>
      BY <1>1, <1>4 DEF Abort, Adapters, bounds
    <2>2. Abortable => process = "BUSY"
      BY DEF Abortable
    <2>3. CASE Abortable
      BY <1>1, <1>4, <2>1, <2>2, <2>3 DEF Abort
    <2>4. CASE ~Abortable
      BY <1>1, <1>4, <2>1, <2>4 DEF Abort
    <2>5. QED
      BY <2>3, <2>4
  <1>5. CASE Deadline \/ AbortReturns \/ OpReturns \/ CallEnds
    <2>1. /\ asr'.active = asr.active /\ asr'.nextId = asr.nextId
          /\ UNCHANGED <<process, calls, manager>>
          /\ op' \in {op, CancelledOp, NoOp}
      BY <1>1, <1>5 DEF Deadline, AbortReturns, Judge, OpReturns, CallEnds, Adapters, bounds
    <2>2. QED
      BY <1>1, <2>1 DEF NoOp
  <1>6. CASE TakeReply \/ TakeEndOfInput \/ Drained
    BY <1>1, <1>6, Heeding DEF None
  <1>7. CASE Transcribe
    BY <1>1, <1>7 DEF Transcribe, Done, Operations, Places, bounds
  <1>8. CASE OpCancelled \/ Released \/ SendCancel \/ TakeLate \/ CaptureRaised
    <2>1. /\ asr'.active = asr.active /\ asr'.nextId = asr.nextId
          /\ UNCHANGED <<process, calls, manager>>
      BY <1>1, <1>8 DEF OpCancelled, Released, SendCancel, CancelOnce, TakeLate, CaptureRaised,
         Adapters, bounds
    <2>2. op'.cancel = op.cancel /\ op'.at \notin {"begin", "first"}
      <3>1. CASE OpCancelled
        BY <1>1, <3>1 DEF OpCancelled, Done, Operations
      <3>2. CASE Released \/ CaptureRaised
        BY <1>1, <3>2 DEF Released, CaptureRaised, Done, Operations
      <3>3. CASE SendCancel \/ TakeLate
        BY <1>1, <3>3 DEF SendCancel, TakeLate, Operations
      <3>4. QED
        BY <1>8, <3>1, <3>2, <3>3
    <2>3. op'.at \in {"reply", "frame", "late", "eof", "draining"} /\ ~op.cancel =>
             op.at \in {"reply", "frame", "late", "eof", "draining"}
      BY <1>1, <1>8 DEF OpCancelled, Released, SendCancel, TakeLate, CaptureRaised, Done, Operations
    <2>4. QED
      BY <1>1, <2>1, <2>2, <2>3
  <1>9. CASE FailureTerminated \/ FailureCleaned \/ FailureRaised \/ FailureUnproven
    <2>1. op.at = "failing" /\ op'.at \in {"failing", "done"}
      BY <1>1, <1>9 DEF FailureTerminated, FailureCleaned, FailureRaised, FailureUnproven, Done,
         Operations
    <2>2. asr'.nextId = asr.nextId /\ asr'.active \in {asr.active, 0} /\ calls' = calls
      BY <1>1, <1>9 DEF FailureTerminated, FailureCleaned, FailureRaised, FailureUnproven,
         Adapters, None, bounds
    <2>3. QED
      BY <1>1, <2>1, <2>2
  <1>10. CASE FrameReady
    <2>1. CASE op.at = "first"
      <3>1. op'.at = "reply" /\ asr'.active = asr.nextId /\ asr'.nextId = asr.nextId + 1
        BY <1>1, <1>10, <2>1 DEF FrameReady, Operations, Adapters
      <3>2. calls' = calls
        BY <1>10 DEF FrameReady, bounds
      <3>3. QED
        BY <1>1, <2>1, <3>1, <3>2 DEF None
    <2>2. CASE op.at # "first"
      BY <1>1, <1>10, <2>2 DEF FrameReady, Operations, bounds
    <2>3. QED
      BY <2>1, <2>2
  <1>11. CASE SourceEnds \/ CaptureFails \/ AudioThread
    BY <1>1, <1>11 DEF SourceEnds, CaptureFails, AudioThread, Done, Operations, bounds
  <1>12. CASE ChildSteps \/ Killing \/ Crash
    BY <1>12 DEF ChildSteps, Booted, ReadCommand, Inferred, Killing, KillSupervisor, KillNative,
       Crash, bounds
  <1>13. CASE Level1Cancels
    BY <1>1, <1>13 DEF Level1Cancels, bounds
  <1>14. CASE Level1Ends \/ Level1Expires \/ FaultConverges
    <2>1. /\ asr'.active = asr.active /\ asr'.nextId = asr.nextId /\ op' \in {op, CancelledOp}
          /\ UNCHANGED <<process, calls>>
      BY <1>1, <1>14 DEF Level1Ends, Level1Expires, FaultConverges, ForceAbort, Adapters, bounds
    <2>2. manager.at # "idle" \/ op.at = "none"
      BY <1>14 DEF Level1Ends, Level1Expires, FaultConverges, Placed
    <2>3. QED
      BY <1>1, <2>1, <2>2
  <1>15. CASE Level2Terminated \/ Level2Cleaned
    <2>1. /\ asr'.nextId = asr.nextId /\ asr'.active \in {asr.active, 0} /\ calls' = calls
          /\ asr'.active = asr.active \/ op' = CancelledOp
          /\ op' \in {op, CancelledOp} /\ (process' = process \/ process' = "DESTROYED")
          /\ manager.at # "idle"
      BY <1>1, <1>15 DEF Level2Terminated, Level2Cleaned, Adapters, None, bounds
    <2>2. QED
      BY <1>1, <2>1
  <1>16. CASE Level2Ends \/ Level2Expires
    <2>1. UNCHANGED <<asr, op, process, calls>> /\ manager.at # "idle"
      BY <1>16 DEF Level2Ends, Level2Expires, bounds
    <2>2. QED
      BY <1>1, <2>1
  <1>17. CASE Rebuild \/ StartFails \/ ReplacementKilled \/ Shutdown
    <2>1. UNCHANGED <<asr, op, calls>> /\ op.at = "none"
      BY <1>17 DEF Rebuild, StartFails, ReplacementKilled, Shutdown, Stop, StopAcknowledged,
         StopExpires, Stopped, bounds, Placed, Stopping, Replacing
    <2>2. QED
      BY <1>1, <2>1
  <1>18. CASE Adopted
    <2>1. op.at = "none" /\ op' = op /\ calls' = calls
      BY <1>18 DEF Adopted, Placed, Replacing, bounds
    <2>2. asr.active = 0
      BY <1>18, <2>1 DEF Adopted, Boots, Remembered, Replacing, Cleaning, None
    <2>3. asr'.active = asr.active /\ asr'.nextId = 1
      BY <1>1, <1>18 DEF Adopted, Adapters
    <2>4. QED
      BY <1>1, <2>1, <2>2, <2>3
  <1>19. QED
    BY <1>2, <1>3, <1>4, <1>5, <1>6, <1>7, <1>8, <1>9, <1>10, <1>11, <1>12, <1>13, <1>14, <1>15,
       <1>16, <1>17, <1>18
    DEF Next, Body, Operation, Microphone, Convergence, Recovery

(***************************************************************************)
(* Destruction.                                                            *)
(***************************************************************************)
\* What is gone has left nobody behind.
LEMMA GoneStep ==
    ASSUME Shape, Boots, Gone, [Next]_vars
    PROVE  Gone'
  <1> USE DEF Gone
  <1>1. child \in Children /\ manager \in Managers
    BY DEF Shape
  <1>2. CASE UNCHANGED vars
    BY <1>2 DEF vars, GroupDead
  <1>3. CASE \/ Perceive \/ Abort \/ Body \/ FailureCleaned \/ FailureRaised \/ FailureUnproven
             \/ Transcribe \/ OpCancelled \/ Released \/ SendCancel \/ TakeLate \/ CaptureRaised
             \/ Microphone
    <2>1. child' = child /\ process' \in {process, "BUSY"}
      BY <1>3 DEF Perceive, Abort, Body, Deadline, AbortReturns, OpReturns, CallEnds, FailureCleaned,
         FailureRaised, FailureUnproven, Transcribe, OpCancelled, Released, SendCancel, TakeLate,
         CaptureRaised, Microphone, FrameReady, SourceEnds, CaptureFails, AudioThread
    <2>2. manager.at \in Replacing => manager' = manager
      BY <1>3 DEF Perceive, Abort, Body, Deadline, AbortReturns, OpReturns, CallEnds, FailureCleaned,
         FailureRaised, FailureUnproven, Transcribe, OpCancelled, Released, SendCancel, TakeLate,
         CaptureRaised, Microphone, FrameReady, SourceEnds, CaptureFails, AudioThread, Replacing
    <2>3. QED
      BY <2>1, <2>2 DEF GroupDead
  <1>4. CASE TakeReply \/ TakeEndOfInput \/ Drained
    <2>1. child' = child /\ manager' = manager /\ process' \in {process, "READY"}
      BY <1>4, Heeding
    <2>2. QED
      BY <2>1 DEF GroupDead
  <1>5. CASE FailureTerminated \/ Level2Terminated
    BY <1>5 DEF FailureTerminated, Level2Terminated, GroupDead
  <1>6. CASE ChildSteps
    <2>1. UNCHANGED <<process, manager>> /\ child.life \in {"booting", "up"}
      BY <1>6 DEF ChildSteps, Booted, ReadCommand, Inferred
    <2>2. QED
      BY <2>1 DEF GroupDead
  <1>7. CASE Killing \/ Crash
    <2>1. /\ UNCHANGED <<process, manager>>
          /\ child'.life \in {child.life, "exited"} /\ (child'.native => child.native)
      BY <1>1, <1>7 DEF Killing, KillSupervisor, KillNative, Crash, Idle, Children
    <2>2. QED
      BY <2>1 DEF GroupDead
  <1>8. CASE Level1Cancels \/ Level1Ends \/ Level1Expires \/ FaultConverges \/ Level2Cleaned
             \/ Level2Ends \/ Level2Expires \/ Stop \/ StopAcknowledged \/ StopExpires
    BY <1>8 DEF Level1Cancels, Level1Ends, Level1Expires, FaultConverges, Level2Cleaned, Level2Ends,
       Level2Expires, Stop, StopAcknowledged, StopExpires, GroupDead, Replacing
  <1>9. CASE Rebuild \/ Adopted \/ StartFails
    BY <1>1, <1>9 DEF Rebuild, Adopted, StartFails, Replacing, Managers
  <1>10. CASE ReplacementKilled \/ Stopped
    BY <1>10 DEF ReplacementKilled, Stopped, GroupDead
  <1>11. QED
    BY <1>2, <1>3, <1>4, <1>5, <1>6, <1>7, <1>8, <1>9, <1>10
    DEF Next, Operation, Convergence, Recovery, Shutdown


\* A forced abort always has something to report.
LEMMA ForcedStep ==
    ASSUME Shape, Forced, [Next]_vars
    PROVE  Forced'
  <1> USE DEF Forced
  <1>1. manager \in Managers
    BY DEF Shape
  <1>2. CASE manager' = manager
    BY <1>2
  <1>3. CASE Abort \/ Level1Cancels \/ Level2Terminated \/ Level2Cleaned
    BY <1>1, <1>3 DEF Abort, Level1Cancels, Level2Terminated, Level2Cleaned, Managers
  <1>4. CASE Level1Ends \/ Level1Expires \/ FaultConverges
    BY <1>1, <1>4 DEF Level1Ends, Level1Expires, FaultConverges, ForceAbort, Managers
  <1>5. CASE Level2Ends \/ Level2Expires
    BY <1>1, <1>5 DEF Level2Ends, Level2Expires, Fatal, Managers
  <1>6. CASE Recovery \/ Shutdown
    BY <1>1, <1>6 DEF Recovery, Rebuild, Adopted, StartFails, ReplacementKilled, Shutdown, Stop,
       StopAcknowledged, StopExpires, Stopped, Fatal, Managers
  <1>7. manager' = manager \/ Abort \/ Convergence \/ Recovery \/ Shutdown
    <2>1. ASSUME Body \/ Microphone PROVE manager' = manager
      BY <2>1 DEF Body, Deadline, AbortReturns, OpReturns, CallEnds, Microphone, FrameReady,
         SourceEnds, CaptureFails, AudioThread
    <2>2. ASSUME Operation \/ FailureUnproven PROVE manager' = manager
      BY <2>2, Heeding DEF Operation, Transcribe, OpCancelled, Released, SendCancel, TakeLate,
         CaptureRaised, FailureTerminated, FailureCleaned, FailureRaised, FailureUnproven
    <2>3. ASSUME Perceive \/ ChildSteps \/ Killing \/ Crash PROVE manager' = manager
      BY <2>3 DEF Perceive, ChildSteps, Booted, ReadCommand, Inferred, Killing, KillSupervisor,
         KillNative, Crash
    <2>4. QED
      BY <2>1, <2>2, <2>3 DEF Next, vars
  <1>8. QED
    BY <1>2, <1>3, <1>4, <1>5, <1>6, <1>7 DEF Convergence

\* A destruction that nobody has answered for stays on record.
LEMMA RememberedStep ==
    ASSUME Shape, Placed, Allocated, Ready, StopsReady, Boots, Forced, Remembered, [Next]_vars
    PROVE  Remembered'
  <1> USE DEF Remembered, Cleaning, Reported, Replacing
  <1>1. /\ call \in Calls /\ op \in Operations /\ manager \in Managers /\ asr \in Adapters
        /\ CancelledOp.at = op.at /\ CancelledOp.held = op.held
    BY Cancelling DEF Shape
  <1>2. CASE UNCHANGED <<process, op, manager>> /\ asr'.active = asr.active
             /\ asr'.destroyed = asr.destroyed
    BY <1>2
  <1>3. CASE Perceive
    BY <1>1, <1>3 DEF Perceive, Placed, NoOp
  <1>4. CASE Abort
    BY <1>1, <1>4 DEF Abort, Abortable, Adapters, Managers
  <1>5. CASE Body
    <2>1. /\ asr'.active = asr.active /\ asr'.destroyed = asr.destroyed
          /\ UNCHANGED <<process, manager>>
          /\ op' \in {op, CancelledOp} \/ op.at = "done"
      BY <1>1, <1>5 DEF Body, Deadline, AbortReturns, Judge, OpReturns, CallEnds, Adapters, Placed
    <2>2. QED
      BY <1>1, <2>1
  <1>6. CASE TakeReply \/ TakeEndOfInput \/ Drained
    <2>1. /\ op.at \in {"reply", "eof", "draining"} /\ manager' = manager
          /\ process' = process => asr'.active = asr.active
          /\ process' = process \/ process' = "READY"
          /\ asr'.destroyed = asr.destroyed
      BY <1>6, Heeding
    <2>2. QED
      BY <2>1
  <1>7. CASE \/ Transcribe \/ OpCancelled \/ Released \/ SendCancel \/ TakeLate \/ CaptureRaised
             \/ SourceEnds \/ CaptureFails \/ AudioThread
    <2>1. UNCHANGED <<process, manager>>
      BY <1>7 DEF Transcribe, OpCancelled, Released, SendCancel, TakeLate, CaptureRaised, SourceEnds,
         CaptureFails, AudioThread
    <2>2. asr'.active = asr.active /\ asr'.destroyed = asr.destroyed
      BY <1>1, <1>7 DEF Transcribe, OpCancelled, Released, SendCancel, CancelOnce, TakeLate,
         CaptureRaised, SourceEnds, CaptureFails, AudioThread, Adapters
    <2>3. op.at # "failing" \/ op' = op
      BY <1>7 DEF Transcribe, OpCancelled, Released, SendCancel, TakeLate, CaptureRaised, SourceEnds,
         CaptureFails, AudioThread
    <2>4. QED
      BY <2>1, <2>2, <2>3
  <1>8. CASE FailureTerminated \/ FailureCleaned
    BY <1>1, <1>8 DEF FailureTerminated, FailureCleaned, Operations, Adapters, None
  <1>9. CASE FailureRaised \/ FailureUnproven
    <2>1. UNCHANGED <<process, manager, asr>> /\ ~Cleaning
      BY <1>9 DEF FailureRaised, FailureUnproven
    <2>2. QED
      BY <2>1
  <1>10. CASE FrameReady
    <2>1. CASE op.at = "first"
      BY <2>1, <1>10 DEF FrameReady
    <2>2. CASE op.at # "first"
      <3>1. UNCHANGED <<process, manager, asr>> /\ op.at # "failing"
        BY <1>10, <2>2 DEF FrameReady
      <3>2. QED
        BY <3>1
    <2>3. QED
      BY <2>1, <2>2
  <1>11. CASE ChildSteps \/ Killing \/ Crash
    <2>1. UNCHANGED <<process, op, manager, asr>>
      BY <1>11 DEF ChildSteps, Booted, ReadCommand, Inferred, Killing, KillSupervisor, KillNative,
         Crash
    <2>2. QED
      BY <2>1
  <1>12. CASE Level1Cancels \/ Level2Terminated
    BY <1>1, <1>12 DEF Level1Cancels, Level2Terminated, Managers
  <1>13. CASE Level1Ends \/ Level1Expires \/ FaultConverges
    <2>1. CASE ForceAbort
      <3>1. manager.at \in {"idle", "level1_abort", "level1_done"} /\ process' = process
        BY <1>13 DEF Level1Ends, Level1Expires, FaultConverges
      <3>2. CASE process = "DESTROYED"
        <4>1. CASE call.at = "idle" /\ call.fault = NoFault
          <5>1. manager'.at = "level2_done" /\ op' = op /\ asr' = asr
            BY <1>1, <2>1, <4>1 DEF ForceAbort, Managers
          <5>2. QED
            BY <1>1, <3>1, <3>2, <5>1
        <4>2. CASE ~(call.at = "idle" /\ call.fault = NoFault)
          <5>1. /\ manager'.at = "level2_done" /\ op' = CancelledOp /\ asr'.active = asr.active
                /\ asr.destroyed => manager'.report # {}
            BY ZenonT(60), <1>1, <2>1, <3>2, <4>2 DEF ForceAbort, Managers, Adapters
          <5>2. QED
            BY <1>1, <3>1, <3>2, <5>1
        <4>3. QED
          BY <4>1, <4>2
      <3>3. QED
        BY <3>1, <3>2
    <2>2. CASE ~ForceAbort
      BY <1>1, <1>13, <2>2 DEF Level1Ends, Level1Expires, FaultConverges, Managers
    <2>3. QED
      BY <2>1, <2>2
  <1>14. CASE Level2Cleaned
    BY <1>1, <1>14 DEF Level2Cleaned, Forced, Managers, Adapters, None
  <1>15. CASE Level2Ends
    BY <1>1, <1>15 DEF Level2Ends, Fatal, Managers, Placed
  <1>16. CASE Level2Expires
    BY <1>1, <1>16 DEF Level2Expires, Fatal, Managers
  <1>17. CASE Recovery
    <2>1. op.at = "none" \/ ReplacementKilled
      BY <1>17 DEF Recovery, Rebuild, Adopted, StartFails, Placed, Replacing
    <2>2. QED
      BY <1>1, <1>17, <2>1 DEF Recovery, Rebuild, Adopted, StartFails, ReplacementKilled, Fatal,
         Replacing, Managers
  <1>18. CASE Shutdown
    <2>1. /\ UNCHANGED <<asr, op>> /\ op.at = "none"
          /\ manager.at \in {"idle"} \cup Stopping
      BY <1>18 DEF Shutdown, Stop, StopAcknowledged, StopExpires, Stopped, Placed, Stopping
    <2>2. CASE Stop
      BY <1>1, <2>1, <2>2 DEF Stop, Managers
    <2>3. CASE StopAcknowledged \/ StopExpires
      BY <1>1, <2>1, <2>3 DEF StopAcknowledged, StopExpires, StopsReady
    <2>4. CASE Stopped
      BY <1>1, <2>1, <2>4 DEF Stopped, StopsReady, Ready, Managers
    <2>5. QED
      BY <1>18, <2>2, <2>3, <2>4 DEF Shutdown
  <1>19. QED
    BY <1>2, <1>3, <1>4, <1>5, <1>6, <1>7, <1>8, <1>9, <1>10, <1>11, <1>12, <1>13, <1>14, <1>15,
       <1>16, <1>17, <1>18
    DEF Next, vars, Operation, Microphone, Convergence

(***************************************************************************)
(* The microphone.                                                         *)
(***************************************************************************)
\* The next job leaves the queue.
LEMMA QueueTail ==
    ASSUME NEW q \in Seq(Jobs), q # <<>>, OneRead(q)
    PROVE  /\ Tail(q) \in Seq(Jobs) /\ OneRead(Tail(q))
           /\ Behind(q) => Behind(Tail(q))
           /\ \A i \in DOMAIN Tail(q) : i + 1 \in DOMAIN q /\ Tail(q)[i] = q[i + 1]
           /\ Head(q) = "read" => \A i \in DOMAIN Tail(q) : Tail(q)[i] # "read"
  <1>1. /\ Tail(q) \in Seq(Jobs) /\ Head(q) = q[1] /\ 1 \in DOMAIN q
        /\ Len(q) \in Nat /\ DOMAIN q = 1..Len(q) /\ DOMAIN Tail(q) = 1..(Len(q) - 1)
        /\ \A i \in DOMAIN Tail(q) : i + 1 \in DOMAIN q /\ Tail(q)[i] = q[i + 1] /\ i \in Nat
        /\ \A i \in DOMAIN q : i # 1 => i - 1 \in DOMAIN Tail(q) /\ Tail(q)[i - 1] = q[i]
    BY Takes
  <1>2. OneRead(Tail(q))
    BY <1>1 DEF OneRead
  <1>3. ASSUME Behind(q) PROVE Behind(Tail(q))
    <2>1. ASSUME NEW i \in DOMAIN Tail(q), Tail(q)[i] = "read"
          PROVE  \E j \in DOMAIN Tail(q) : j > i /\ Tail(q)[j] = "close"
      <3>1. PICK j \in DOMAIN q : j > i + 1 /\ q[j] = "close"
        BY <1>1, <1>3, <2>1 DEF Behind
      <3>2. j - 1 \in DOMAIN Tail(q) /\ j - 1 > i /\ Tail(q)[j - 1] = "close"
        BY <1>1, <2>1, <3>1
      <3>3. QED
        BY <3>2
    <2>2. QED
      BY <2>1 DEF Behind
  <1>4. Head(q) = "read" => \A i \in DOMAIN Tail(q) : Tail(q)[i] # "read"
    BY <1>1 DEF OneRead
  <1>5. QED
    BY <1>1, <1>2, <1>3, <1>4

\* A close comes behind everything, and a read only where there is none.
LEMMA QueueAppend ==
    ASSUME NEW q \in Seq(Jobs)
    PROVE  /\ Behind(Append(q, "close"))
           /\ OneRead(q) => OneRead(Append(q, "close"))
           /\ (\A i \in DOMAIN q : q[i] # "read") =>
                  /\ \A i \in DOMAIN Append(q, "close") : Append(q, "close")[i] # "read"
                  /\ OneRead(Append(q, "read"))
  <1>1. "close" \in Jobs /\ "read" \in Jobs
    BY DEF Jobs
  <1> DEFINE c == Append(q, "close")
             r == Append(q, "read")
  <1>2. /\ Len(q) \in Nat /\ DOMAIN q = 1..Len(q) /\ DOMAIN c = 1..Len(q) + 1
        /\ c[Len(q) + 1] = "close" /\ \A i \in DOMAIN q : c[i] = q[i]
    BY <1>1, Adds
  <1>3. /\ DOMAIN r = 1..Len(q) + 1
        /\ r[Len(q) + 1] = "read" /\ \A i \in DOMAIN q : r[i] = q[i]
    BY <1>1, Adds
  <1> HIDE DEF c, r
  <1>4. \A i \in DOMAIN c : i # Len(q) + 1 => i \in DOMAIN q /\ i < Len(q) + 1
    BY <1>2
  <1>5. \A i \in DOMAIN r : i # Len(q) + 1 => i \in DOMAIN q
    BY <1>2, <1>3
  <1>6. Behind(c)
    <2>1. Len(q) + 1 \in DOMAIN c
      BY <1>2
    <2>2. QED
      BY <1>2, <1>4, <2>1 DEF Behind
  <1>7. OneRead(q) => OneRead(c)
    BY <1>2, <1>4 DEF OneRead
  <1>8. (\A i \in DOMAIN q : q[i] # "read") => OneRead(r) /\ \A i \in DOMAIN c : c[i] # "read"
    BY <1>2, <1>3, <1>4, <1>5 DEF OneRead
  <1>9. QED
    BY <1>6, <1>7, <1>8 DEF c, r

\* Giving the stream back leaves no awaited read.
LEMMA Releasing ==
    ASSUME Shape, OneRead(mic.queue), Release
    PROVE  /\ ~Reading' /\ OneRead(mic'.queue) /\ (mic'.stream => mic.stream)
           /\ (~mic.stream => Behind(mic.queue)) => (~mic'.stream => Behind(mic'.queue))
  <1>1. mic \in Mics /\ mic.queue \in Seq(Jobs)
    BY DEF Shape, Mics
  <1>2. CASE ~Reading
    BY <1>1, <1>2 DEF Release, Reading, Queued
  <1>3. CASE Reading
    <2> DEFINE q == Abandoned(mic.queue)
    <2>1. q \in Seq(Jobs) /\ \A i \in DOMAIN q : q[i] # "read"
      BY <1>1 DEF Abandoned, Jobs
    <2>2. mic' = [stream |-> FALSE, queue |-> Append(q, "close")]
      BY <1>3 DEF Release
    <2> HIDE DEF q
    <2>3. /\ Behind(Append(q, "close"))
          /\ \A i \in DOMAIN Append(q, "close") : Append(q, "close")[i] # "read"
      BY <2>1, QueueAppend
    <2>4. QED
      BY <2>2, <2>3 DEF Reading, Queued, OneRead
  <1>4. QED
    BY <1>2, <1>3

\* Every step keeps the order of the microphone's jobs.
LEMMA MicStep ==
    ASSUME Shape, Placed, MicInv, [Next]_vars
    PROVE  MicInv'
  <1> USE DEF MicInv
  <1>1. /\ call \in Calls /\ op \in Operations /\ mic \in Mics /\ mic.queue \in Seq(Jobs)
        /\ CancelledOp.at = op.at /\ CancelledOp.loop = op.loop
    BY Cancelling DEF Shape, Mics
  <1>2. CASE /\ UNCHANGED mic /\ call'.at = call.at
             /\ op'.at = op.at /\ op'.loop = op.loop
    BY <1>2 DEF Reading, Queued
  <1>3. CASE Perceive
    BY <1>1, <1>3 DEF Perceive, NoOp, Placed, Reading, Queued, Mics
  <1>4. CASE Deadline \/ AbortReturns
    BY ZenonT(60), <1>1, <1>4 DEF Deadline, AbortReturns, Judge, Calls, Reading, Queued
  <1>5. CASE OpReturns
    <2>1. op' = op /\ op.at = "done" /\ call'.at = "closing" /\ ~Reading
      BY <1>1, <1>5 DEF OpReturns, Calls
    <2>2. mic'.stream = FALSE /\ mic'.queue \in {mic.queue, Append(mic.queue, "close")}
          /\ (mic.stream => mic'.queue = Append(mic.queue, "close"))
          /\ (~mic.stream => mic'.queue = mic.queue)
      BY <1>1, <1>5 DEF OpReturns, CloseFrames, Mics
    <2>3. QED
      BY <1>1, <2>1, <2>2, QueueAppend DEF Reading, Queued
  <1>6. CASE CallEnds
    BY <1>1, <1>6 DEF CallEnds, Calls, NoOp, Reading, Queued, Placed
  <1>7. CASE Transcribe
    <2>1. op.at = "begin" /\ ~Reading /\ mic.stream /\ call' = call
      BY <1>7 DEF Transcribe
    <2>2. CASE op'.at = "done" /\ UNCHANGED mic
      BY <2>1, <2>2 DEF Reading, Queued
    <2>3. CASE op'.at = "first" /\ StartRead
      <3>1. mic'.stream = mic.stream /\ mic'.queue = Append(mic.queue, "read")
        BY <1>1, <2>3 DEF StartRead, Mics
      <3>2. OneRead(mic'.queue)
        BY <1>1, <2>1, <3>1, QueueAppend DEF Reading, Queued
      <3>3. QED
        BY <2>1, <2>3, <3>1, <3>2, <1>1 DEF Placed
    <2>4. QED
      BY <1>1, <1>7, <2>2, <2>3 DEF Transcribe, Done, Operations
  <1>8. CASE OpCancelled
    <2>1. call' = call /\ op.at \notin {"none", "begin", "done"}
      BY <1>1, <1>8 DEF OpCancelled
    <2>2. CASE Release /\ op'.at = "releasing"
      BY <1>1, <2>1, <2>2, Releasing DEF Placed
    <2>3. CASE UNCHANGED mic /\ op'.at = "done" /\ ~Reading
      BY <1>1, <2>1, <2>3 DEF Reading, Queued
    <2>4. QED
      BY <1>1, <1>8, <2>2, <2>3 DEF OpCancelled, Done, Operations
  <1>9. CASE \/ Released \/ SendCancel \/ CaptureRaised
             \/ FailureTerminated \/ FailureCleaned \/ FailureRaised \/ FailureUnproven
    <2>1. UNCHANGED <<mic, call>>
      BY <1>9 DEF Released, SendCancel, CaptureRaised, FailureTerminated, FailureCleaned,
         FailureRaised, FailureUnproven
    <2>2. \/ op'.at = op.at /\ op'.loop = op.loop
          \/ op'.at = "done" /\ ~Reading
          \/ op.at = "frame" /\ op'.at = "late"
      <3>1. CASE SendCancel
        BY <1>1, <3>1 DEF SendCancel, Operations
      <3>2. CASE Released \/ FailureRaised \/ FailureUnproven
        BY <1>1, <3>2 DEF Released, FailureRaised, FailureUnproven, Done, Operations
      <3>3. CASE FailureTerminated \/ FailureCleaned
        BY <1>1, <3>3 DEF FailureTerminated, FailureCleaned, Operations
      <3>4. CASE CaptureRaised
        BY <1>1, <3>4 DEF CaptureRaised, Done, Operations, Reading, Queued
      <3>5. QED
        BY <1>9, <3>1, <3>2, <3>3, <3>4
    <2>3. QED
      BY <2>1, <2>2 DEF Reading, Queued
  <1>10. CASE TakeReply \/ TakeEndOfInput \/ Drained
    <2>1. /\ op.at \in {"reply", "eof", "draining"} /\ call' = call /\ ~Reading
          /\ op'.at \in {"reply", "frame", "eof", "failing", "done"}
      BY <1>10, Heeding
    <2>2. call.at \notin {"idle", "closing"}
      BY <1>1, <2>1 DEF Placed
    <2>3. CASE /\ UNCHANGED mic /\ op'.at # "frame"
               /\ op'.at = "reply" => op'.loop = "terminal" \/ op.at = "reply"
               /\ op'.at = "reply" /\ op'.loop = "capture" => op.loop = "capture"
      BY <2>1, <2>2, <2>3 DEF Reading, Queued
    <2>4. CASE StartRead /\ op.at = "reply" /\ op.loop = "capture" /\ op'.at = "frame"
      <3>1. mic'.stream = mic.stream /\ mic'.queue = Append(mic.queue, "read")
        BY <1>1, <2>4 DEF StartRead, Mics
      <3>2. OneRead(mic'.queue)
        BY <1>1, <2>1, <3>1, QueueAppend DEF Reading, Queued
      <3>3. QED
        BY <2>1, <2>2, <2>4, <3>1, <3>2
    <2>5. QED
      BY <1>10, <2>3, <2>4, Heeding
  <1>11. CASE TakeLate
    <2>1. Release /\ call' = call /\ op.at = "late" /\ op'.at = "draining"
      BY <1>1, <1>11 DEF TakeLate, Operations
    <2>2. QED
      BY <1>1, <2>1, Releasing DEF Placed
  <1>12. CASE FrameReady \/ SourceEnds
    <2>1. /\ mic.queue # <<>> /\ Head(mic.queue) = "read" /\ mic'.stream = mic.stream
          /\ mic'.queue = Tail(mic.queue) /\ call' = call
      BY <1>1, <1>12 DEF FrameReady, SourceEnds, Mics
    <2>2. Reading
      BY <1>1, <2>1, Takes DEF Reading, Queued
    <2>3. OneRead(mic'.queue) /\ ~Reading' /\ (~mic'.stream => Behind(mic'.queue))
      BY <1>1, <2>1, QueueTail DEF Reading, Queued
    <2>4. \/ op.at \in {"first", "frame"} /\ op'.at \in {"reply", "done"}
          \/ op' = op /\ op.at = "late"
      BY <1>1, <1>12 DEF FrameReady, SourceEnds, Done, Operations
    <2>5. QED
      BY <1>1, <2>1, <2>2, <2>3, <2>4 DEF Placed
  <1>13. CASE CaptureFails
    <2>1. /\ op' = op /\ call' = call /\ mic' = [stream |-> FALSE, queue |-> <<"close">>]
          /\ mic.queue # <<>> /\ Head(mic.queue) = "read"
      BY <1>13 DEF CaptureFails
    <2>2. op.at \in {"first", "frame", "late"}
      BY <1>1, <2>1, Takes DEF Reading, Queued
    <2>3. ~Reading' /\ OneRead(mic'.queue) /\ Behind(mic'.queue)
      BY <2>1 DEF Reading, Queued, OneRead, Behind
    <2>4. QED
      BY <2>1, <2>2, <2>3
  <1>14. CASE AudioThread
    <2>1. /\ mic.queue # <<>> /\ mic'.stream = mic.stream
          /\ mic'.queue = Tail(mic.queue) /\ UNCHANGED <<call, op>>
      BY <1>1, <1>14 DEF AudioThread, Mics
    <2>2. /\ OneRead(mic'.queue) /\ (~mic'.stream => Behind(mic'.queue))
          /\ Reading' => Reading
      BY <1>1, <2>1, QueueTail DEF Reading, Queued
    <2>3. QED
      BY <2>1, <2>2
  <1>15. CASE ChildSteps \/ Killing \/ Crash
    <2>1. UNCHANGED <<mic, call, op>>
      BY <1>15 DEF ChildSteps, Booted, ReadCommand, Inferred, Killing, KillSupervisor, KillNative,
         Crash
    <2>2. QED
      BY <1>2, <2>1
  <1>16. CASE Abort \/ Convergence \/ Recovery \/ Shutdown
    <2>1. CASE ForceAbort /\ UNCHANGED mic
      BY <1>1, <1>2, <2>1, Forcing
    <2>2. CASE Abort \/ Level1Cancels \/ Level2Terminated \/ Level2Cleaned
      <3>1. UNCHANGED mic /\ call'.at = call.at /\ op' \in {op, CancelledOp}
        BY <1>1, <2>2 DEF Abort, Level1Cancels, Level2Terminated, Level2Cleaned, Calls
      <3>2. QED
        BY <1>1, <1>2, <3>1
    <2>3. CASE /\ Level1Ends \/ Level1Expires \/ FaultConverges \/ Level2Ends \/ Level2Expires
               /\ ~ForceAbort
      <3>1. UNCHANGED <<mic, op>> /\ call'.at = call.at
        BY <1>1, <2>3 DEF Level1Ends, Level1Expires, FaultConverges, Level2Ends, Level2Expires, Calls
      <3>2. QED
        BY <1>2, <3>1
    <2>4. CASE Recovery \/ Shutdown
      <3>1. UNCHANGED <<mic, op, call>>
        BY <2>4 DEF Recovery, Rebuild, Adopted, StartFails, ReplacementKilled, Shutdown, Stop,
           StopAcknowledged, StopExpires, Stopped
      <3>2. QED
        BY <1>2, <3>1
    <2>5. QED
      BY <1>16, <2>1, <2>2, <2>3, <2>4
      DEF Convergence, Level1Ends, Level1Expires, FaultConverges, Level2Ends, Level2Expires
  <1>17. QED
    BY <1>2, <1>3, <1>4, <1>5, <1>6, <1>7, <1>8, <1>9, <1>10, <1>11, <1>12, <1>13, <1>14, <1>15,
       <1>16
    DEF Next, vars, Body, Operation, Microphone

(***************************************************************************)
(* The conversation of the adapter with its child.                         *)
(***************************************************************************)
Talk == Ordered /\ LastWord /\ Ready /\ StopsReady /\ Boots

\* A step that neither says, hears nor kills anything.
LEMMA TalkKept ==
    ASSUME Shape, Talk, UNCHANGED <<child, toChild, toParent>>,
           process' = "READY" => process = "READY" /\ asr'.active \in {asr.active, None},
           process' = process \/ manager'.at \notin Replacing,
           manager.at \in Stopping => manager'.at \in Stopping,
           manager'.at \in Replacing <=> manager.at \in Replacing,
           manager'.at \in {"stop_ack", "stop_exit", "stop_kill"} => process' = "READY",
           op'.at = "draining" => op.at = "draining" /\ op'.held = op.held
    PROVE  Talk'
  <1>1. Ordered'
    BY DEF Talk, Ordered, Asked
  <1>2. LastWord'
    BY DEF Talk, LastWord, Resting, Asked, Silent
  <1>3. Ready' /\ StopsReady'
    BY DEF Talk, Ready, StopsReady, Resting, Asked
  <1>4. Boots'
    BY DEF Talk, Boots
  <1>5. QED
    BY <1>1, <1>2, <1>3, <1>4 DEF Talk

\* One command, written behind the others.
LEMMA Behindhand ==
    ASSUME NEW s \in Seq(Commands), NEW c \in Commands
    PROVE  /\ \A i \in DOMAIN s : i \in DOMAIN (s \o <<c>>) /\ (s \o <<c>>)[i] = s[i]
           /\ \A i \in DOMAIN (s \o <<c>>) :
                  \/ i \in DOMAIN s /\ (s \o <<c>>)[i] = s[i]
                  \/ i = Len(s) + 1 /\ (s \o <<c>>)[i] = c
           /\ Len(s) + 1 \in DOMAIN (s \o <<c>>) /\ Len(s) + 1 \notin DOMAIN s
  <1>1. <<c>> \in Seq(Commands) /\ Len(<<c>>) = 1 /\ DOMAIN <<c>> = 1..1 /\ <<c>>[1] = c
    OBVIOUS
  <1> DEFINE t == <<c>>
             u == s \o t
  <1>2. t \in Seq(Commands) /\ Len(t) = 1 /\ DOMAIN t = 1..1 /\ t[1] = c
    BY <1>1
  <1> HIDE DEF t
  <1>3. /\ Len(s) \in Nat /\ DOMAIN s = 1..Len(s) /\ DOMAIN u = 1..Len(s) + 1
        /\ \A i \in DOMAIN s : u[i] = s[i]
        /\ u[Len(s) + 1] = t[1]
    BY <1>2, Joins
  <1> HIDE DEF u
  <1>4. /\ \A i \in DOMAIN s : i \in DOMAIN u /\ u[i] = s[i]
        /\ \A i \in DOMAIN u : \/ i \in DOMAIN s /\ u[i] = s[i]
                               \/ i = Len(s) + 1 /\ u[i] = c
        /\ Len(s) + 1 \in DOMAIN u /\ Len(s) + 1 \notin DOMAIN s
    BY <1>2, <1>3
  <1>5. QED
    BY <1>4 DEF t, u

\* Another frame, or a cancellation, of the request that is open.
LEMMA Continuing ==
    ASSUME Shape, Ordered, asr.active # None, NEW name \in {"FRAME", "CANCEL"},
           toChild' = toChild \/ Write(<<Cmd(name)>>)
    PROVE  /\ \A i, j \in DOMAIN toChild' :
                  toChild'[i].op = "BEGIN" /\ toChild'[j].op = "BEGIN" => i = j
           /\ \A i \in DOMAIN toChild' : toChild'[i].op # "SHUTDOWN" => toChild'[i].id # None
           /\ Asked("BEGIN")' => Asked("BEGIN")
           /\ Asked("SHUTDOWN")' => Asked("SHUTDOWN")
  <1>1. CASE toChild' = toChild
    BY <1>1 DEF Ordered, Asked
  <1>2. CASE toChild' = toChild \o <<Cmd(name)>>
    <2>1. Cmd(name) \in Commands /\ toChild \in Seq(Commands)
      BY DEF Cmd, Commands, Shape, Adapters
    <2>2. Cmd(name).op = name /\ Cmd(name).id = asr.active
      BY DEF Cmd
    <2> DEFINE c == Cmd(name)
    <2>3. c \in Commands /\ c.op \notin {"BEGIN", "SHUTDOWN"} /\ c.id # None
      BY <2>1, <2>2
    <2> HIDE DEF c
    <2>4. \A i \in DOMAIN toChild' : \/ i \in DOMAIN toChild /\ toChild'[i] = toChild[i]
                                     \/ toChild'[i] = c
      BY <1>2, <2>1, <2>3, Behindhand DEF c
    <2>5. QED
      BY <2>3, <2>4 DEF Ordered, Asked
  <1>3. QED
    BY <1>1, <1>2 DEF Write

\* What is left of the child's words when one has been heard.
LEMMA Unheard ==
    ASSUME Shape, LastWord, Hears, Consume
    PROVE  /\ \A i \in DOMAIN toParent' :
                  toParent'[i].event \in Terminals => i = Len(toParent') /\ Resting
           /\ Silent => Silent'
           /\ Event \in Terminals => toParent' = <<>> /\ Resting
  <1>1. toParent \in Seq(Events)
    BY DEF Shape
  <1>2. CASE toParent' = toParent /\ Event \notin EventNames
    BY <1>2 DEF LastWord, Silent, EventNames
  <1>3. CASE toParent # <<>> /\ toParent' = Tail(toParent)
    <2>1. /\ Head(toParent) = toParent[1] /\ 1 \in DOMAIN toParent /\ Len(toParent) \in Nat
          /\ Len(Tail(toParent)) = Len(toParent) - 1 /\ Tail(toParent) \in Seq(Events)
          /\ \A i \in DOMAIN Tail(toParent) :
                 i + 1 \in DOMAIN toParent /\ Tail(toParent)[i] = toParent[i + 1] /\ i \in Nat
      BY <1>1, <1>3, Takes
    <2>2. Event \in Terminals => Head(toParent).event \in Terminals
      BY Hearing DEF EventNames
    <2>3. Event \in Terminals => Len(toParent) = 1 /\ Resting
      BY <2>1, <2>2 DEF LastWord
    <2>4. Event \in Terminals => toParent' = <<>>
      <3>1. \A s \in Seq(Events) : Len(s) = 0 => s = <<>>
        OBVIOUS
      <3>2. QED
        BY <1>3, <2>1, <2>3, <3>1
    <2>5. QED
      BY <1>3, <2>1, <2>3, <2>4 DEF LastWord, Silent
  <1>4. QED
    BY <1>2, <1>3, Hearing DEF Consume, EndOfFile, Event, Hears, EventNames, Terminals

\* While a request is open, nobody replaces the child or stops it, and the process is not READY.
LEMMA Engaged ==
    ASSUME Shape, Placed, Allocated, Talk, op.at # "none"
    PROVE  /\ manager.at \notin Stopping \cup Replacing /\ child.life # "booting"
           /\ ~Asked("SHUTDOWN")
           /\ Speaking => asr.active # None /\ process # "READY"
  <1>1. manager.at \notin Stopping \cup Replacing
    BY DEF Placed
  <1>2. QED
    BY <1>1 DEF Talk, Boots, LastWord, Ready, Allocated

\* The step of an operation that hears the child.
LEMMA TalkHeard ==
    ASSUME Shape, Placed, Allocated, Talk, TakeReply \/ TakeEndOfInput \/ Drained
    PROVE  Talk'
  <1>1. Speaking /\ op.at # "none"
    BY Heeding DEF Speaking
  <1>2. /\ UNCHANGED <<child, manager>> /\ op'.at # "draining"
        /\ manager.at \notin Stopping \cup Replacing /\ child.life # "booting"
        /\ ~Asked("SHUTDOWN") /\ asr.active # None /\ process # "READY"
    BY <1>1, Engaged, Heeding
  <1>3. manager.at \notin {"stop_ack", "stop_exit", "stop_kill"}
    BY <1>2 DEF Stopping
  <1>4. CASE /\ process' = "READY" /\ asr'.active = None /\ toChild' = toChild
             /\ \/ op.at \in {"reply", "eof"} /\ Event \in Terminals /\ Hears /\ Consume
                \/ op.at = "draining" /\ op.held \in Terminals /\ toParent' = toParent
    <2>1. toParent' = <<>> /\ Resting
      BY <1>4, Unheard DEF Talk, LastWord
    <2>2. Resting' /\ ~Asked("SHUTDOWN")'
      BY <1>2, <1>4, <2>1 DEF Resting, Asked
    <2>3. Ordered'
      BY <1>2, <1>4 DEF Talk, Ordered, Asked
    <2>4. LastWord' /\ Ready' /\ StopsReady' /\ Boots'
      BY <1>2, <1>3, <1>4, <2>1, <2>2 DEF Talk, LastWord, Ready, StopsReady, Boots
    <2>5. QED
      BY <2>3, <2>4 DEF Talk
  <1>5. CASE /\ process' = process
             /\ \/ toChild' = toChild
                \/ \E name \in {"FRAME", "CANCEL"} : Write(<<Cmd(name)>>)
             /\ (Consume /\ Hears) \/ toParent' = toParent
    <2>1. /\ \A i, j \in DOMAIN toChild' :
                 toChild'[i].op = "BEGIN" /\ toChild'[j].op = "BEGIN" => i = j
          /\ \A i \in DOMAIN toChild' : toChild'[i].op # "SHUTDOWN" => toChild'[i].id # None
          /\ Asked("BEGIN")' => Asked("BEGIN")
          /\ Asked("SHUTDOWN")' => Asked("SHUTDOWN")
      BY <1>2, <1>5, Continuing DEF Talk
    <2>2. \A i \in DOMAIN toParent' :
              toParent'[i].event \in Terminals => i = Len(toParent') /\ Resting
      BY <1>5, Unheard DEF Talk, LastWord
    <2>3. Resting => Resting'
      BY <1>2, <2>1 DEF Resting
    <2>4. Ordered'
      BY <1>2, <2>1 DEF Talk, Ordered
    <2>5. LastWord'
      BY <1>2, <2>1, <2>2, <2>3 DEF LastWord
    <2>6. Ready' /\ StopsReady' /\ Boots'
      BY <1>2, <1>3, <1>5 DEF Talk, Ready, StopsReady, Boots
    <2>7. QED
      BY <2>4, <2>5, <2>6 DEF Talk
  <1>6. QED
    BY <1>4, <1>5, Heeding

\* The event that is held while the microphone is given back.
LEMMA TalkLate ==
    ASSUME Shape, Placed, Allocated, Talk, TakeLate
    PROVE  Talk'
  <1>1. /\ op.at = "late" /\ ~op.cancel /\ Hears /\ Consume
        /\ op' = [op EXCEPT !.at = "draining", !.held = Event]
        /\ UNCHANGED <<process, asr, child, toChild, manager>>
    BY DEF TakeLate
  <1>2. op'.held = Event
    BY <1>1 DEF Shape, Operations
  <1>3. /\ manager.at \notin Stopping \cup Replacing /\ child.life # "booting"
        /\ ~Asked("SHUTDOWN") /\ process # "READY"
    BY <1>1, Engaged DEF Speaking
  <1>4. Ordered'
    BY <1>1 DEF Talk, Ordered, Asked
  <1>5. (Resting' <=> Resting) /\ ~Asked("SHUTDOWN")'
    BY <1>1, <1>3 DEF Resting, Asked
  <1>6. LastWord'
    BY <1>1, <1>2, <1>5, Unheard DEF Talk, LastWord
  <1>7. Ready' /\ StopsReady' /\ Boots'
    BY <1>1, <1>3 DEF Ready, StopsReady, Boots, Stopping
  <1>8. QED
    BY <1>4, <1>6, <1>7 DEF Talk

\* The writes of an operation for its open request.
LEMMA TalkWritten ==
    ASSUME Shape, Placed, Allocated, Talk, Speaking,
           UNCHANGED <<process, child, toParent, manager>>, asr'.active = asr.active,
           op'.at # "draining", NEW name \in {"FRAME", "CANCEL"},
           toChild' = toChild \/ Write(<<Cmd(name)>>)
    PROVE  Talk'
  <1>1. /\ manager.at \notin Stopping \cup Replacing /\ child.life # "booting"
        /\ ~Asked("SHUTDOWN") /\ asr.active # None /\ process # "READY"
    BY Engaged DEF Speaking
  <1>2. /\ \A i, j \in DOMAIN toChild' :
               toChild'[i].op = "BEGIN" /\ toChild'[j].op = "BEGIN" => i = j
        /\ \A i \in DOMAIN toChild' : toChild'[i].op # "SHUTDOWN" => toChild'[i].id # None
        /\ Asked("BEGIN")' => Asked("BEGIN")
        /\ Asked("SHUTDOWN")' => Asked("SHUTDOWN")
    BY <1>1, Continuing DEF Talk
  <1>3. Ordered'
    BY <1>2 DEF Talk, Ordered
  <1>4. Resting => Resting'
    BY <1>2 DEF Resting
  <1>5. LastWord'
    BY <1>1, <1>2, <1>4 DEF Talk, LastWord
  <1>6. Ready' /\ StopsReady' /\ Boots'
    BY <1>1 DEF Ready, StopsReady, Boots, Stopping
  <1>7. QED
    BY <1>3, <1>5, <1>6 DEF Talk

\* The first frame opens the request: BEGIN and FRAME go to a child that rests.
LEMMA TalkOpened ==
    ASSUME Shape, Placed, Allocated, Talk, FrameReady, op.at = "first"
    PROVE  Talk'
  <1> DEFINE begin == [op |-> "BEGIN", id |-> asr.nextId]
             frame == [op |-> "FRAME", id |-> asr.nextId]
  <1>1. /\ ~op.cancel /\ process' = "BUSY" /\ Write(<<begin, frame>>)
        /\ op' = [op EXCEPT !.at = "reply"] /\ UNCHANGED <<child, toParent, manager>>
    BY DEF FrameReady
  <1>2. /\ begin \in Commands /\ frame \in Commands
        /\ begin.op = "BEGIN" /\ frame.op = "FRAME" /\ begin.id # None /\ frame.id # None
    BY DEF Commands, Shape, Adapters, None
  <1>3. toChild' = toChild \/ toChild' = toChild \o <<begin, frame>>
    BY <1>1 DEF Write
  <1>4. /\ <<begin, frame>> \in Seq(Commands) /\ DOMAIN <<begin, frame>> = 1..2
        /\ Len(<<begin, frame>>) = 2
        /\ <<begin, frame>>[1] = begin /\ <<begin, frame>>[2] = frame
    BY <1>2
  <1> HIDE DEF begin, frame
  <1>5. process = "READY" /\ op'.at = "reply"
    BY <1>1 DEF Allocated, Shape, Operations
  <1>6. manager.at \notin Stopping \cup Replacing /\ child.life # "booting" /\ ~Asked("SHUTDOWN")
    BY Engaged
  <1>7. toParent = <<>> /\ Resting
    BY <1>5, <1>6 DEF Talk, Ready
  <1>8. /\ \A i, j \in DOMAIN toChild' :
               toChild'[i].op = "BEGIN" /\ toChild'[j].op = "BEGIN" => i = j
        /\ \A i \in DOMAIN toChild' : toChild'[i].op # "SHUTDOWN" /\ toChild'[i].id # None
    <2>1. \A i \in DOMAIN toChild :
              toChild[i].op \notin {"BEGIN", "SHUTDOWN"} /\ toChild[i].id # None
      BY <1>6, <1>7 DEF Talk, Ordered, Resting, Asked
    <2>2. CASE toChild' = toChild
      BY <2>1, <2>2
    <2>3. CASE toChild' = toChild \o <<begin, frame>>
      <3> DEFINE t == <<begin, frame>>
      <3>1. t \in Seq(Commands) /\ DOMAIN t = 1..2 /\ Len(t) = 2 /\ t[1] = begin /\ t[2] = frame
        BY <1>4
      <3>2. toChild' = toChild \o t /\ toChild \in Seq(Commands)
        BY <2>3 DEF Shape
      <3> HIDE DEF t
      <3>3. /\ Len(toChild) \in Nat /\ DOMAIN toChild = 1..Len(toChild)
            /\ DOMAIN toChild' = 1..Len(toChild) + 2
            /\ \A i \in DOMAIN toChild : toChild'[i] = toChild[i]
            /\ toChild'[Len(toChild) + 1] = begin /\ toChild'[Len(toChild) + 2] = frame
        <4> DEFINE u == toChild \o t
        <4>1. toChild \in Seq(Commands) /\ t \in Seq(Commands)
          BY <3>1, <3>2
        <4>2. /\ Len(toChild) \in Nat /\ DOMAIN toChild = 1..Len(toChild)
              /\ DOMAIN u = 1..Len(toChild) + Len(t)
              /\ \A i \in DOMAIN toChild : u[i] = toChild[i]
              /\ \A i \in DOMAIN t : u[Len(toChild) + i] = t[i]
          BY <4>1, Joins
        <4> HIDE DEF u
        <4>3. 1 \in DOMAIN t /\ 2 \in DOMAIN t
          BY <3>1
        <4>4. u = toChild'
          BY <3>2 DEF u
        <4>5. QED
          BY <3>1, <4>2, <4>3, <4>4
      <3>4. \A i \in DOMAIN toChild' : \/ i \in DOMAIN toChild /\ toChild'[i] = toChild[i]
                                       \/ i = Len(toChild) + 1 /\ toChild'[i] = begin
                                       \/ toChild'[i] = frame
        BY <3>3
      <3>5. \A i \in DOMAIN toChild' :
                /\ toChild'[i].op # "SHUTDOWN" /\ toChild'[i].id # None
                /\ toChild'[i].op = "BEGIN" => i = Len(toChild) + 1
        BY <1>2, <2>1, <3>4
      <3>6. QED
        BY <3>5
    <2>4. QED
      BY <1>3, <2>2, <2>3
  <1>9. Ordered'
    BY <1>1, <1>7, <1>8 DEF Talk, Ordered, Resting
  <1>10. LastWord'
    BY <1>1, <1>5, <1>7, <1>8 DEF LastWord, Asked
  <1>11. Ready' /\ StopsReady' /\ Boots'
    BY <1>1, <1>6 DEF Ready, StopsReady, Boots, Stopping
  <1>12. QED
    BY <1>9, <1>10, <1>11 DEF Talk

\* One word, said behind the others.
LEMMA Saying ==
    ASSUME Shape, NEW event \in EventNames, NEW id \in Nat, Say(event, id)
    PROVE  /\ Len(toParent') = Len(toParent) + 1 /\ Len(toParent) \in Nat
           /\ DOMAIN toParent = 1..Len(toParent) /\ DOMAIN toParent' = 1..Len(toParent) + 1
           /\ \A i \in DOMAIN toParent : toParent'[i] = toParent[i]
           /\ toParent'[Len(toParent) + 1].event = event
  <1> DEFINE e == [event |-> event, id |-> id]
  <1>1. e \in Events /\ e.event = event /\ toParent \in Seq(Events)
    BY DEF Events, Shape
  <1>2. toParent' = Append(toParent, e)
    BY DEF Say
  <1> HIDE DEF e
  <1>3. QED
    BY <1>1, <1>2, Adds

\* A child that has a request, and what it says before the terminal and as the terminal.
LEMMA TalkSaid ==
    ASSUME Shape, Talk, child.active # None, UNCHANGED <<op, asr, process, manager>>,
           child.life # "booting", child'.life = child.life,
           child'.inferring => child'.active # None,
           NEW event \in EventNames, Say(event, child.active),
           toChild' = toChild \/ (toChild # <<>> /\ toChild' = Tail(toChild)),
           \/ event \notin Terminals /\ child'.active = child.active
           \/ child'.active = None
    PROVE  Talk'
  <1>1. /\ ~Resting /\ ~Asked("BEGIN") /\ ~Asked("SHUTDOWN") /\ process # "READY"
        /\ manager.at \notin Replacing
        /\ ~(op.at = "draining" /\ op.held \in Terminals)
        /\ \A i \in DOMAIN toParent : toParent[i].event \notin Terminals
    BY DEF Talk, Resting, Ordered, LastWord, Ready, Boots
  <1>2. \A i \in DOMAIN toChild' :
            toChild'[i].op \notin {"BEGIN", "SHUTDOWN"} /\ toChild'[i].id # None
    <2>1. \A i \in DOMAIN toChild :
              toChild[i].op \notin {"BEGIN", "SHUTDOWN"} /\ toChild[i].id # None
      BY <1>1 DEF Talk, Ordered, Asked
    <2>2. toChild # <<>> => \A i \in DOMAIN Tail(toChild) :
              i + 1 \in DOMAIN toChild /\ Tail(toChild)[i] = toChild[i + 1]
      BY Takes DEF Shape
    <2>3. QED
      BY <2>1, <2>2
  <1>3. child.active \in Nat
    BY DEF Shape, Children
  <1>4. \A i \in DOMAIN toParent' : toParent'[i].event \in Terminals =>
            i = Len(toParent') /\ event \in Terminals
    <2>1. /\ Len(toParent') = Len(toParent) + 1 /\ Len(toParent) \in Nat
          /\ DOMAIN toParent = 1..Len(toParent) /\ DOMAIN toParent' = 1..Len(toParent) + 1
          /\ \A i \in DOMAIN toParent : toParent'[i] = toParent[i]
          /\ toParent'[Len(toParent) + 1].event = event
      BY <1>3, Saying
    <2>2. \A i \in DOMAIN toParent' : i \in DOMAIN toParent \/ i = Len(toParent) + 1
      BY <2>1
    <2>3. QED
      BY <1>1, <2>1, <2>2
  <1>5. ~Asked("BEGIN")' /\ ~Asked("SHUTDOWN")'
    BY <1>2 DEF Asked
  <1>6. Ordered'
    BY <1>2, <1>5 DEF Ordered
  <1>7. LastWord'
    BY <1>1, <1>4, <1>5 DEF LastWord, Resting
  <1>8. Ready' /\ StopsReady' /\ Boots'
    BY <1>1 DEF Talk, Ready, StopsReady, Boots
  <1>9. QED
    BY <1>6, <1>7, <1>8 DEF Talk

\* A child that is gone says nothing more, and what it was sent remains unread.
LEMMA TalkSilenced ==
    ASSUME Shape, Talk, UNCHANGED <<op, asr, process, manager, toParent>>,
           child'.life # "booting", child'.active = None, child'.inferring = FALSE,
           toChild' = toChild \/ (toChild # <<>> /\ toChild' = Tail(toChild))
    PROVE  Talk'
  <1>1. /\ \A i \in DOMAIN toChild' : toChild'[i].op # "SHUTDOWN" => toChild'[i].id # None
        /\ \A i, j \in DOMAIN toChild' :
               toChild'[i].op = "BEGIN" /\ toChild'[j].op = "BEGIN" => i = j
        /\ Asked("BEGIN")' => Asked("BEGIN")
        /\ Asked("SHUTDOWN")' => Asked("SHUTDOWN")
    <2>1. CASE toChild' = toChild
      BY <2>1 DEF Talk, Ordered, Asked
    <2>2. CASE toChild # <<>> /\ toChild' = Tail(toChild)
      <3>1. \A i \in DOMAIN toChild' :
                i + 1 \in DOMAIN toChild /\ toChild'[i] = toChild[i + 1] /\ i \in Nat
        BY <2>2, Takes DEF Shape
      <3>2. \A i \in DOMAIN toChild' : toChild'[i].op # "SHUTDOWN" => toChild'[i].id # None
        BY <3>1 DEF Talk, Ordered
      <3>3. ASSUME NEW i \in DOMAIN toChild', NEW j \in DOMAIN toChild',
                   toChild'[i].op = "BEGIN", toChild'[j].op = "BEGIN"
            PROVE  i = j
        <4>1. i + 1 = j + 1
          BY <3>1, <3>3 DEF Talk, Ordered
        <4>2. QED
          BY <3>1, <4>1
      <3>4. (Asked("BEGIN")' => Asked("BEGIN")) /\ (Asked("SHUTDOWN")' => Asked("SHUTDOWN"))
        BY <3>1 DEF Asked
      <3>5. QED
        BY <3>2, <3>3, <3>4
    <2>3. QED
      BY <2>1, <2>2
  <1>2. Resting => Resting'
    BY <1>1 DEF Resting
  <1>3. Silent => Silent'
    BY DEF Silent
  <1>4. Ordered'
    BY <1>1 DEF Ordered
  <1>5. LastWord'
    BY <1>1, <1>2, <1>3 DEF Talk, LastWord
  <1>6. manager.at \in Replacing => toChild' = <<>>
    <2>1. manager.at \in Replacing => toChild = <<>>
      BY DEF Talk, Boots
    <2>2. QED
      BY <2>1
  <1>7. Ready' /\ StopsReady' /\ Boots'
    BY <1>2, <1>6 DEF Talk, Ready, StopsReady, Boots
  <1>8. QED
    BY <1>4, <1>5, <1>7 DEF Talk

\* The commands the child reads.
LEMMA TalkRead ==
    ASSUME Shape, Placed, Talk, ReadCommand
    PROVE  Talk'
  <1> DEFINE c == Head(toChild)
  <1>1. /\ child.life = "up" /\ toChild # <<>> /\ toChild' = Tail(toChild)
        /\ UNCHANGED <<op, asr, process, manager>>
    BY DEF ReadCommand
  <1>2. /\ c = toChild[1] /\ 1 \in DOMAIN toChild /\ c \in Commands
        /\ \A i \in DOMAIN Tail(toChild) :
               i + 1 \in DOMAIN toChild /\ Tail(toChild)[i] = toChild[i + 1] /\ i \in Nat
    BY <1>1, Takes DEF Shape
  <1>3. \/ c.op = "BEGIN" /\ ReadBegin(c.id)
        \/ c.op = "FRAME" /\ ReadFrame(c.id)
        \/ c.op = "CANCEL" /\ ReadCancel(c.id)
        \/ c.op = "SHUTDOWN" /\ ReadShutdown
    BY <1>2 DEF ReadCommand, Commands
  <1>4. child \in Children /\ c.id \in Nat /\ (c.op # "SHUTDOWN" => c.id # None)
    BY <1>2 DEF Shape, Commands, Talk, Ordered
  <1>5. /\ Idle \in Children /\ Idle.life = child.life /\ Idle.active = None
        /\ Idle.inferring = FALSE
    BY <1>4, Typed DEF Idle, Children
  <1> HIDE DEF c
  <1>6. CASE ExitsNonzero
    <2>1. child'.life = "exited" /\ child'.active = None /\ child'.inferring = FALSE
      BY <1>5, <1>6 DEF ExitsNonzero, Children
    <2>2. QED
      BY <1>1, <1>6, <2>1, TalkSilenced DEF ExitsNonzero
  <1>7. CASE c.op = "BEGIN" /\ ReadBegin(c.id)
    <2>1. child'.life = "up" /\ child'.active # None /\ child'.inferring = FALSE
          /\ toParent' = toParent
      BY <1>1, <1>4, <1>5, <1>7 DEF ReadBegin, Children
    <2>2. Asked("BEGIN") /\ ~Resting
      BY <1>2, <1>7 DEF Asked, Resting
    <2>3. /\ ~Asked("SHUTDOWN") /\ process # "READY" /\ manager.at \notin Replacing
          /\ ~(op.at = "draining" /\ op.held \in Terminals)
          /\ \A i \in DOMAIN toParent : toParent[i].event \notin Terminals
      BY <1>1, <2>2 DEF Talk, LastWord, Ready, Boots
    <2>4. \A i \in DOMAIN toChild' : /\ toChild'[i].op \notin {"BEGIN", "SHUTDOWN"}
                                     /\ toChild'[i].id # None
      <3>1. \A i \in DOMAIN toChild : i # 1 => toChild[i].op # "BEGIN"
        BY <1>2, <1>7 DEF Talk, Ordered
      <3>2. \A i \in DOMAIN toChild' :
                i + 1 \in DOMAIN toChild /\ toChild'[i] = toChild[i + 1] /\ i + 1 # 1
        <4>1. \A i \in DOMAIN Tail(toChild) : i # 0
          BY <1>1, Takes DEF Shape
        <4>2. QED
          BY <1>1, <1>2, <4>1
      <3>3. QED
        BY <2>3, <3>1, <3>2 DEF Talk, Ordered, Asked
    <2>5. Ordered'
      BY <2>1, <2>4 DEF Ordered, Asked
    <2>6. LastWord'
      BY <1>1, <2>1, <2>3, <2>4 DEF LastWord, Asked
    <2>7. Ready' /\ StopsReady' /\ Boots'
      BY <1>1, <2>1, <2>3 DEF Talk, Ready, StopsReady, Boots
    <2>8. QED
      BY <2>5, <2>6, <2>7 DEF Talk
  <1>8. CASE c.op = "FRAME" /\ ReadFrame(c.id) /\ ~ExitsNonzero
    <2>1. c.id = child.active /\ child.active # None
      BY <1>4, <1>8 DEF ReadFrame
    <2>2. \/ /\ child' = [child EXCEPT !.frames = @ + 1]
             /\ Say("FRAME_ACCEPTED", child.active)
          \/ /\ child' = [child EXCEPT !.frames = @ + 1, !.inferring = TRUE]
             /\ Say("ENDPOINT", child.active)
          \/ /\ child' = Idle
             /\ Say("NO_SPEECH", child.active)
      BY <1>8, <2>1 DEF ReadFrame
    <2>3. /\ child'.life = child.life
          /\ \/ child'.active = child.active /\ Say("FRAME_ACCEPTED", child.active)
             \/ child'.active = child.active /\ Say("ENDPOINT", child.active)
             \/ /\ child'.active = None /\ child'.inferring = FALSE
                /\ Say("NO_SPEECH", child.active)
      BY <1>4, <1>5, <2>2 DEF Children
    <2>4. /\ {"FRAME_ACCEPTED", "ENDPOINT", "NO_SPEECH"} \subseteq EventNames
          /\ {"FRAME_ACCEPTED", "ENDPOINT"} \cap Terminals = {}
      BY DEF EventNames, Terminals
    <2>5. child.life # "booting" /\ (child'.inferring => child'.active # None)
      BY <1>1, <2>1, <2>3
    <2>6. QED
      BY <1>1, <2>1, <2>3, <2>4, <2>5, TalkSaid
  <1>9. CASE c.op = "CANCEL" /\ ReadCancel(c.id) /\ ~ExitsNonzero
    <2>1. c.id = child.active /\ child.active # None
      BY <1>4, <1>9 DEF ReadCancel
    <2>2. \/ /\ child' = [child EXCEPT !.cancelled = TRUE]
             /\ Say("CANCEL_DEFERRED", child.active)
          \/ child' = Idle /\ Say("CANCELLED", child.active)
      BY <1>9, <2>1 DEF ReadCancel
    <2>3. /\ child'.life = child.life
          /\ \/ child'.active = child.active /\ Say("CANCEL_DEFERRED", child.active)
             \/ /\ child'.active = None /\ child'.inferring = FALSE
                /\ Say("CANCELLED", child.active)
      BY <1>4, <1>5, <2>2 DEF Children
    <2>4. /\ {"CANCEL_DEFERRED", "CANCELLED"} \subseteq EventNames
          /\ "CANCEL_DEFERRED" \notin Terminals
      BY DEF EventNames, Terminals
    <2>5. child.life # "booting" /\ (child'.inferring => child'.active # None)
      BY <1>1, <2>1, <2>3
    <2>6. QED
      BY <1>1, <2>1, <2>3, <2>4, <2>5, TalkSaid
  <1>10. CASE c.op = "SHUTDOWN" /\ ReadShutdown
    <2>1. Asked("SHUTDOWN")
      BY <1>2, <1>10 DEF Asked
    <2>2. manager.at \in Stopping /\ Resting /\ Silent /\ manager.at \notin Replacing
      BY <2>1 DEF Talk, LastWord, Stopping, Replacing
    <2>3. /\ child'.life = "exited" /\ child'.active = None /\ child'.inferring = child.inferring
          /\ Say("SHUTDOWN_ACK", 0)
      BY <1>4, <1>10, <2>2 DEF ReadShutdown, Children, Resting, None
    <2>4. \A i \in DOMAIN toParent' : toParent'[i].event \notin Terminals
      <3>1. "SHUTDOWN_ACK" \in EventNames /\ "SHUTDOWN_ACK" \notin Terminals /\ 0 \in Nat
        BY DEF EventNames, Terminals
      <3>2. /\ DOMAIN toParent = 1..Len(toParent) /\ DOMAIN toParent' = 1..Len(toParent) + 1
            /\ Len(toParent) \in Nat
            /\ \A i \in DOMAIN toParent : toParent'[i] = toParent[i]
            /\ toParent'[Len(toParent) + 1].event = "SHUTDOWN_ACK"
        BY <2>3, <3>1, Saying
      <3>3. \A i \in DOMAIN toParent' : i \in DOMAIN toParent \/ i = Len(toParent) + 1
        BY <3>2
      <3>4. QED
        BY <2>2, <3>1, <3>2, <3>3 DEF Silent
    <2>5. \A i \in DOMAIN toChild' : /\ toChild'[i].op # "BEGIN"
                                     /\ toChild'[i].op # "SHUTDOWN" => toChild'[i].id # None
      BY <1>1, <1>2, <2>2 DEF Talk, Ordered, Resting, Asked
    <2>6. child.inferring = FALSE
      BY <1>4, <2>2 DEF Talk, Ordered, Resting, Children
    <2>7. Ordered'
      BY <2>3, <2>5, <2>6 DEF Ordered, Asked
    <2>8. Resting' /\ Silent'
      BY <2>3, <2>4, <2>5 DEF Resting, Silent, Asked
    <2>9. op.at = "none"
      BY <2>2 DEF Placed
    <2>10. LastWord'
      BY <1>1, <2>2, <2>4, <2>8, <2>9 DEF LastWord
    <2>11. Ready' /\ StopsReady' /\ Boots'
      BY <1>1, <2>2, <2>3, <2>8 DEF Talk, Ready, StopsReady, Boots
    <2>12. QED
      BY <2>7, <2>10, <2>11 DEF Talk
  <1>11. QED
    BY <1>3, <1>6, <1>7, <1>8, <1>9, <1>10

\* What the child does keeps it.
LEMMA TalkChild ==
    ASSUME Shape, Placed, Talk, ChildSteps \/ Killing \/ Crash
    PROVE  Talk'
  <1>1. child \in Children /\ Idle \in Children /\ Idle.life = child.life
        /\ Idle.active = None /\ Idle.inferring = FALSE
    BY Typed DEF Shape, Idle, Children
  <1>2. CASE Booted
    <2>1. /\ manager.at \in Replacing /\ toParent = <<>> /\ process = "DESTROYED"
          /\ toChild = <<>> /\ op.at = "none"
          /\ UNCHANGED <<op, asr, process, manager, toChild>>
      BY <1>2 DEF Booted, Talk, Boots, Placed
    <2>2. child'.life = "up" /\ child'.active = None /\ child'.inferring = FALSE
      BY <1>2 DEF Booted, Running, NoChild
    <2>3. Len(toParent') = 1 /\ \A i \in DOMAIN toParent' : toParent'[i].event = "READY"
      BY <1>2, <2>1 DEF Booted, Say
    <2>4. Ordered' /\ StopsReady' /\ Ready'
      BY <2>1, <2>2 DEF Ordered, Asked, Ready, StopsReady, Replacing
    <2>5. LastWord' /\ Boots'
      BY <2>1, <2>2, <2>3 DEF LastWord, Asked, Boots, Terminals
    <2>6. QED
      BY <2>4, <2>5 DEF Talk
  <1>3. CASE Inferred
    <2>1. child.active # None /\ child.life = "up" /\ child' = Idle
          /\ UNCHANGED <<op, asr, process, toChild, manager>>
      BY <1>3 DEF Inferred, Talk, Ordered
    <2>2. PICK outcome \in EventNames : Say(outcome, child.active)
      BY <1>3 DEF Inferred, EventNames, Terminals
    <2>3. /\ child.life # "booting" /\ child'.life = child.life
          /\ child'.active = None /\ child'.inferring = FALSE
      BY <1>1, <2>1
    <2>4. child'.inferring => child'.active # None
      BY <2>3
    <2>5. toChild' = toChild \/ (toChild # <<>> /\ toChild' = Tail(toChild))
      BY <2>1
    <2>6. child.active # None /\ UNCHANGED <<op, asr, process, manager>>
      BY <2>1
    <2>7. QED
      BY <2>2, <2>3, <2>4, <2>5, <2>6, TalkSaid
  <1>4. CASE Killing \/ Crash
    <2>1. UNCHANGED <<op, asr, process, manager, toChild, toParent>>
      BY <1>4 DEF Killing, KillSupervisor, KillNative, Crash, pipes
    <2>2. CASE child' = [Idle EXCEPT !.life = "exited"]
      <3>1. child'.life = "exited" /\ child'.active = None /\ child'.inferring = FALSE
        BY <1>1, <2>2 DEF Children
      <3>2. child'.life # "booting"
        BY <3>1
      <3>3. toChild' = toChild \/ (toChild # <<>> /\ toChild' = Tail(toChild))
        BY <2>1
      <3>4. UNCHANGED <<op, asr, process, manager, toParent>>
        BY <2>1
      <3>5. QED
        BY <3>1, <3>2, <3>3, <3>4, TalkSilenced
    <2>3. CASE child' = [child EXCEPT !.native = FALSE]
      <3>1. child'.active = child.active /\ child'.inferring = child.inferring
            /\ child'.life = child.life
        BY <1>1, <2>3 DEF Children
      <3>2. Ordered' /\ StopsReady'
        BY <2>1, <3>1 DEF Talk, Ordered, Asked, StopsReady
      <3>3. LastWord' /\ Ready' /\ Boots'
        BY <2>1, <3>1 DEF Talk, LastWord, Ready, Boots, Resting, Asked, Silent
      <3>4. QED
        BY <3>2, <3>3 DEF Talk
    <2>4. QED
      BY <1>4, <2>2, <2>3 DEF Killing, KillSupervisor, KillNative, Crash
  <1>5. QED
    BY <1>2, <1>3, <1>4, TalkRead DEF ChildSteps

\* A child that is replaced starts afresh.
LEMMA TalkReplaced ==
    ASSUME Shape, Placed, Talk, Remembered, Recovery
    PROVE  Talk'
  <1>1. manager \in Managers
    BY DEF Shape
  <1>2. CASE Rebuild
    <2>1. /\ toChild' = <<>> /\ toParent' = <<>> /\ child'.life = "booting"
          /\ child'.active = None /\ child'.inferring = FALSE
          /\ manager'.at = "starting" /\ process = "DESTROYED" /\ process' = process /\ op' = op
      BY <1>1, <1>2 DEF Rebuild, NoChild, Managers
    <2>2. QED
      BY <2>1 DEF Talk, Ordered, LastWord, Ready, StopsReady, Boots, Asked, Resting, Replacing
  <1>3. CASE Adopted
    <2>1. /\ manager.at = "starting" /\ toParent # <<>> /\ toParent' = Tail(toParent)
          /\ process' = "READY" /\ asr'.active = asr.active /\ manager'.at = "idle"
          /\ UNCHANGED <<call, op, child, toChild>>
      BY <1>1, <1>3 DEF Adopted, Shape, Adapters, Managers
    <2>2. /\ op.at = "none" /\ process = "DESTROYED" /\ toChild = <<>> /\ child.active = None
          /\ Len(toParent) <= 1 /\ child.life # "booting"
      BY <2>1 DEF Talk, Boots, Placed, Replacing
    <2>3. asr.active = None
      BY <2>1, <2>2 DEF Remembered, Cleaning
    <2>4. toParent' = <<>>
      <3>1. \A s \in Seq(Events) : s # <<>> /\ Len(s) <= 1 => Tail(s) = <<>>
        <4>1. \A s \in Seq(Events) : Len(s) = 0 => s = <<>>
          OBVIOUS
        <4>2. \A s \in Seq(Events) : s # <<>> =>
                  Tail(s) \in Seq(Events) /\ Len(Tail(s)) = Len(s) - 1 /\ Len(s) \in Nat
          BY Takes
        <4>3. \A s \in Seq(Events) : s # <<>> => Len(s) # 0
          BY <4>1
        <4>4. QED
          BY <4>1, <4>2, <4>3
      <3>2. QED
        BY <2>1, <2>2, <3>1 DEF Shape
    <2>5. Ordered' /\ StopsReady' /\ Boots'
      BY <2>1, <2>2, <2>4 DEF Talk, Ordered, StopsReady, Boots, Asked, Replacing
    <2>6. LastWord' /\ Ready'
      BY <2>1, <2>2, <2>3, <2>4 DEF LastWord, Ready, Asked, Resting
    <2>7. QED
      BY <2>5, <2>6 DEF Talk
  <1>4. CASE StartFails
    BY <1>1, <1>4, TalkKept DEF StartFails, Managers, Replacing, Stopping, pipes, Talk, Boots
  <1>5. CASE ReplacementKilled
    <2>1. /\ manager.at = "replace_kill" /\ manager'.at = "fatal" /\ child.life # "booting"
          /\ UNCHANGED <<op, asr, process, child, toChild, toParent>>
      BY <1>1, <1>5 DEF ReplacementKilled, GroupDead, Fatal, Managers, pipes
    <2>2. op.at = "none" /\ toChild = <<>> /\ process = "DESTROYED"
      BY <2>1 DEF Talk, Boots, Placed, Replacing
    <2>3. Ordered' /\ StopsReady' /\ Boots'
      BY <2>1, <2>2 DEF Talk, Ordered, StopsReady, Boots, Asked, Replacing
    <2>4. LastWord' /\ Ready'
      BY <2>1, <2>2 DEF Talk, LastWord, Ready, Asked, Resting
    <2>5. QED
      BY <2>3, <2>4 DEF Talk
  <1>6. QED
    BY <1>2, <1>3, <1>4, <1>5 DEF Recovery

\* The stop speaks to a child that rests.
LEMMA TalkStopped ==
    ASSUME Shape, Placed, Talk, Shutdown
    PROVE  Talk'
  <1>1. manager \in Managers
    BY DEF Shape
  <1>2. CASE Stop
    <2>1. /\ manager.at = "idle" /\ call.at = "idle" /\ op.at = "none"
          /\ UNCHANGED <<op, asr, process, child, toParent>>
      BY <1>2 DEF Stop, Placed
    <2>2. manager.at \notin Stopping \cup Replacing /\ child.life # "booting"
      BY <2>1 DEF Talk, Boots, Stopping, Replacing
    <2>3. manager'.at \in Stopping /\ manager'.at \notin Replacing
          /\ (manager'.at # "stopped" => process = "READY")
      BY <1>1, <1>2 DEF Stop, Managers, Stopping, Replacing
    <2>4. CASE toChild' = toChild
      BY <2>1, <2>2, <2>3, <2>4, TalkKept
    <2>5. CASE process = "READY" /\ toChild' = toChild \o <<[op |-> "SHUTDOWN", id |-> None]>>
      <3> DEFINE c == [op |-> "SHUTDOWN", id |-> None]
      <3>1. c \in Commands /\ c.op = "SHUTDOWN"
        BY DEF Commands, None
      <3> HIDE DEF c
      <3>2. toChild' = toChild \o <<c>>
        BY <2>5 DEF c
      <3>3. \A i \in DOMAIN toChild' : \/ i \in DOMAIN toChild /\ toChild'[i] = toChild[i]
                                       \/ toChild'[i].op = "SHUTDOWN"
        BY <3>1, <3>2, Behindhand DEF Shape
      <3>4. toParent = <<>> /\ Resting
        BY <2>2, <2>5 DEF Talk, Ready
      <3>5. Ordered'
        BY <2>1, <3>3 DEF Talk, Ordered, Asked
      <3>6. ~Asked("BEGIN")'
        BY <3>3, <3>4 DEF Resting, Asked
      <3>7. LastWord'
        BY <2>1, <2>3, <3>4, <3>6 DEF LastWord, Resting, Silent
      <3>8. Ready' /\ StopsReady' /\ Boots'
        BY <2>1, <2>2, <2>3, <2>5, <3>4, <3>6 DEF Talk, Ready, StopsReady, Boots, Resting
      <3>9. QED
        BY <3>5, <3>7, <3>8 DEF Talk
    <2>6. QED
      BY <1>2, <2>4, <2>5 DEF Stop, Write
  <1>3. CASE StopAcknowledged
    <2>1. /\ manager.at = "stop_ack" /\ manager'.at \in {"stop_exit", "stop_kill"}
          /\ Hears /\ Consume /\ UNCHANGED <<op, asr, process, child, toChild>>
      BY <1>1, <1>3 DEF StopAcknowledged, Managers
    <2>2. /\ op.at = "none" /\ process = "READY" /\ child.life # "booting"
          /\ manager.at \in Stopping /\ manager'.at \in Stopping /\ manager'.at \notin Replacing
      BY <2>1 DEF Talk, Boots, StopsReady, Placed, Stopping, Replacing
    <2>3. Ordered'
      BY <2>1 DEF Talk, Ordered, Asked
    <2>4. (Resting => Resting') /\ (Asked("SHUTDOWN")' => Asked("SHUTDOWN"))
      BY <2>1 DEF Resting, Asked
    <2>5. LastWord'
      BY <2>1, <2>2, <2>4, Unheard DEF Talk, LastWord
    <2>6. Ready' /\ StopsReady' /\ Boots'
      BY <2>1, <2>2, <2>4 DEF Talk, Ready, StopsReady, Boots
    <2>7. QED
      BY <2>3, <2>5, <2>6 DEF Talk
  <1>4. CASE StopExpires
    BY <1>1, <1>4, TalkKept DEF StopExpires, Managers, Replacing, Stopping, pipes, Talk, StopsReady
  <1>5. CASE Stopped
    BY <1>1, <1>5, TalkKept DEF Stopped, Managers, Replacing, Stopping, pipes, Talk, StopsReady
  <1>6. QED
    BY <1>2, <1>3, <1>4, <1>5 DEF Shutdown

\* Every step keeps it.
LEMMA TalkStep ==
    ASSUME Shape, Placed, Allocated, Remembered, Talk, [Next]_vars
    PROVE  Talk'
  <1>1. /\ call \in Calls /\ op \in Operations /\ asr \in Adapters /\ manager \in Managers
        /\ CancelledOp.at = op.at /\ CancelledOp.held = op.held
    BY Cancelling DEF Shape
  <1>2. CASE /\ UNCHANGED <<child, toChild, toParent, process, manager>>
             /\ asr'.active \in {asr.active, None}
             /\ op'.at = "draining" => op.at = "draining" /\ op'.held = op.held
    BY <1>2, TalkKept DEF Talk, StopsReady
  <1>3. CASE Perceive \/ Body
    <2>1. /\ UNCHANGED <<child, toChild, toParent, process, manager>>
          /\ asr'.active = asr.active /\ (op' \in {op, CancelledOp} \/ op'.at \in {"none", "begin"})
      BY <1>1, <1>3 DEF Perceive, Body, Deadline, AbortReturns, OpReturns, CallEnds, Judge, pipes,
         NoOp, Adapters
    <2>2. QED
      BY <1>1, <1>2, <2>1
  <1>4. CASE Transcribe \/ OpCancelled \/ Released \/ CaptureRaised \/ FailureCleaned
             \/ FailureRaised \/ FailureUnproven \/ CaptureFails \/ AudioThread
    <2>1. UNCHANGED <<child, toChild, toParent, process, manager>>
      BY <1>4 DEF Transcribe, OpCancelled, Released, CaptureRaised, FailureCleaned, FailureRaised,
         FailureUnproven, CaptureFails, AudioThread, pipes
    <2>2. asr'.active \in {asr.active, None}
      BY <1>1, <1>4 DEF Transcribe, OpCancelled, Released, CaptureRaised, FailureCleaned,
         FailureRaised, FailureUnproven, CaptureFails, AudioThread, Adapters
    <2>3. op'.at # "draining" \/ op' = op
      BY <1>1, <1>4 DEF Transcribe, OpCancelled, Released, CaptureRaised, FailureCleaned,
         FailureRaised, FailureUnproven, CaptureFails, AudioThread, Done, Operations
    <2>4. QED
      BY <1>2, <2>1, <2>2, <2>3
  <1>5. CASE SendCancel
    <2>1. /\ op.at \in {"reply", "frame"} /\ ~op.cancel /\ op'.at \in {"reply", "late"}
          /\ UNCHANGED <<process, child, toParent, manager>> /\ CancelOnce
      BY <1>1, <1>5 DEF SendCancel, Operations
    <2>2. asr'.active = asr.active /\ (toChild' = toChild \/ Write(<<Cmd("CANCEL")>>))
      BY <1>1, <2>1 DEF CancelOnce, Adapters
    <2>3. QED
      BY <2>1, <2>2, TalkWritten DEF Speaking
  <1>6. CASE FailureTerminated
    <2>1. UNCHANGED <<child, toChild, toParent, asr, manager>> /\ process' = "DESTROYED"
          /\ op.at = "failing" /\ op'.at = "failing"
      BY <1>1, <1>6 DEF FailureTerminated, pipes, Operations
    <2>2. manager.at \notin Stopping \cup Replacing
      BY <2>1, Engaged
    <2>3. QED
      BY <2>1, <2>2, TalkKept DEF Stopping
  <1>7. CASE FrameReady
    <2>1. CASE op.at = "first"
      BY <1>7, <2>1, TalkOpened
    <2>2. CASE op.at = "frame"
      <3>1. /\ ~op.cancel /\ op'.at = "reply" /\ Write(<<Cmd("FRAME")>>)
            /\ UNCHANGED <<process, asr, child, toParent, manager>>
        BY <1>1, <1>7, <2>2 DEF FrameReady, Operations
      <3>2. QED
        BY <2>2, <3>1, TalkWritten DEF Speaking
    <2>3. CASE op.at = "late"
      <3>1. UNCHANGED <<op, asr, process, child, toChild, toParent, manager>>
        BY <1>7, <2>3 DEF FrameReady
      <3>2. QED
        BY <1>2, <3>1
    <2>4. QED
      BY <1>7, <2>1, <2>2, <2>3 DEF FrameReady
  <1>8. CASE SourceEnds
    <2>1. CASE op.at = "first"
      <3>1. UNCHANGED <<asr, process, child, toChild, toParent, manager>> /\ op'.at = "done"
        BY <1>1, <1>8, <2>1 DEF SourceEnds, Done, Operations
      <3>2. QED
        BY <1>2, <3>1
    <2>2. CASE op.at = "frame"
      <3>1. /\ ~op.cancel /\ op'.at = "reply" /\ Write(<<Cmd("FRAME")>>)
            /\ UNCHANGED <<process, asr, child, toParent, manager>>
        BY <1>1, <1>8, <2>2 DEF SourceEnds, Operations
      <3>2. QED
        BY <2>2, <3>1, TalkWritten DEF Speaking
    <2>3. QED
      BY <1>8, <2>1, <2>2 DEF SourceEnds
  <1>9. CASE Abort \/ Convergence
    <2>1. /\ UNCHANGED <<child, toChild, toParent>> /\ op' \in {op, CancelledOp}
          /\ asr'.active \in {asr.active, None}
      <3>1. CASE ForceAbort
        BY <1>1, <1>9, <3>1 DEF Abort, Convergence, Level1Cancels, Level1Ends, Level1Expires,
           FaultConverges, Level2Terminated, Level2Cleaned, Level2Ends, Level2Expires, ForceAbort,
           Adapters, pipes
      <3>2. CASE ~ForceAbort
        BY <1>1, <1>9, <3>2 DEF Abort, Convergence, Level1Cancels, Level1Ends, Level1Expires,
           FaultConverges, Level2Terminated, Level2Cleaned, Level2Ends, Level2Expires, Adapters, pipes
      <3>3. QED
        BY <3>1, <3>2
    <2>2. process' \in {process, "DESTROYED"}
      BY <1>9 DEF Abort, Convergence, Level1Cancels, Level1Ends, Level1Expires,
         FaultConverges, Level2Terminated, Level2Cleaned, Level2Ends, Level2Expires
    <2>3. manager.at \notin Stopping \cup Replacing
      BY <1>9 DEF Abort, Convergence, Level1Cancels, Level1Ends, Level1Expires, FaultConverges,
         Level2Terminated, Level2Cleaned, Level2Ends, Level2Expires, Stopping, Replacing
    <2>4. manager'.at \notin Stopping \cup Replacing
      <3>1. CASE ForceAbort
        BY <3>1, Forcing DEF Stopping, Replacing
      <3>2. CASE ~ForceAbort
        BY <1>1, <1>9, <3>2 DEF Abort, Convergence, Level1Cancels, Level1Ends, Level1Expires,
           FaultConverges, Level2Terminated, Level2Cleaned, Level2Ends, Level2Expires, Fatal,
           Managers, Stopping, Replacing
      <3>3. QED
        BY <3>1, <3>2
    <2>5. manager'.at \notin {"stop_ack", "stop_exit", "stop_kill"}
      BY <2>4 DEF Stopping
    <2>6. op'.at = op.at /\ op'.held = op.held
      BY <1>1, <2>1
    <2>7. QED
      BY <2>1, <2>2, <2>3, <2>4, <2>5, <2>6, TalkKept
  <1>10. CASE UNCHANGED vars
    BY <1>2, <1>10 DEF vars
  <1>11. QED
    BY <1>3, <1>4, <1>5, <1>6, <1>7, <1>8, <1>9, <1>10, TalkHeard, TalkLate, TalkChild,
       TalkReplaced, TalkStopped
    DEF Next, Operation, Microphone

(***************************************************************************)
(* The invariant, and what it says.                                        *)
(***************************************************************************)
\* It holds when startup has succeeded.
LEMMA Starts ==
    Init => IInv
  <1> SUFFICES ASSUME Init
               PROVE  IInv
    OBVIOUS
  <1>1. /\ call.at = "idle" /\ op = NoOp /\ manager.at = "idle" /\ process = "READY"
        /\ mic = [stream |-> FALSE, queue |-> <<>>]
        /\ toChild = <<>> /\ toParent = <<>> /\ child = Running
        /\ asr = [active |-> 0, cancel |-> FALSE, ready |-> TRUE,
                  cancelSent |-> 0, destroyed |-> FALSE, nextId |-> 1]
        /\ calls = 0 /\ generation = 1 /\ crashes = 0
    BY DEF Init, None
  <1>2. NoOp \in Operations /\ NoOp.at = "none"
    BY Bounds DEF NoOp, Operations, Places
  <1>3. /\ Running \in Children /\ Running.life = "up" /\ Running.active = None
        /\ Running.inferring = FALSE
    <2>1. NoChild \in Children
      BY Bounds DEF NoChild, Children, None
    <2>2. QED
      BY <2>1 DEF Running, Children, NoChild
  <1>4. Shape
    <2>1. call \in Calls
      BY DEF Init, Calls, NoFault
    <2>2. asr \in Adapters
      BY <1>1 DEF Adapters
    <2>3. manager \in Managers /\ mic \in Mics
      BY DEF Init, Managers, Mics
    <2>4. toChild \in Seq(Commands) /\ toParent \in Seq(Events)
      BY <1>1
    <2>5. QED
      BY <1>1, <1>2, <1>3, <2>1, <2>2, <2>3, <2>4, Bounds DEF Shape, ChildStates
  <1>5. Placed /\ Allocated
    BY <1>1, <1>2 DEF Placed, Allocated, Fresh, Speaking, Stopping, Replacing
  <1>6. MicInv
    BY <1>1, <1>2 DEF MicInv, Behind, OneRead, Reading, Queued
  <1>7. Ordered /\ LastWord /\ Ready /\ StopsReady /\ Boots
    BY <1>1, <1>2, <1>3 DEF Ordered, LastWord, Ready, StopsReady, Boots, Asked, Resting, Replacing, None
  <1>8. Gone /\ Forced /\ Remembered
    BY <1>1 DEF Gone, Forced, Remembered
  <1>9. QED
    BY <1>4, <1>5, <1>6, <1>7, <1>8 DEF IInv

\* Every step keeps it.
LEMMA Continues ==
    IInv /\ [Next]_vars => IInv'
  <1> SUFFICES ASSUME IInv, [Next]_vars
               PROVE  IInv'
    OBVIOUS
  <1>1. /\ Shape /\ Placed /\ Allocated /\ MicInv /\ Talk /\ Gone /\ Forced /\ Remembered
        /\ Ready /\ StopsReady /\ Boots
    BY DEF IInv, Talk
  <1>2. Shape' /\ Placed' /\ Allocated' /\ MicInv'
    BY <1>1, ShapeStep, PlacedStep, AllocatedStep, MicStep
  <1>3. Talk' /\ Gone' /\ Forced' /\ Remembered'
    BY <1>1, TalkStep, GoneStep, ForcedStep, RememberedStep
  <1>4. QED
    BY <1>2, <1>3 DEF IInv, Talk

\* So it holds in every behaviour.
LEMMA Holds ==
    Spec => []IInv
  BY Starts, Continues, PTL DEF Spec

\* The types, among them that no more requests are numbered than calls are made; and a
\* FramedProcess that says STOPPED or DESTROYED has no live member left, unless its
\* replacement is being started (framed_child.py, force_terminate and aclose).
THEOREM EngineAlone ==
    Spec => []OneEngine
  <1>1. IInv => OneEngine
    <2> SUFFICES ASSUME IInv
                 PROVE  OneEngine
      OBVIOUS
    <2>1. /\ call \in Calls /\ op \in Operations /\ mic \in Mics /\ asr \in Adapters
          /\ process \in ChildStates /\ child \in Children /\ manager \in Managers
          /\ calls \in 0..MaxCalls /\ generation \in 1..MaxGeneration
          /\ asr.nextId <= calls + 1 /\ asr.active <= asr.nextId
      BY DEF IInv, Shape, Allocated
    <2>2. asr.active \in 0..asr.nextId /\ asr.nextId \in 1..MaxCalls + 1
      <3>1. /\ asr.active \in Nat /\ asr.nextId \in Nat /\ asr.nextId # 0
            /\ calls \in Nat /\ calls <= MaxCalls /\ MaxCalls \in Nat
        BY <2>1, Bounds DEF Adapters
      <3>2. QED
        BY <2>1, <3>1
    <2>3. \A i \in DOMAIN mic.queue : mic.queue[i] \in {"read", "stale", "close"}
      <3>1. mic.queue \in Seq(Jobs)
        BY <2>1 DEF Mics
      <3>2. QED
        BY <3>1 DEF Jobs
    <2>4. TypeOK
      BY <2>1, <2>2, <2>3 DEF TypeOK, Calls, Operations, Places, Mics, Children, Managers
    <2>5. (process \in {"STOPPED", "DESTROYED"} /\ manager.at \notin {"starting", "replace_kill"})
              => GroupDead
      BY DEF IInv, Gone, Replacing
    <2>6. QED
      BY <2>4, <2>5 DEF OneEngine
  <1>2. QED
    BY Holds, <1>1, PTL

\* When perceive() has ended, its operation, its stream and its read are gone; and a child
\* that says READY then has no request and nothing unread, so that the next request can
\* only hear its own answers (listener.py, perceive; whispercpp/adapter.py, transcribe).
THEOREM CallsLeaveNothing ==
    Spec => []QuietBetweenCalls
  <1>1. IInv => QuietBetweenCalls
    <2> SUFFICES ASSUME IInv, call.at = "idle"
                 PROVE  /\ op.at = "none" /\ ~mic.stream /\ ~Reading
                        /\ process = "READY" /\ manager.at = "idle" =>
                               child.active = None /\ toParent = <<>> /\ asr.active = None
      BY DEF QuietBetweenCalls
    <2>1. op.at = "none" /\ ~mic.stream /\ ~Reading
      BY DEF IInv, Placed, MicInv
    <2>2. ASSUME process = "READY", manager.at = "idle"
          PROVE  child.active = None /\ toParent = <<>> /\ asr.active = None
      BY <2>2 DEF IInv, Ready, Resting, Stopping
    <2>3. QED
      BY <2>1, <2>2
  <1>2. QED
    BY Holds, <1>1, PTL

\* A child that was destroyed by a fault of its own request, whose fault was lost to a
\* cancellation, is on record until a forced abort reports it (whispercpp/adapter.py,
\* _protocol_failure and force_abort).
THEOREM DestructionIsRemembered ==
    Spec => []NoForgottenDestruction
  <1>1. IInv => NoForgottenDestruction
    BY DEF IInv, Placed, Remembered, Cleaning, Reported, Replacing, NoForgottenDestruction
  <1>2. QED
    BY Holds, <1>1, PTL
=============================================================================
