--------------------------- MODULE StreamingSpeak ---------------------------
(***************************************************************************)
(* One streamed speech between its clients: the reasoner's turn, which     *)
(* feeds it with what the LLM releases (cognition/reasoner.py, over        *)
(* litert_lm/adapter.py), the action that adopts it (action/speak/         *)
(* speaker.py), and the manager, which may interrupt either and converges  *)
(* them (core/state_manager/convergence.py).  The control, its task and    *)
(* the TTS adapter are StreamingControl.                                   *)
(*                                                                         *)
(* A convergence that cannot go on ends the manager: phase "dead".         *)
(***************************************************************************)
EXTENDS StreamingControl

CONSTANT Turns      \* bound: the turns that think

ASSUME TurnsAssumption == Turns \in Nat

VARIABLES
    turn,        \* the turn of the last THINK
    owner,       \* the turn whose control is Speak._streaming; 0: None
    llm,         \* the child of the LLM adapter
    emitted,     \* fragments the child has released in this request
    responses,   \* _responses: events the adapter has not taken
    asked,       \* CANCEL was sent
    expired,     \* the generation timeout struck
    op,          \* the reasoner's operation task _product_turn
    after,       \* the outcome of op: what it reports once it is over
    held,        \* the fragment it is feeding, and the whole text at its end
    body,        \* the reasoner's outer task _reason_product
    thought,     \* its result
    cancelled,   \* cancel_requested of the active worker call
    speak,       \* the task of Speak.execute
    spoke,       \* its result
    inbox,       \* of the manager
    phase,       \* of the manager
    record,      \* the worker in _in_flight
    error,       \* the manager is in state ERROR
    declared,    \* _fault_recovery_keys
    conv,        \* where converge() stands
    target,      \* the record it converges
    report       \* destroyed backends reported by level 2

llmVars     == <<llm, emitted, responses, asked, expired>>
opVars      == <<op, after, held>>
bodyVars    == <<body, thought, cancelled>>
speakVars   == <<speak, spoke>>
managerVars == <<inbox, phase, record, error, declared>>
convVars    == <<conv, target, report>>
vars == <<streamVars, turn, owner, llmVars, opVars, bodyVars, speakVars, managerVars, convVars>>

Keys      == {"llm", "tts", "audio"}
Terminals == {"text", "more", "empty", "failed", "cancelled", "eof"}
Outcomes  == {"none", "response", "notice", "silent", "llm", "reusable"}
Faults    == {"llm", "reusable", "tts", "audio"}     \* as published to the bus
Items     == Faults \cup {"press", "reasoned", "spoken"}

OpSteps   == {"off", "begin", "generate", "feed", "finish", "unused_join", "cancel", "cancel_tts",
              "cancel_join", "fail_tts", "fail_join", "over"}
Level1    == {"llm_abort", "cancel", "tts_abort", "join", "body_join", "speak_join"}
Level2    == {"force_llm", "force_speak", "force_close", "force_alone", "force_tts", "force_kill",
              "force_join", "force_body", "force_done"}

TypeOK ==
    /\ StreamTypeOK
    /\ turn \in 0 .. Turns /\ owner \in 0 .. Turns
    /\ llm \in {"ready", "generating", "destroyed"}
    /\ emitted \in 0 .. MaxFragments
    /\ responses \in Seq({"safe"} \cup Terminals)
    /\ asked \in BOOLEAN /\ expired \in BOOLEAN
    /\ op \in OpSteps /\ after \in Outcomes /\ held \in Seq(Fragments)
    /\ body \in {"off", "await", "abort", "reap"} /\ thought \in Outcomes
    /\ cancelled \in BOOLEAN
    /\ speak \in {"off", "created", "waiting"} /\ spoke \in {"none", "ok", "silent", "tts", "raw"}
    /\ inbox \in Seq(Items)
    /\ phase \in {"rest", "think", "action", "converge", "settle", "dead"}
    /\ record \in {"none", "reasoner", "speak"}
    /\ error \in BOOLEAN /\ declared \subseteq Keys
    /\ conv \in {"off", "end"} \cup Level1 \cup Level2
    /\ target \in {"none", "reasoner", "speak"} /\ report \subseteq Keys

Init ==
    /\ StreamInit
    /\ turn = 0 /\ owner = 0
    /\ llm = "ready" /\ emitted = 0 /\ responses = <<>> /\ asked = FALSE /\ expired = FALSE
    /\ op = "off" /\ after = "none" /\ held = <<>>
    /\ body = "off" /\ thought = "none" /\ cancelled = FALSE
    /\ speak = "off" /\ spoke = "none"
    /\ inbox = <<>> /\ phase = "rest" /\ record = "none" /\ error = FALSE /\ declared = {}
    /\ conv = "off" /\ target = "none" /\ report = {}

Put(item) == inbox' = Append(inbox, item)

-----------------------------------------------------------------------------
(* The LLM child and the adapter's wire reader.                            *)

\* No terminal frame has been sent.
Released == \A i \in DOMAIN responses : responses[i] = "safe"

ChildReleases ==
    /\ llm = "generating" /\ Released
    /\ emitted < MaxFragments
    /\ responses' = Append(responses, "safe")
    /\ emitted' = emitted + 1
    /\ UNCHANGED <<llm, asked, expired>>

\* The terminal frame: the text released so far, that and some more, no text,
\* REQUEST_FAILED, or CANCELLED.
ChildEnds ==
    /\ llm = "generating" /\ Released
    /\ \E t \in Terminals \ {"eof"} :
         /\ t = "text" => emitted > 0
         /\ t = "more" => emitted < MaxFragments
         /\ t = "empty" => emitted = 0
         /\ t = "cancelled" => asked
         /\ responses' = Append(responses, t)
    /\ UNCHANGED <<llm, emitted, asked, expired>>

\* _destroy(): what was not taken is lost, and _operation_done is set.
Destroyed ==
    /\ llm' = "destroyed"
    /\ responses' = <<"eof">>

ChildDies ==
    /\ llm = "generating"
    /\ Destroyed
    /\ UNCHANGED <<emitted, asked, expired>>

Child ==
    /\ ChildReleases \/ ChildEnds \/ ChildDies
    /\ UNCHANGED <<streamVars, turn, owner, opVars, bodyVars, speakVars, managerVars, convVars>>

-----------------------------------------------------------------------------
(* The reasoner's operation: _product_turn over the adapter's _request.    *)

GoesOn(step) == op' = step /\ UNCHANGED after
Goes(step, outcome) == op' = step /\ after' = outcome
OverAs(outcome) == Goes("over", outcome)

\* begin_streaming(), which refuses while an earlier control is owned; then
\* generate(), which may be denied memory: the new control is closed at once.
OpBegins ==
    /\ op = "begin"
    /\ \/ /\ owner = 0
          /\ owner' = turn
          /\ \/ /\ Open("CANCELLED") /\ Goes("unused_join", "notice")
                /\ UNCHANGED llmVars
             \/ /\ Open("OPEN") /\ GoesOn("generate")
                /\ llm' = "generating" /\ emitted' = 0 /\ responses' = <<>>
                /\ asked' = FALSE /\ expired' = FALSE
       \/ /\ owner # 0
          /\ OverAs("llm")
          /\ UNCHANGED <<streamVars, owner, llmVars>>
    /\ UNCHANGED held

\* A SAFE_TEXT goes to feed(), in the order of the fragments.
SafeIn(frames) == {i \in DOMAIN frames : frames[i] = "safe"}

OpTakesFragment ==
    /\ op = "generate"
    /\ responses # <<>> /\ Head(responses) = "safe"
    /\ held' = <<emitted - Cardinality(SafeIn(responses))>>
    /\ responses' = Tail(responses)
    /\ GoesOn("feed")
    /\ UNCHANGED <<streamVars, owner, llm, emitted, asked, expired>>

OpFeeds ==
    /\ op = "feed"
    /\ Feed(held[1])
    /\ GoesOn("generate")
    /\ UNCHANGED <<owner, llmVars, held>>

\* feed() raised: _request destroys the child.
OpRefused ==
    /\ op = "feed"
    /\ FeedRefused(held[1])
    /\ Destroyed
    /\ Goes("cancel", "llm")
    /\ UNCHANGED <<streamVars, owner, emitted, asked, expired, held>>

\* cancel() and fail() on a control that has ended do nothing: it is released.
CancelsSpeech(outcome) ==
    IF state = "COMPLETED"
      THEN /\ OverAs(outcome)
           /\ owner' = 0
           /\ UNCHANGED streamVars
      ELSE /\ Cancel
           /\ Goes(IF tts = "busy" THEN "cancel_tts" ELSE "cancel_join", outcome)
           /\ UNCHANGED owner

FailsSpeech(outcome) ==
    IF state \in {"COMPLETED", "CANCELLED", "FAILED"}
      THEN /\ OverAs(outcome)
           /\ owner' = 0
           /\ UNCHANGED streamVars
      ELSE /\ Fail
           /\ Goes("fail_tts", outcome)
           /\ UNCHANGED owner

\* close_unused(), whose error leaves the control owned.
ClosesSpeech(outcome) ==
    /\ IF state = "OPEN"
         THEN CloseUnused /\ Goes("unused_join", outcome)
         ELSE OverAs("llm") /\ UNCHANGED streamVars
    /\ UNCHANGED owner

\* The fragments still to feed, then finish(): each of them may wait.
FinishesSpeech(text) ==
    /\ \/ Finish(text) /\ OverAs("response")
       \/ Len(Remainder(text)) > 1 /\ Feed(Len(admitted)) /\ GoesOn("finish")
       \/ state # "OPEN" /\ OverAs("llm") /\ UNCHANGED streamVars
       \/ FinishWaits(text) /\ GoesOn("finish") /\ UNCHANGED streamVars
    /\ UNCHANGED owner

\* ReplaceableGenerationFailure: what was admitted must be taken back.
Replaceable == IF admitted # <<>> THEN FailsSpeech("reusable") ELSE ClosesSpeech("notice")

\* The terminal ends the request; what follows runs at once.
OpTakesTerminal ==
    /\ op = "generate"
    /\ responses # <<>> /\ Head(responses) \in Terminals
    /\ responses' = Tail(responses)
    /\ llm' = IF llm = "generating" THEN "ready" ELSE llm
    /\ held' = CASE Head(responses) = "text" -> Text(emitted)
                 [] Head(responses) = "more" -> Text(emitted + 1)
                 [] OTHER -> held
    /\ CASE Head(responses) \in {"text", "more"} -> FinishesSpeech(held')
         [] Head(responses) = "empty"            -> ClosesSpeech("notice")
         [] Head(responses) = "failed"           -> Replaceable
         [] Head(responses) = "cancelled"        -> IF expired THEN Replaceable
                                                               ELSE CancelsSpeech("silent")
         [] Head(responses) = "eof"              -> CancelsSpeech("llm")
    /\ UNCHANGED <<emitted, asked, expired>>

OpExpiresOutside ==                              \* mutant: a blocked feed() does not expire
    /\ op = "generate"
    /\ llm = "generating"
    /\ IF expired
         THEN Destroyed /\ Goes("cancel", "llm") /\ UNCHANGED <<asked, expired>>
         ELSE /\ expired' = TRUE /\ asked' = TRUE
              /\ GoesOn("generate")
              /\ UNCHANGED <<llm, responses>>
    /\ UNCHANGED <<streamVars, owner, emitted, held>>

\* The generation timeout cancels the wait, even inside feed(), and asks the
\* child to stop; when the grace expires too, the child is destroyed.
OpExpires ==
    /\ op \in {"generate", "feed"}
    /\ llm = "generating"
    /\ IF expired
         THEN Destroyed /\ Goes("cancel", "llm") /\ UNCHANGED <<asked, expired>>
         ELSE /\ expired' = TRUE /\ asked' = TRUE
              /\ GoesOn("generate")
              /\ UNCHANGED <<llm, responses>>
    /\ UNCHANGED <<streamVars, owner, emitted, held>>

OpFinishes ==
    /\ op = "finish"
    /\ ~FinishWaits(held)
    /\ FinishesSpeech(held)
    /\ UNCHANGED <<llmVars, held>>

OpCancels ==
    /\ op = "cancel"
    /\ CancelsSpeech(after)
    /\ UNCHANGED <<llmVars, held>>

\* TTSAdapter.abort() returns when the request of the child has its answer.
OpSilences ==
    /\ op \in {"cancel_tts", "fail_tts"}
    /\ tts # "busy"
    /\ IF op = "cancel_tts"
         THEN CancelKill /\ GoesOn("cancel_join")
         ELSE UNCHANGED streamVars /\ GoesOn("fail_join")
    /\ UNCHANGED <<owner, llmVars, held>>

OpReleasesEarly ==                               \* mutant: does not join the task
    /\ op \in {"cancel_join", "fail_join", "unused_join"}
    /\ owner' = 0
    /\ inflight' = IF op = "unused_join" THEN inflight ELSE <<>>
    /\ GoesOn("over")
    /\ UNCHANGED <<state, pending, bytes, admitted, acknowledged, terminal, adopted,
                   taskVars, ttsVars, llmVars, held>>

\* The task has ended: release_streaming().
OpReleases ==
    /\ op \in {"cancel_join", "fail_join", "unused_join"}
    /\ runner = "over"
    /\ owner' = 0
    /\ inflight' = IF op = "unused_join" THEN inflight ELSE <<>>
    /\ GoesOn("over")
    /\ UNCHANGED <<state, pending, bytes, admitted, acknowledged, terminal, adopted,
                   taskVars, ttsVars, llmVars, held>>

Operation ==
    /\ \/ OpBegins
       \/ OpTakesFragment
       \/ OpFeeds
       \/ OpRefused
       \/ OpTakesTerminal
       \/ OpExpires
       \/ OpFinishes
       \/ OpCancels
       \/ OpSilences
       \/ OpReleases
    /\ UNCHANGED <<turn, bodyVars, speakVars, managerVars, convVars>>

\* _cancel_operation(): CancelledError reaches the operation where it waits. In
\* its request, whose child is idle or destroyed by then, it goes on to cancel
\* the control. Elsewhere, and while it already cleans up, it just ends; a task
\* that it was gathering is killed with it.
StopsOperation ==
    CASE op \in {"generate", "feed", "cancel"} -> Goes("cancel", "silent")
      [] op \in {"off", "over"}                -> UNCHANGED <<op, after>>
      [] OTHER                                 -> OverAs("silent")

CancelsOperation ==
    /\ StopsOperation
    /\ IF op \in {"unused_join", "cancel_join", "fail_join"}
         THEN Kill ELSE UNCHANGED taskVars
    /\ UNCHANGED <<llmVars, held, controlVars, ttsVars>>

-----------------------------------------------------------------------------
(* The reasoner's outer task: _reason_product in _run_call.                *)

\* It publishes the response or the fault unless it was told to abort, then ends.
BodyEnds ==
    /\ body = "await" /\ op = "over"
    /\ body' = "off"
    /\ thought' = IF cancelled /\ after \in {"response", "notice"} THEN "silent" ELSE after
    /\ inbox' = inbox \o (IF after \in Faults /\ ~cancelled THEN <<after>> ELSE <<>>)
                     \o <<"reasoned">>
    /\ UNCHANGED <<streamVars, owner, llmVars, opVars, cancelled>>

\* reason_timeout_seconds: abort the LLM, which waits for its request ...
BodyExpires ==
    /\ body = "await" /\ op # "over"
    /\ llm = "generating"
    /\ body' = "abort"
    /\ asked' = TRUE
    /\ UNCHANGED <<streamVars, owner, llm, emitted, responses, expired, opVars, thought, cancelled, inbox>>

\* ... publish LLM_CLEANUP_UNPROVEN and cancel the operation ...
BodyRaises ==
    /\ (body = "await" /\ op # "over") \/ body = "abort"
    /\ llm # "generating"
    /\ body' = "reap"
    /\ CancelsOperation
    /\ inbox' = IF cancelled THEN inbox ELSE Append(inbox, "llm")
    /\ UNCHANGED <<owner, thought, cancelled>>

\* ... and wait for it.
BodyReaps ==
    /\ body = "reap" /\ op = "over"
    /\ body' = "off"
    /\ thought' = "llm"
    /\ Put("reasoned")
    /\ UNCHANGED <<streamVars, owner, llmVars, opVars, cancelled>>

Body ==
    /\ BodyEnds \/ BodyExpires \/ BodyRaises \/ BodyReaps
    /\ UNCHANGED <<turn, speakVars, phase, record, error, declared, convVars>>

-----------------------------------------------------------------------------
(* The speech task, as the bus and the action see it.                      *)

\* The task's fault reaches the manager's inbox.
FaultOf(cause) == IF cause = "audio" THEN "audio" ELSE "tts"

Runner ==
    /\ RunnerStep
    /\ inbox' = IF Publishes THEN Append(inbox, FaultOf(ending')) ELSE inbox
    /\ UNCHANGED <<turn, owner, llmVars, opVars, bodyVars, speakVars, phase, record, error,
                   declared, convVars>>

\* execute() of the action: adopt the control and wait for its task.
SpeakStarts ==
    /\ speak = "created"
    /\ owner = turn
    /\ Adopt
    /\ speak' = "waiting"
    /\ cancelled' = FALSE
    /\ UNCHANGED <<owner, spoke, inbox>>

SpeakEnds ==
    /\ speak = "waiting" /\ runner = "over"
    /\ speak' = "off"
    /\ spoke' = CASE ending = "ok" -> "ok"
                  [] ending = "cancelled" -> IF cancelled THEN "silent" ELSE "raw"
                  [] ending = "tts" -> "tts"
                  [] OTHER -> "raw"
    /\ owner' = 0
    /\ Put("spoken")
    /\ UNCHANGED <<streamVars, cancelled>>

Action ==
    /\ SpeakStarts \/ SpeakEnds
    /\ UNCHANGED <<turn, llmVars, opVars, body, thought, phase, record, error, declared, convVars>>

-----------------------------------------------------------------------------
(* The manager: turns, notices, and the start of a convergence.            *)

Dies == phase' = "dead"

Receives(item) ==
    /\ phase \notin {"converge", "dead"}
    /\ inbox # <<>> /\ Head(inbox) = item
    /\ inbox' = Tail(inbox)

\* A THINK that generates. What came before, and one-shot actions, are left out.
StartTurn ==
    /\ phase = "rest" /\ turn < Turns
    /\ llm # "destroyed"
    /\ turn' = turn + 1
    /\ phase' = "think" /\ record' = "reasoner"
    /\ llm' = "ready" /\ responses' = <<>>
    /\ op' = "begin" /\ after' = "none" /\ held' = <<>>
    /\ body' = "await" /\ thought' = "none" /\ cancelled' = FALSE
    /\ spoke' = "none"
    /\ UNCHANGED <<streamVars, owner, emitted, asked, expired, speak, inbox, error, declared, convVars>>

\* The user presses the button.
Press ==
    /\ phase \in {"think", "action"}
    /\ \A i \in DOMAIN inbox : inbox[i] # "press"
    /\ Put("press")
    /\ UNCHANGED <<streamVars, turn, owner, llmVars, opVars, bodyVars, speakVars, phase, record,
                   error, declared, convVars>>

\* preflight of converge(): a task that is not done, or done with a fault that
\* requires level 2. A reusable or untyped fault does not.
Target ==
    CASE record = "reasoner" /\ (body # "off" \/ thought = "llm") -> "reasoner"
      [] record = "speak" /\ (speak # "off" \/ spoke = "tts") -> "speak"
      [] OTHER -> "none"

\* _run_abort() calls abort(), which at once asks an active call to stop.
FirstStep ==
    CASE Target = "reasoner" -> IF body # "off" THEN "llm_abort" ELSE "force_llm"
      [] Target = "speak" -> CASE speak = "waiting" -> "cancel"
                               [] speak = "created" -> "speak_join"
                               [] OTHER -> "force_speak"
      [] OTHER -> "end"

Converges ==
    /\ phase' = "converge"
    /\ target' = Target
    /\ report' = {}
    /\ conv' = FirstStep
    /\ cancelled' = (cancelled \/ FirstStep \in {"llm_abort", "cancel"})
    /\ asked' = (asked \/ (FirstStep = "llm_abort" /\ llm = "generating"))

HandlePress ==
    /\ Receives("press")
    /\ IF phase \in {"think", "action"}
         THEN Converges /\ declared' = {}
         ELSE UNCHANGED <<phase, declared, convVars, cancelled, asked>>
    /\ UNCHANGED <<record, error>>

\* In state ERROR a fault is ignored; while another convergence settles, its
\* keys are kept and nothing else happens.
HandleError ==
    \E fault \in Faults :
       /\ Receives(fault)
       /\ declared' = IF error \/ fault = "reusable" THEN declared ELSE {fault}
       /\ error' = TRUE
       /\ IF phase # "settle"
            THEN Converges
            ELSE UNCHANGED <<phase, convVars, cancelled, asked>>
       /\ UNCHANGED record

\* The record leaves _in_flight. A task that raised is a contract violation
\* unless the manager is in ERROR.
Concludes(raised) ==
    IF raised /\ ~error
      THEN Dies /\ UNCHANGED <<record, error>>
      ELSE /\ record' = "none"
           /\ phase' = "rest"
           /\ error' = FALSE

HandleReasoned ==
    /\ Receives("reasoned")
    /\ IF phase = "think" /\ thought = "response"
         THEN /\ phase' = "action" /\ record' = "speak" /\ speak' = "created"
              /\ UNCHANGED error
         ELSE Concludes(thought \in {"llm", "reusable"}) /\ UNCHANGED speak
    /\ UNCHANGED <<declared, convVars, cancelled, asked>>

HandleSpoken ==
    /\ Receives("spoken")
    /\ Concludes(spoke \in {"tts", "raw"})
    /\ UNCHANGED <<declared, convVars, cancelled, asked>>

Handler ==
    /\ \/ HandlePress /\ UNCHANGED speak
       \/ HandleError /\ UNCHANGED speak
       \/ HandleReasoned
       \/ HandleSpoken /\ UNCHANGED speak
    /\ UNCHANGED <<streamVars, turn, owner, llm, emitted, responses, expired, opVars, body,
                   thought, spoke>>

-----------------------------------------------------------------------------
(* converge(): level 1 asks the worker to stop and waits for its task.     *)

Step(step) == conv' = step

\* cancel() of the control, provisional or adopted, which is then released ...
CancelsControl ==
    IF state = "COMPLETED"
      THEN /\ owner' = 0
           /\ Step(IF target = "speak" THEN "speak_join" ELSE "body_join")
           /\ (target = "speak" \/ StopsOperation)
           /\ (target = "speak" => UNCHANGED <<op, after>>)
           /\ UNCHANGED <<streamVars, held>>
      ELSE /\ Cancel
           /\ Step(IF tts = "busy" THEN "tts_abort" ELSE "join")
           /\ UNCHANGED <<owner, opVars>>

\* LLMAdapter.abort() returns when the request is over.
AbortReasoner ==
    /\ conv = "llm_abort" /\ llm # "generating"
    /\ IF owner # 0
         THEN CancelsControl
         ELSE CancelsOperation /\ Step("body_join") /\ UNCHANGED owner

AbortSpeak ==
    /\ conv = "cancel"
    /\ IF owner # 0
         THEN CancelsControl
         ELSE Step("speak_join") /\ UNCHANGED <<streamVars, owner, opVars>>

SilenceSpeech ==
    /\ conv = "tts_abort"
    /\ CancelKill
    /\ Step("join")
    /\ UNCHANGED <<owner, opVars>>

\* ... when its task is over; the reasoner's operation is cancelled at once.
Releases(reasoner, speaker) ==
    /\ runner = "over"
    /\ inflight' = <<>>
    /\ owner' = 0
    /\ IF target = "speak"
         THEN Step(speaker) /\ UNCHANGED <<op, after>>
         ELSE Step(reasoner) /\ StopsOperation
    /\ UNCHANGED <<state, pending, bytes, admitted, acknowledged, terminal, adopted, taskVars,
                   ttsVars, held>>

JoinSpeech == conv = "join" /\ Releases("body_join", "speak_join")

\* The task is done; a fault it ended with needs level 2.
JoinReasoner ==
    /\ conv = "body_join" /\ body = "off"
    /\ Step(IF thought = "llm" THEN "force_llm" ELSE "end")
    /\ UNCHANGED <<streamVars, owner, opVars>>

JoinSpeak ==
    /\ conv = "speak_join" /\ speak = "off"
    /\ Step(IF spoke = "tts" THEN "force_speak" ELSE "end")
    /\ UNCHANGED <<streamVars, owner, opVars>>

\* Where level 1 waits for someone else.
Waits ==
    CASE conv = "llm_abort"  -> llm = "generating"
      [] conv = "tts_abort"  -> tts = "busy"
      [] conv = "join"       -> runner # "over"
      [] conv = "body_join"  -> body # "off"
      [] conv = "speak_join" -> speak = "waiting"
      [] OTHER               -> FALSE

NoTimeout == FALSE                                         \* mutant: level 1 waits for ever

\* abort_timeout_seconds; a gather cut short cancels what it gathers.
Timeout ==
    /\ Waits
    /\ Step(IF target = "speak" THEN "force_speak" ELSE "force_llm")
    /\ IF conv = "body_join"
         THEN CancelsOperation
         ELSE UNCHANGED <<streamVars, opVars>>
    /\ UNCHANGED owner

Level1Step ==
    /\ \/ AbortReasoner
       \/ AbortSpeak
       \/ SilenceSpeech
       \/ JoinSpeech
       \/ JoinReasoner
       \/ JoinSpeak
       \/ Timeout
    /\ UNCHANGED <<turn, llmVars, bodyVars, speakVars, managerVars, target, report>>

-----------------------------------------------------------------------------
(* Level 2 kills the children. Its own timeout is not modelled: it ends    *)
(* the program.                                                            *)

\* Reasoner.force_abort(): nothing to do without a call, a fault or a control.
ForceLLM ==
    /\ conv = "force_llm"
    /\ IF body = "off" /\ thought \notin {"llm", "reusable"} /\ owner = 0
         THEN Step("end") /\ UNCHANGED <<llm, responses, report, cancelled>>
         ELSE /\ Destroyed
              /\ report' = {"llm"}
              /\ cancelled' = (cancelled \/ body # "off")
              /\ Step("force_close")
    /\ UNCHANGED <<streamVars, owner, opVars>>

ForceSpeak ==
    /\ conv = "force_speak"
    /\ IF speak = "off" /\ spoke # "tts"
         THEN Step("end") /\ UNCHANGED cancelled
         ELSE cancelled' = (cancelled \/ speak # "off") /\ Step("force_close")
    /\ UNCHANGED <<streamVars, owner, opVars, llm, responses, report>>

\* force_abort() of the control; Speak kills the TTS child even without one.
ForceControl ==
    /\ conv = "force_close"
    /\ CASE owner # 0 -> ForceClose /\ Step("force_tts") /\ UNCHANGED opVars
         [] owner = 0 /\ target = "speak" -> Step("force_alone") /\ UNCHANGED <<streamVars, opVars>>
         [] OTHER -> Step("force_body") /\ CancelsOperation
    /\ UNCHANGED <<owner, llm, responses, report, cancelled>>

ForceChild ==
    /\ conv \in {"force_tts", "force_alone"}
    /\ ForceTTS
    /\ report' = IF tts = "destroyed" THEN report ELSE report \cup {"tts"}
    /\ Step(IF conv = "force_alone" THEN "force_done" ELSE "force_kill")
    /\ UNCHANGED <<owner, opVars, llm, responses, cancelled>>

ForceTask ==
    /\ conv = "force_kill"
    /\ ForceKill
    /\ Step("force_join")
    /\ UNCHANGED <<owner, opVars, llm, responses, report, cancelled>>

ForceJoin ==
    /\ conv = "force_join"
    /\ Releases("force_body", "force_done")
    /\ UNCHANGED <<llm, responses, report, cancelled>>

Level2Step ==
    /\ \/ ForceLLM
       \/ ForceSpeak
       \/ ForceControl
       \/ ForceChild
       \/ ForceTask
       \/ ForceJoin
    /\ UNCHANGED <<turn, emitted, asked, expired, body, thought, speakVars, managerVars, target>>

\* The report must be exactly what the fault of the task declared.
Checked(fault, keys) == IF fault /\ report # keys THEN Dies /\ UNCHANGED conv
                                                 ELSE Step("end") /\ UNCHANGED phase

ForceEnds ==
    /\ \/ conv = "force_body" /\ body = "off" /\ Checked(thought = "llm", {"llm"})
       \/ conv = "force_done" /\ speak = "off" /\ Checked(spoke = "tts", {"tts"})
    /\ UNCHANGED <<streamVars, turn, owner, llmVars, opVars, bodyVars, speakVars, inbox, record,
                   error, declared, target, report>>

-----------------------------------------------------------------------------
(* The manager takes the result: recovery, in one step, and the gate.      *)

\* rebuild() of the TTS adapter is legal only from DESTROYED.
Rebuildable(keys) == "tts" \in keys => tts \in {"faulted", "destroyed"}

Recovered(keys) ==
    /\ tts' = IF "tts" \in keys THEN "ready" ELSE tts
    /\ llm' = IF "llm" \in keys THEN "ready" ELSE llm
    /\ error' = (record # "none" /\ (error \/ keys # {}))

\* _finish_convergence_if_ready(): the record leaves with its notice.
ConvergenceEnds ==
    /\ conv = "end"
    /\ LET keys    == declared \cup report
           matched == declared = {} \/ report = {} \/ declared \subseteq report
       IN IF matched /\ Rebuildable(keys)
            THEN /\ conv' = "off" /\ target' = "none" /\ report' = {} /\ declared' = {}
                 /\ Recovered(keys)
                 /\ phase' = IF record = "none" THEN "rest" ELSE "settle"
            ELSE /\ Dies
                 /\ UNCHANGED <<convVars, declared, tts, llm, error>>
    /\ UNCHANGED <<controlVars, taskVars, cancelling, turn, owner, emitted, responses, asked,
                   expired, opVars, bodyVars, speakVars, inbox, record>>

Convergence == Level1Step \/ Level2Step \/ ForceEnds \/ ConvergenceEnds

-----------------------------------------------------------------------------
\* Without the manager the program stops.
Alive == phase # "dead"

Next ==
    /\ Alive
    /\ \/ Child
       \/ Operation
       \/ Body
       \/ Runner
       \/ Action
       \/ StartTurn
       \/ Press
       \/ Handler
       \/ Convergence

\* Neither the children nor the audio output owe an answer: timeouts and the
\* manager make up for them.
Fairness ==
    /\ WF_vars(Alive /\ Operation)
    /\ WF_vars(Alive /\ Body)
    /\ WF_vars(Alive /\ Runner /\ runner \notin {"synthesize", "play"})
    /\ WF_vars(Alive /\ Action)
    /\ WF_vars(Alive /\ Handler)
    /\ WF_vars(Alive /\ Convergence)

Spec == Init /\ [][Next]_vars /\ Fairness

-----------------------------------------------------------------------------
(* Safety.                                                                 *)

\* A fragment that was admitted is spoken, being spoken or queued, once and in
\* order, for as long as the text can still be completed: feed and finish on
\* one side and the task on the other share the queue (streaming.py).
NothingLost ==
    state \in {"OPEN", "TERMINAL_VALID"} =>
        acknowledged \o inflight \o pending = admitted

\* Back-pressure keeps both limits, and the count of bytes that one of them
\* reads is the weight of the queue, whoever emptied it.
PendingBounded ==
    /\ Len(pending) <= MaxPending
    /\ bytes = Weight(pending)
    /\ bytes <= MaxBytes

\* The speech is completed at most once, when the action has adopted it and
\* exactly the text of the answer has been played.
CompletionIsEarned ==
    completions > 0 =>
        /\ completions = 1
        /\ adopted
        /\ acknowledged = terminal

\* A control that the speaker has let go is not speaking any more, whichever of
\* the reasoner, the action and the convergence released it.
ReleasedIsOver ==
    owner = 0 /\ phase # "converge" => runner \in {"none", "over"}

\* The action finds the control of its own turn, with the text it was given:
\* without it execute() would speak that text a second time (speaker.py).
AnswerHasControl ==
    speak = "created" => owner = turn /\ ~adopted /\ terminal # <<>> /\ state # "OPEN"

\* The one control there is has one owner, from begin_streaming to its release:
\* neither taken from a speech that goes on, nor missing where it is looked for.
ControlIsOwned == ReleasedIsOver /\ AnswerHasControl

\* What was admitted is what is heard, within the limits of the queue, and only
\* then is the speech complete.
SpokenAsAdmitted == TypeOK /\ NothingLost /\ PendingBounded /\ CompletionIsEarned

\* After a control was closed no request goes to the TTS child and nothing is
\* completed, except while level 2 is killing that child.
ClosedIsSilent ==
    [][conv \notin Level2 /\ state \in Closed /\ state' \in Closed \cup {"COMPLETED"} =>
          /\ ~(tts = "ready" /\ tts' = "busy")
          /\ completions' <= completions]_vars

-----------------------------------------------------------------------------
(* Liveness: neither child ever has to answer.                             *)

\* converge() returns, and its record leaves.
ConvergenceStops == phase = "converge" ~> phase \in {"rest", "dead"}

\* A turn does not think for ever, not even blocked in feed() behind a speech that
\* is stuck: generation_timeout_seconds, its grace, reason_timeout_seconds.
ThinkEnds == phase = "think" ~> phase # "think"

=============================================================================
