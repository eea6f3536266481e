-------------------------- MODULE StreamingControl --------------------------
(***************************************************************************)
(* action/speak/streaming.py: StreamingSpeakControl, the bounded queue of  *)
(* one streamed speech and the task _run that speaks it, with the TTS      *)
(* adapter of action/speak/matcha that the task reads from.                *)
(*                                                                         *)
(* Every method holds the control's asyncio.Condition without waiting      *)
(* inside, except feed and _dequeue, which wait for it: a waiting call is  *)
(* an action that is not enabled.  A fragment is its sequence number, and  *)
(* a text the sequence of its fragments; what a fragment weighs in UTF-8   *)
(* is Size.                                                                *)
(***************************************************************************)
EXTENDS Integers, Sequences, FiniteSets, SequencesExt

CONSTANTS MaxPending,     \* MAX_PENDING_FRAGMENTS
          MaxBytes,       \* MAX_PENDING_UTF8_BYTES
          MaxFragments,   \* bound: the fragments of one speech
          Size            \* the bytes of each fragment

Fragments == 0 .. MaxFragments - 1

\* A fragment of more than MaxBytes is refused before anything changes.
ASSUME ControlAssumption ==
    /\ MaxPending \in Nat \ {0}
    /\ MaxBytes \in Nat \ {0}
    /\ MaxFragments \in Nat \ {0}
    /\ Size \in [Fragments -> 1 .. MaxBytes]

\* The text of n fragments, and what a text weighs.
Text(n) == [i \in 1 .. n |-> i - 1]
Weighs(sum, f) == sum + Size[f]
Weight(text) == FoldLeft(Weighs, 0, text)

VARIABLES
    state,         \* _state
    pending,       \* _pending
    bytes,         \* _pending_bytes
    inflight,      \* _inflight
    admitted,      \* _admitted
    acknowledged,  \* _acknowledged
    terminal,      \* _terminal_text
    adopted,       \* _adopted is set
    runner,        \* where the task _run stands; "over" when it is done
    ending,        \* how it ended
    tts,           \* the child of the TTS adapter
    cancelling,    \* _cancel_requested of the TTS adapter
    completions    \* ActionCompleted events published for this speech

controlVars == <<state, pending, bytes, inflight, admitted, acknowledged,
                 terminal, adopted>>
taskVars    == <<runner, ending, completions>>
ttsVars     == <<tts, cancelling>>
streamVars  == <<controlVars, taskVars, ttsVars>>

ControlStates == {"OPEN", "TERMINAL_VALID", "COMPLETED", "CANCELLED", "FAILED"}
Closed        == {"CANCELLED", "FAILED"}
RunnerSteps   == {"none", "dequeue", "batch", "synthesize", "play", "adopt", "over"}
Endings       == {"none", "ok", "cancelled", "rejected", "tts", "unready", "audio"}

\* "faulted": destroyed after a fault of its own, which force_abort still has
\* to report; "destroyed": destroyed and reported.
TTSStates     == {"ready", "busy", "faulted", "destroyed"}

StreamTypeOK ==
    /\ state \in ControlStates
    /\ pending \in Seq(Fragments)
    /\ bytes \in 0 .. MaxBytes
    /\ inflight \in Seq(Fragments)
    /\ admitted \in Seq(Fragments)
    /\ acknowledged \in Seq(Fragments)
    /\ terminal \in Seq(Fragments)
    /\ adopted \in BOOLEAN
    /\ runner \in RunnerSteps
    /\ ending \in Endings
    /\ tts \in TTSStates
    /\ cancelling \in BOOLEAN
    /\ completions \in 0 .. 1

\* Before the first speech.
StreamInit ==
    /\ state = "CANCELLED"
    /\ pending = <<>> /\ bytes = 0
    /\ inflight = <<>>
    /\ admitted = <<>> /\ acknowledged = <<>> /\ terminal = <<>>
    /\ adopted = FALSE
    /\ runner = "none" /\ ending = "none"
    /\ tts = "ready" /\ cancelling = FALSE
    /\ completions = 0

-----------------------------------------------------------------------------
(* The calls on the control.                                               *)

\* The constructor and start(); a control that is closed at once is never open.
Open(first) ==
    /\ state' = first
    /\ pending' = <<>> /\ bytes' = 0
    /\ inflight' = <<>>
    /\ admitted' = <<>> /\ acknowledged' = <<>> /\ terminal' = <<>>
    /\ adopted' = FALSE
    /\ runner' = "dequeue" /\ ending' = "none"
    /\ completions' = 0
    /\ UNCHANGED ttsVars

Full(f) == Len(pending) >= MaxPending \/ bytes + Size[f] > MaxBytes

\* feed() leaves its wait with an error.
FeedRefused(f) == state # "OPEN" \/ (~Full(f) /\ f # Len(admitted))

\* feed() leaves its wait with room for the fragment.
Feed(f) ==
    /\ state = "OPEN"
    /\ ~Full(f)
    /\ f = Len(admitted)
    /\ pending' = Append(pending, f)
    /\ bytes' = bytes + Size[f]
    /\ admitted' = Append(admitted, f)
    /\ UNCHANGED <<state, inflight, acknowledged, terminal, adopted, taskVars, ttsVars>>

\* What the text has beyond the fragments admitted.
Remainder(text) == SubSeq(text, Len(admitted) + 1, Len(text))

\* finish(): feed the remainder, which may wait, and close the text.
FinishWaits(text) == state = "OPEN" /\ Remainder(text) # <<>> /\ Full(Len(admitted))

Finish(text) ==
    /\ state = "OPEN"
    /\ Len(Remainder(text)) <= 1
    /\ ~FinishWaits(text)
    /\ pending' = pending \o Remainder(text)
    /\ bytes' = bytes + Weight(Remainder(text))
    /\ admitted' = text
    /\ terminal' = text
    /\ state' = "TERMINAL_VALID"
    /\ UNCHANGED <<inflight, acknowledged, adopted, taskVars, ttsVars>>

\* adopt(): the state is not looked at.
Adopt ==
    /\ ~adopted
    /\ adopted' = TRUE
    /\ UNCHANGED <<state, pending, bytes, inflight, admitted, acknowledged, terminal,
                   taskVars, ttsVars>>

Drop(closed) ==
    /\ state' = closed
    /\ pending' = <<>>
    /\ bytes' = 0
    /\ UNCHANGED <<inflight, admitted, acknowledged, terminal, adopted>>

\* task.cancel(): the task raises CancelledError where it waits. The reply to a
\* request it was reading from the TTS child will never be read.
Kill ==
    /\ IF runner \in {"none", "over"}
         THEN UNCHANGED <<runner, ending>>
         ELSE runner' = "over" /\ ending' = "cancelled"
    /\ UNCHANGED completions

CancelIdle ==                           \* mutant: the task of an idle child is not killed
    /\ state # "COMPLETED"
    /\ Drop("CANCELLED")
    /\ cancelling' = (cancelling \/ tts = "busy")
    /\ UNCHANGED <<tts, taskVars>>

\* cancel(): close the control, ask the TTS child to cancel, and only when no
\* request is left kill the task. Nothing waits in between when it is idle.
Cancel ==
    /\ state # "COMPLETED"
    /\ Drop("CANCELLED")
    /\ IF tts = "busy"
         THEN cancelling' = TRUE /\ UNCHANGED <<tts, taskVars>>
         ELSE Kill /\ UNCHANGED ttsVars

\* TTSAdapter.abort() has returned in cancel().
CancelKill ==
    /\ tts # "busy"
    /\ Kill
    /\ UNCHANGED <<controlVars, ttsVars>>

\* fail(): here the task is killed first, then the TTS child asked to cancel.
Fail ==
    /\ state \notin {"COMPLETED", "CANCELLED", "FAILED"}
    /\ Drop("FAILED")
    /\ Kill
    /\ cancelling' = (cancelling \/ tts = "busy")
    /\ UNCHANGED tts

\* close_unused(): the task notices the state by itself.
CloseUnused ==
    /\ admitted = <<>>
    /\ state = "OPEN"
    /\ state' = "CANCELLED"
    /\ UNCHANGED <<pending, bytes, inflight, admitted, acknowledged, terminal, adopted,
                   taskVars, ttsVars>>

\* force_abort() closes even a completed control ...
ForceClose ==
    /\ Drop("CANCELLED")
    /\ UNCHANGED <<taskVars, ttsVars>>

\* ... kills the TTS child, busy or not, and then the task.
ForceTTS ==
    /\ tts' = "destroyed"
    /\ UNCHANGED <<controlVars, taskVars, cancelling>>

ForceKill ==
    /\ Kill
    /\ UNCHANGED <<controlVars, ttsVars>>

-----------------------------------------------------------------------------
(* The task.                                                               *)

Ends(how) ==
    /\ runner' = "over"
    /\ ending' = how

\* The task raises, and _finish_worker_failure() drops what is left; nothing
\* waits in between.
Raises(cause) ==
    /\ Ends(cause)
    /\ state' = IF state \in Closed THEN state ELSE "FAILED"
    /\ pending' = <<>> /\ bytes' = 0
    /\ inflight' = <<>>
    /\ UNCHANGED <<admitted, acknowledged, terminal, adopted>>

\* ... which publishes a fault unless the control was closed by someone else.
Publishes == runner' = "over" /\ ending' \notin {"ok", "cancelled"} /\ state \notin Closed

\* _dequeue() finds the control closed.
RunnerStops ==
    /\ runner = "dequeue"
    /\ state \in Closed
    /\ Ends("cancelled")
    /\ UNCHANGED <<controlVars, ttsVars, completions>>

RunnerTakesTwo ==                                \* mutant: takes two and speaks the first
    /\ runner = "dequeue"
    /\ state \notin Closed
    /\ pending # <<>>
    /\ LET n == IF Len(pending) = 1 THEN 1 ELSE 2
       IN /\ inflight' = <<pending[1]>>
          /\ pending' = SubSeq(pending, n + 1, Len(pending))
          /\ bytes' = bytes - Weight(SubSeq(pending, 1, n))
    /\ runner' = "batch"
    /\ UNCHANGED <<state, admitted, acknowledged, terminal, adopted, ending, completions,
                   ttsVars>>

\* _dequeue() takes the head, and the next fragment if it is already there.
RunnerTakes ==
    /\ runner = "dequeue"
    /\ state \notin Closed
    /\ pending # <<>>
    /\ LET n == IF Len(pending) = 1 THEN 1 ELSE 2
       IN /\ inflight' = SubSeq(pending, 1, n)
          /\ pending' = SubSeq(pending, n + 1, Len(pending))
          /\ bytes' = bytes - Weight(SubSeq(pending, 1, n))
    /\ runner' = "batch"
    /\ UNCHANGED <<state, admitted, acknowledged, terminal, adopted, ending, completions,
                   ttsVars>>

\* The generator of synthesize() is first pulled: it sends GENERATE, or refuses.
RunnerSynthesizes ==
    /\ runner = "batch"
    /\ IF tts = "ready"
         THEN /\ tts' = "busy" /\ cancelling' = FALSE
              /\ runner' = "synthesize"
              /\ UNCHANGED <<controlVars, ending>>
         ELSE Raises("unready") /\ UNCHANGED ttsVars
    /\ UNCHANGED completions

\* The child answers PCM, which may win over a cancel ...
RunnerHears ==
    /\ runner = "synthesize" /\ tts = "busy"
    /\ tts' = "ready"
    /\ runner' = "play"
    /\ UNCHANGED <<controlVars, ending, completions, cancelling>>

\* ... or CANCELLED ...
RunnerRejected ==
    /\ runner = "synthesize" /\ tts = "busy" /\ cancelling
    /\ tts' = "ready"
    /\ Raises("rejected")
    /\ UNCHANGED <<completions, cancelling>>

\* ... or an error, or it dies, alone or by force: the adapter destroys it.
RunnerLosesTTS ==
    /\ runner = "synthesize" /\ tts # "ready"
    /\ tts' = "faulted"
    /\ Raises("tts")
    /\ UNCHANGED <<completions, cancelling>>

\* AudioOutput.play() returns after the drain, or raises.
RunnerPlays ==
    /\ runner = "play"
    /\ \/ /\ acknowledged' = acknowledged \o inflight
          /\ inflight' = <<>>
          /\ runner' = "dequeue"
          /\ UNCHANGED <<state, pending, bytes, admitted, terminal, adopted, ending>>
       \/ Raises("audio")
    /\ UNCHANGED <<completions, ttsVars>>

\* Everything was dequeued after the terminal text: compare what was spoken.
RunnerDrained ==
    /\ runner = "dequeue"
    /\ state = "TERMINAL_VALID"
    /\ pending = <<>>
    /\ IF acknowledged = terminal
         THEN runner' = "adopt" /\ UNCHANGED <<controlVars, ending>>
         ELSE Raises("audio")
    /\ UNCHANGED <<completions, ttsVars>>

\* Adopted: publish the completion.
RunnerCompletes ==
    /\ runner = "adopt"
    /\ adopted
    /\ completions' = completions + 1
    /\ state' = "COMPLETED"
    /\ Ends("ok")
    /\ UNCHANGED <<pending, bytes, inflight, admitted, acknowledged, terminal, adopted, ttsVars>>

RunnerStep ==
    \/ RunnerStops
    \/ RunnerTakes
    \/ RunnerSynthesizes
    \/ RunnerHears
    \/ RunnerRejected
    \/ RunnerLosesTTS
    \/ RunnerPlays
    \/ RunnerDrained
    \/ RunnerCompletes

=============================================================================
