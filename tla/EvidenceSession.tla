--------------------------- MODULE EvidenceSession ---------------------------
(***************************************************************************)
(* The sessions in which the verification and measurement tools            *)
(* (scripts/run-m4b-pv.py, scripts/m4b_measurement.py) run the real owners:*)
(* a plan of owners to start and operations to perform, left at the first  *)
(* failure or cancellation, and a cleanup that has to prove that nothing of*)
(* it survives.  Each kind is a class of those scripts; they differ in the *)
(* plan, in which children the cleanup looks at, and in what it catches.   *)
(* Each step is the work of one await.  MeasurementHarness, around two of  *)
(* the kinds, also judges the points sampled on the way.                   *)
(***************************************************************************)
EXTENDS Naturals, FiniteSets, SequencesExt

CONSTANTS
    Kinds,          \* the sessions of this instance
    MaxFaults,      \* bound: what fails on its own
    MaxInterrupts,  \* bound: cancellations (the first Ctrl-C)
    MaxTurns        \* --max-turns of the measurement

ASSUME SessionBounds == {MaxFaults, MaxInterrupts, MaxTurns} \subseteq Nat

Natives == {"asr", "tts", "llm"}                   \* each owns a child process
Five == <<"audio_input", "audio_output", "asr", "tts", "llm">>
Owners == {Five[i] : i \in DOMAIN Five}

Plan == [
    semantic  |-> Five \o <<"open", "hear", "think", "speak", "close">>,
    fixed     |-> Five \o <<"open", "hear", "think", "speak", "timing", "close">>,
    lifecycle |-> Tail(Five) \o <<"open", "think", "speak", "think", "speak", "close">>,
    memory    |-> Tail(Five) \o <<"open", "think", "speak", "think", "speak", "close">>,
    ready     |-> SubSeq(Five, 3, 5) \o <<"hold">>,
    resource  |-> Five \o <<"hold", "open", "think", "speak", "close">>,
    forced    |-> Five \o <<"hold", "force">>,
    shutdown  |-> Five \o <<"hold", "sampler">>,
    normal    |-> Five \o <<"hold", "manager", "session", "quit">>,
    recovery  |-> Five \o <<"hold", "manager", "rebuild", "keep", "session", "quit">>,
    native    |-> Five \o <<"open", "hear", "think", "speak", "decide", "replace", "close">>,
    W01       |-> Five \o <<"manager", "trigger", "native", "joined", "quiet", "ack", "active",
                            "idle">>,
    W02       |-> Five \o <<"manager", "trigger", "opening", "ack", "quiet", "release",
                            "native", "joined", "active", "idle">>,
    W03       |-> Five \o <<"manager", "trigger", "opening", "ack", "quiet", "quiet", "release",
                            "native", "joined", "active", "idle">>,
    W04       |-> Five \o <<"manager", "trigger", "native", "quiet", "idle", "unjoined">>]

ASSUME SessionKinds == Kinds \subseteq DOMAIN Plan

WakePaths == {"W01", "W02", "W03", "W04"}
Sampled == {"resource", "forced", "shutdown", "normal", "recovery"}
Measured == {"memory", "native"}                   \* MeasurementHarness.run

VARIABLES
    kind,
    pc, phase,      \* running, leaving, cleaning, ended
    started, left,  \* owners in the order of their start; those still to stop
    asked,          \* owners whose stop() was called
    child, alive,   \* the child attached to each adapter, 0 if none; live processes
    held,           \* the children whose death the cleanup wants to see
    clean,          \* no stop() raised
    noise,          \* the bus carried an ErrorOccurred since the last _take
    helpers,        \* the state manager and the sampler task of the session
    turns,          \* of the measurement
    product,        \* of the wake paths: the state manager under test
    points,         \* the lifecycle points sampled, "sample" left out
    first, outcome, \* the first error; what run() gives
    spent

session == <<kind, pc, phase, first>>
owners == <<started, left, asked, child, alive, held, clean>>
stopping == <<started, left, asked, held, clean>>
aside == <<noise, helpers, product, turns, points>>
vars == <<session, owners, aside, outcome, spent>>

NoTurns == [done |-> 0, generated |-> 0, after |-> 0, said |-> "none", replaced |-> FALSE]

\* What the product under test does wrong, if anything: it listens as soon as it is
\* in WAKE, or acknowledged, or its conversation is ready.  W01 lets the OPEN go at
\* once, W04 lets it become native and not join.
Defects == {"none", "in wake", "acknowledged", "ready"}
Product(defect, path) ==
    [defect |-> defect, state |-> "idle", open |-> "none", ready |-> FALSE,
     noticed |-> FALSE, acked |-> FALSE, due |-> FALSE, start |-> path \in {"W01", "W04"},
     join |-> path = "W01", active |-> FALSE, early |-> FALSE, overtaken |-> FALSE]

Init ==
    /\ kind \in Kinds /\ pc = 1 /\ phase = "running" /\ first = "none"
    /\ started = <<>> /\ left = <<>> /\ asked = {}
    /\ child = [n \in Natives |-> 0] /\ alive = {} /\ held = {} /\ clean = TRUE
    /\ noise = FALSE /\ helpers = [manager |-> "off", sampler |-> "off"]
    /\ turns = NoTurns /\ points = <<>> /\ outcome = "none"
    /\ spent = [faults |-> 0, interrupts |-> 0, kills |-> 0]
    /\ product \in {Product(d, kind) : d \in IF kind \in WakePaths THEN Defects ELSE {"none"}}

Running == phase = "running" /\ pc <= Len(Plan[kind])
Step == Plan[kind][pc]
Fault == spent.faults < MaxFaults /\ spent' = [spent EXCEPT !.faults = @ + 1]
Unkilled == /\ spent.faults < MaxFaults           \* a process that could not be killed
            /\ spent' = [spent EXCEPT !.faults = @ + 1, !.kills = @ + 1]
Interrupt == spent.interrupts < MaxInterrupts /\ spent' = [spent EXCEPT !.interrupts = @ + 1]

Goto(next) == pc' = next /\ UNCHANGED <<kind, phase, first>>
Advance == Goto(pc + 1)
Breaks(error) == phase' = "leaving" /\ first' = error /\ UNCHANGED <<kind, pc>>

Attached == {child[n] : n \in Natives} \ {0}
Living(n) == child[n] \in alive
Newest == [asr |-> 1, tts |-> 2, llm |-> 3]

(***************************************************************************)
(* The measured points (the adapter's, and the harness's own).             *)
(***************************************************************************)
Point(label) == [label |-> label, index |-> turns.done]
Emit(labels) ==
    points' = IF kind \in Measured
              THEN points \o [i \in DOMAIN labels |-> Point(labels[i])] ELSE points

\* derive_thresholds: the order it accepts.
Found(rows, label) == {i \in DOMAIN rows : rows[i].label = label}
FirstOf(rows, label) == CHOOSE i \in Found(rows, label) :
                            \A j \in Found(rows, label) : i <= j
Required == {"engine_ready", "conversation_preparation", "conversation_ready", "pre_generate",
             "post_generate", "primary_completion", "pre_speak", "audio_completion",
             "post_session_close"}

\* The points of one operation: each once, and the windows closed.
Window(rows, label, index) == {i \in Found(rows, label) : rows[i].index = index}
Before(rows, a, b, index) ==
    \A i \in Window(rows, a, index), j \in Window(rows, b, index) : i < j
Paired(rows, a, b, index) == (Window(rows, a, index) = {}) = (Window(rows, b, index) = {})

Once == {"pre_generate", "post_generate", "pre_speak", "audio_completion", "primary_completion"}
WindowClosed(rows, index) ==
    LET Has(label) == Window(rows, label, index) # {}
    IN /\ \A l \in Once : Cardinality(Window(rows, l, index)) <= 1
       /\ (\E l \in Once : Has(l)) => Has("primary_completion")
       /\ Paired(rows, "pre_generate", "post_generate", index)
       /\ Paired(rows, "pre_speak", "audio_completion", index)
       /\ Before(rows, "pre_generate", "post_generate", index)
       /\ Before(rows, "post_generate", "pre_speak", index)
       /\ Before(rows, "pre_speak", "audio_completion", index)
       /\ Before(rows, "audio_completion", "primary_completion", index)
       /\ Before(rows, "post_generate", "primary_completion", index)
WindowsClosed(rows) == \A i \in DOMAIN rows : WindowClosed(rows, rows[i].index)

\* A replacement that begins ends before the next one, in the same operation.
ReplacementsPaired(rows) ==
    LET begins == Found(rows, "pre_replacement")
        ends == Found(rows, "post_replacement")
        Encloses(i, j) == /\ i < j /\ rows[i].index = rows[j].index
                          /\ \A k \in begins \cup ends : ~(i < k /\ k < j)
    IN /\ \A i \in begins : \E j \in ends : Encloses(i, j)
       /\ \A j \in ends : \E i \in begins : Encloses(i, j)

Accepted(rows) ==
    /\ \A l \in Required : Found(rows, l) # {}
    /\ Found(rows, "engine_ready") = {1} /\ Found(rows, "post_session_close") = {Len(rows)}
    /\ FirstOf(rows, "conversation_preparation") < FirstOf(rows, "conversation_ready")
    /\ FirstOf(rows, "conversation_ready") < FirstOf(rows, "pre_generate")
    /\ \A i \in 1..(Len(rows) - 1) : rows[i].index <= rows[i + 1].index
    /\ ReplacementsPaired(rows) /\ WindowsClosed(rows)

(***************************************************************************)
(* The plan.                                                               *)
(***************************************************************************)
\* Mutant: an owner counts as started when its start() has returned.
RecordsReturned(o, returned) == started' = IF returned THEN Append(started, o) ELSE started

\* The owner is recorded before its start() is awaited.
Records(o, returned) == started' = Append(started, o)

Spawned(o) ==
    IF o \in Natives
    THEN child' = [child EXCEPT ![o] = Newest[o]] /\ alive' = alive \cup {Newest[o]}
    ELSE UNCHANGED <<child, alive>>

StartOwner ==
    /\ Running /\ Step \in Owners
    /\ \/ /\ Records(Step, TRUE) /\ Spawned(Step) /\ Advance
          /\ IF Step = "llm" THEN Emit(<<"engine_ready">>) ELSE UNCHANGED points
          /\ UNCHANGED spent
       \/ /\ Records(Step, FALSE) /\ UNCHANGED points
          /\ (Fault /\ Breaks("failed")) \/ (Interrupt /\ Breaks("cancelled"))
          /\ Spawned(Step) \/ UNCHANGED <<child, alive>>
    /\ UNCHANGED <<left, asked, held, clean, noise, helpers, product, turns, outcome>>

Needs == [open |-> {"llm"}, hear |-> {"asr"}, think |-> {"llm"}, speak |-> {"tts"},
          close |-> {"llm"}, replace |-> {"llm"}, force |-> {"llm"}, session |-> {"llm", "tts"},
          rebuild |-> {"llm", "tts"}, sampler |-> {"llm"}, manager |-> {}, timing |-> {},
          quit |-> {}, trigger |-> {}, opening |-> {}, native |-> {"llm"}, joined |-> {"llm"},
          quiet |-> {}, ack |-> {}, release |-> {}, active |-> {"asr", "llm"},
          idle |-> {"llm"}, unjoined |-> {}]
Takes == {"hear", "think", "speak"}
Works == Running /\ Step \in DOMAIN Needs /\ \A n \in Needs[Step] : Living(n)

\* An operation that fails, is cancelled, or finds its child dead; its adapter may
\* destroy the child.  _take wants the one event of the operation and nothing else.
OperationFails ==
    /\ Running /\ Step \in DOMAIN Needs
    /\ \/ Fault /\ Breaks("failed")
       \/ Interrupt /\ Breaks("cancelled")
       \/ ~Works /\ Breaks("failed") /\ UNCHANGED spent
       \/ Step \in Takes /\ noise /\ Breaks("failed") /\ UNCHANGED spent
    /\ \/ UNCHANGED <<child, alive>>
       \/ \E n \in Needs[Step] : /\ child' = [child EXCEPT ![n] = 0]
                                 /\ alive' = alive \ {child[n]}
    /\ UNCHANGED <<stopping, aside, outcome>>

Talk(step, labels) ==
    /\ Works /\ Step = step /\ Advance /\ Emit(labels)
    /\ (step \in Takes => ~noise) /\ noise' = IF step \in Takes THEN FALSE ELSE noise
    /\ UNCHANGED <<owners, helpers, product, outcome, spent>>

Open == Talk("open", <<"conversation_preparation", "conversation_ready">>) /\ UNCHANGED turns
\* The first perception of a turn of the measurement; the scripted kinds have none.
Hear == Talk("hear", <<>>) /\ turns' = [turns EXCEPT !.done = @ + 1]
Timing == Talk("timing", <<>>) /\ UNCHANGED turns
Close == Talk("close", <<"post_session_close">>) /\ UNCHANGED turns

\* What the model says next: goes on, its context is full, it failed, it ends.
Answers == IF kind = "native" THEN {"keep", "full", "tainted", "end"} ELSE {"keep"}
NextIndex == IF kind \in {"lifecycle", "memory"} THEN turns.done + 1 ELSE turns.done
Think ==
    /\ Works /\ Step = "think" /\ ~noise /\ Advance
    /\ \E said \in Answers :
          /\ turns' = [turns EXCEPT !.said = said, !.done = NextIndex]
          /\ points' = IF kind \in Measured /\ said # "full"
                       THEN points \o <<[label |-> "pre_generate", index |-> NextIndex],
                                        [label |-> "post_generate", index |-> NextIndex]>>
                       ELSE points
    /\ UNCHANGED <<owners, noise, helpers, product, outcome, spent>>

Speak == /\ Talk("speak", <<"pre_speak", "audio_completion", "primary_completion">>)
         /\ UNCHANGED turns

\* NativeMeasurementSession._scenario, the end of a turn.
Counted ==
    IF turns.said \notin {"keep", "end"} THEN turns
    ELSE [turns EXCEPT !.generated = @ + 1,
                       !.after = IF turns.replaced THEN @ + 1 ELSE @]
StepOf(step) == CHOOSE i \in DOMAIN Plan[kind] : Plan[kind][i] = step
Decide ==
    /\ Running /\ Step = "decide" /\ turns' = Counted
    /\ \/ Counted.after >= 2 /\ Goto(StepOf("close"))
       \/ /\ Counted.after < 2
          /\ CASE turns.said = "full" /\ Counted.generated >= 2 -> Goto(StepOf("replace"))
               [] turns.said = "keep" /\ turns.done < MaxTurns -> Goto(StepOf("hear"))
               [] OTHER -> Breaks("dialogue")
    /\ UNCHANGED <<owners, noise, helpers, product, points, outcome, spent>>

\* Mutant: the close of a replacement is sampled under its own name.
ReplacedTwice == <<"pre_replacement", "post_session_close", "conversation_preparation",
                   "conversation_ready", "post_replacement">>

\* _replace: close and open again; the point of that close is renamed to "sample".
Replaced == <<"pre_replacement", "conversation_preparation", "conversation_ready",
              "post_replacement">>
Replace ==
    /\ Works /\ Step = "replace" /\ Emit(Replaced)
    /\ turns' = [turns EXCEPT !.replaced = TRUE]
    /\ IF turns.done < MaxTurns THEN Goto(StepOf("hear")) ELSE Breaks("dialogue")
    /\ UNCHANGED <<owners, noise, helpers, product, outcome, spent>>

\* _start of the resource sessions (and ATT): all three children must be there.
Hold ==
    /\ Running /\ Step = "hold"
    /\ held' = Attached
    /\ IF Cardinality(Attached) = 3 THEN Advance ELSE Breaks("failed")
    /\ UNCHANGED <<aside, started, left, asked, child, alive, clean, outcome, spent>>

\* run_forced_cleanup, run_shutdown
ForcedCleanup ==
    /\ Works /\ Step = "force" /\ Advance
    /\ child' = [child EXCEPT !.llm = 0] /\ alive' = alive \ {child.llm}
    /\ UNCHANGED <<stopping, aside, outcome, spent>>
StartSampler ==
    /\ Works /\ Step = "sampler" /\ Advance
    /\ helpers' = [helpers EXCEPT !.sampler = "on"]
    /\ UNCHANGED <<owners, noise, product, turns, points, outcome, spent>>

\* run_normal_close and run of the recovery session, driven through the manager.
StartManager ==
    /\ Works /\ Step = "manager" /\ Advance /\ helpers' = [helpers EXCEPT !.manager = "on"]
    /\ UNCHANGED <<owners, noise, product, turns, points, outcome, spent>>
ManagedSession ==
    /\ Works /\ Step = "session" /\ Advance
    /\ UNCHANGED <<owners, aside, outcome, spent>>
\* The planned recovery of that session: authorize_recovery, wait_recovery, rebuild.
Rebuild ==
    /\ Works /\ Step = "rebuild"
    /\ \/ /\ child' = [child EXCEPT !.llm = 4]
          /\ alive' = (alive \ {child.llm}) \cup {4} /\ Advance /\ UNCHANGED spent
       \/ /\ Unkilled /\ Breaks("failed")                       \* the old group lives on
          /\ child' = [child EXCEPT !.llm = 4] /\ alive' = alive \cup {4}
       \/ /\ Fault /\ Breaks("failed")                          \* no replacement
          /\ child' = [child EXCEPT !.llm = 0] /\ alive' = alive \ {child.llm}
    /\ UNCHANGED <<stopping, aside, outcome>>
Keep ==
    /\ Running /\ Step = "keep" /\ held' = held \cup ({child.llm} \ {0})
    /\ IF child.llm # 0 THEN Advance ELSE Breaks("failed")
    /\ UNCHANGED <<aside, started, left, asked, child, alive, clean, outcome, spent>>
Quit ==
    /\ Works /\ Step = "quit" /\ Advance /\ helpers' = [helpers EXCEPT !.manager = "off"]
    /\ UNCHANGED <<owners, noise, product, turns, points, outcome, spent>>

(***************************************************************************)
(* The wake paths: the state manager under test, which the harness holds at*)
(* two barriers, and what the harness looks at.                            *)
(***************************************************************************)
Under == kind \in WakePaths /\ helpers.manager = "on" /\ phase = "running"
Moves(next) ==
    /\ Under /\ product' = next
    /\ UNCHANGED <<session, owners, noise, helpers, turns, points, outcome, spent>>

\* A barrier is stamped; what was active by then was so too early.
Stamped(p) == [p EXCEPT !.overtaken = @ \/ p.active]

OpenStarts == /\ product.state = "wake" /\ product.open = "none"
              /\ Moves([product EXCEPT !.open = "started"])
OpenNative == /\ product.open = "started" /\ product.start /\ Living("llm")
              /\ Moves(Stamped([product EXCEPT !.open = "native"]))
OpenJoins == /\ product.open = "native" /\ product.join
             /\ Moves(Stamped([product EXCEPT !.open = "joined"]))
ReadyHandled == /\ product.open = "joined" /\ ~product.ready
                /\ Moves([product EXCEPT !.ready = TRUE])
\* The harness is woken by this, ahead of the task that listens.
AckHandled == /\ product.noticed /\ ~product.acked
              /\ Moves([product EXCEPT !.acked = TRUE, !.due = TRUE])
Listens ==
    /\ product.state = "wake" /\ ~product.active /\ ~product.due
    /\ CASE product.defect = "in wake" -> TRUE
         [] product.defect = "acknowledged" -> product.acked
         [] product.defect = "ready" -> product.ready
         [] OTHER -> product.acked /\ product.ready
    /\ Moves([product EXCEPT !.active = TRUE,
                              !.early = ~(product.acked /\ product.open = "joined")])
UnderTest == OpenStarts \/ OpenNative \/ OpenJoins \/ ReadyHandled \/ AckHandled \/ Listens

Harness(step, seen, next) ==
    /\ Works /\ Step = step /\ kind \in WakePaths
    /\ seen /\ product' = next /\ Advance
    /\ UNCHANGED <<owners, noise, helpers, turns, points, outcome, spent>>
Refuses(step, seen) ==
    /\ Running /\ Step = step /\ kind \in WakePaths /\ seen /\ Breaks("refused")
    /\ UNCHANGED <<owners, aside, outcome, spent>>

Trigger == Harness("trigger", TRUE, [product EXCEPT !.state = "wake"])
SeesOpening == Harness("opening", product.open # "none", product)
SeesNative == Harness("native", product.open \in {"native", "joined"}, product)
SeesJoined == Harness("joined", product.open = "joined" /\ product.ready, product)
Release == Harness("release", TRUE, [product EXCEPT !.start = TRUE, !.join = TRUE])
\* _ack puts the notice in the inbox and stamps what it did.
Notice == /\ Running /\ Step = "ack" /\ ~product.noticed
          /\ Moves([product EXCEPT !.noticed = TRUE])
Acknowledged == Harness("ack", product.acked, Stamped([product EXCEPT !.due = FALSE]))
Quiet == Harness("quiet", ~product.active, product) \/ Refuses("quiet", product.active)

\* Mutant: _wait_active_path does not compare the time stamps.
ActiveAtLast == Harness("active", product.active, product)

ActivePath == \/ Harness("active", product.active /\ ~product.overtaken, product)
              \/ Refuses("active", product.active /\ product.overtaken)

\* InterruptRequested; the abort of an OPEN between its two barriers closes it.
ToIdle == Harness("idle", TRUE, [product EXCEPT
                     !.state = "idle", !.open = IF @ = "native" THEN "closed" ELSE @])
Unjoined ==
    \/ Harness("unjoined", product.open = "closed" /\ ~product.active, product)
    \/ Refuses("unjoined", product.open # "closed" \/ product.active)
WatchWake ==
    \/ Trigger \/ SeesOpening \/ SeesNative \/ SeesJoined \/ Release \/ Notice
    \/ Acknowledged \/ Quiet \/ ActivePath \/ ToIdle \/ Unjoined

\* What happens at any time: a child dies, a worker reports an error, a sample fails.
ChildDies ==
    /\ phase # "ended" /\ Fault /\ \E c \in alive : alive' = alive \ {c}
    /\ UNCHANGED <<session, stopping, aside, child, outcome>>
ErrorReported ==
    /\ phase = "running" /\ ~noise /\ Fault /\ noise' = TRUE
    /\ UNCHANGED <<session, owners, helpers, product, turns, points, outcome>>
SampleFails ==
    /\ helpers.sampler = "on" /\ Fault /\ helpers' = [helpers EXCEPT !.sampler = "failed"]
    /\ UNCHANGED <<session, owners, noise, product, turns, points, outcome>>

(***************************************************************************)
(* The cleanup.                                                            *)
(***************************************************************************)
\* What the loop over the owners catches: Exception only, everything, or Exception
\* with a force_abort of that owner.
Catches(what) ==
    CASE what = "native" -> "force"
      [] what \in Sampled \cup WakePaths -> "all"
      [] OTHER -> "exceptions"

\* The children looked at: of the owners started, of all three adapters, or those
\* held since the start.
Handles ==
    CASE kind \in {"semantic", "lifecycle", "memory"} ->
             {child[n] : n \in {x \in Natives : \E i \in DOMAIN started : started[i] = x}} \ {0}
      [] kind \in {"fixed"} \cup WakePaths -> Attached
      [] kind = "native" -> {child[n] : n \in Natives}
      [] OTHER -> held
Enough ==
    CASE kind = "semantic" -> TRUE
      [] kind \in Sampled -> Cardinality(held) >= 3
      [] kind = "native" -> 0 \notin held
      [] OTHER -> held # {}

CutShort(error) == phase' = "ended" /\ first' = first /\ outcome' = error
                   /\ UNCHANGED <<kind, pc>>

Complete == phase = "running" /\ pc > Len(Plan[kind])

\* The finally block up to the loop: the sampler is joined, the manager shut down.
Leave ==
    /\ Complete \/ phase = "leaving"
    /\ helpers.sampler # "on"
    /\ \/ /\ helpers.manager = "on"
          /\ \/ UNCHANGED spent /\ helpers' = [helpers EXCEPT !.manager = "off"]
                /\ UNCHANGED clean
             \/ (Fault \/ Interrupt) /\ helpers' = [helpers EXCEPT !.manager = "stuck"]
                /\ clean' = (kind \notin WakePaths)
          /\ phase' = "leaving" /\ held' = Handles
          /\ UNCHANGED <<kind, pc, first, started, left, asked, child, alive>>
       \/ /\ helpers.manager # "on"
          /\ phase' = "cleaning" /\ left' = Reverse(started) /\ held' = Handles
          /\ UNCHANGED <<kind, pc, first, started, asked, child, alive, clean, helpers, spent>>
    /\ UNCHANGED <<noise, product, turns, points, outcome>>

JoinSampler ==
    /\ Complete \/ phase = "leaving"
    /\ helpers.sampler = "on" /\ helpers' = [helpers EXCEPT !.sampler = "off"]
    /\ \/ phase' = "leaving" /\ UNCHANGED <<kind, pc, first, outcome, spent>>
       \/ Interrupt /\ CutShort("cancelled")
    /\ UNCHANGED <<owners, noise, product, turns, points>>

Stopped(o) ==
    IF o \in Natives THEN child' = [child EXCEPT ![o] = 0] /\ alive' = alive \ {child[o]}
    ELSE UNCHANGED <<child, alive>>

StopOwner ==
    /\ phase = "cleaning" /\ left # <<>>
    /\ asked' = asked \cup {Head(left)} /\ left' = Tail(left)
    /\ UNCHANGED <<aside, started, held>>
    /\ \/ /\ Stopped(Head(left)) /\ UNCHANGED <<session, clean, outcome, spent>>
       \/ /\ Fault /\ clean' = FALSE /\ Stopped(Head(left)) /\ UNCHANGED <<session, outcome>>
       \/ /\ Unkilled /\ UNCHANGED <<session, outcome>>
          /\ \/ clean' = FALSE /\ UNCHANGED <<child, alive>>
             \/ clean' = FALSE /\ Catches(kind) = "force" /\ Stopped(Head(left))
             \/ /\ Head(left) \in Natives /\ UNCHANGED <<clean, alive>>  \* its group lives on
                /\ child' = [child EXCEPT ![Head(left)] = 0]
       \/ /\ Interrupt /\ UNCHANGED <<child, alive>> /\ clean' = FALSE
          /\ IF Catches(kind) = "all" THEN UNCHANGED <<session, outcome>>
             ELSE CutShort(IF kind \in Measured /\ first # "cancelled" THEN "stopped"
                           ELSE "cancelled")

\* asyncio.wait_for around the cleanup of the measured kinds.
CleanupExpires ==
    /\ phase = "cleaning" /\ left # <<>> /\ kind \in Measured /\ Fault
    /\ CutShort(IF first = "cancelled" THEN first ELSE "stopped") /\ clean' = FALSE
    /\ UNCHANGED <<aside, started, left, asked, child, alive, held>>

\* Mutant: no owner complained, so nothing can be left.
ProvenByStops == clean

Proven ==
    /\ clean /\ Enough /\ held \cap alive = {}

Verdict ==
    IF first = "cancelled" THEN "cancelled"
    ELSE IF kind \in Measured /\ (first # "none" \/ ~Proven) THEN "stopped"
    ELSE IF first # "none" THEN first
    ELSE IF helpers.sampler = "failed" THEN "sampler"
    ELSE IF ~Proven THEN "cleanup"
    ELSE IF kind \in Measured /\ ~Accepted(points) THEN "incomplete"
    ELSE "result"

Finish ==
    /\ phase = "cleaning" /\ left = <<>> /\ phase' = "ended" /\ outcome' = Verdict
    /\ UNCHANGED <<owners, aside, kind, pc, first, spent>>

Operate ==
    \/ StartOwner \/ OperationFails \/ Open \/ Hear \/ Timing \/ Think \/ Speak \/ Close
    \/ Decide \/ Replace \/ Hold \/ ForcedCleanup \/ StartSampler \/ StartManager \/ ManagedSession
    \/ Rebuild \/ Keep \/ Quit
Disturb == ChildDies \/ ErrorReported \/ SampleFails
CleanUp == Leave \/ JoinSampler \/ StopOwner \/ CleanupExpires \/ Finish

Next == Operate \/ UnderTest \/ WatchWake \/ Disturb \/ CleanUp
Spec == Init /\ [][Next]_vars

(***************************************************************************)
(* Correctness.                                                            *)
(***************************************************************************)
StartedOwners == {started[i] : i \in DOMAIN started}

\* A result is worth its name: every owner ever started was stopped, no process of
\* any child it ever had lives, the manager and the sampler of the session are gone.
ReturnedIsClean ==
    outcome = "result" =>
        /\ asked = StartedOwners /\ clean /\ alive = {}
        /\ helpers.manager = "off" /\ helpers.sampler = "off"

\* Whatever failed, and where: a process outlives its session only if it could not
\* be killed or the cleanup itself was cancelled or ran out of time.
NothingSurvives ==
    phase = "ended" /\ alive # {} =>
        \/ spent.kills > 0
        \/ asked # StartedOwners \/ ~clean

\* A wake path that gives a result has not listened before both barriers, whatever
\* is wrong with the product.
EarlyIsCaught == outcome = "result" => ~product.early

\* A session that meets no fault, no cancellation and no dialogue it refuses gives
\* its result: neither the cleanup nor the order of the points rejects it.
SoundIsAccepted ==
    (/\ phase = "ended" /\ first # "dialogue" /\ product.defect = "none"
     /\ spent.faults = 0 /\ spent.interrupts = 0)
        => outcome = "result"

===============================================================================
