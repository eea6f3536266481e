-------------------------- MODULE Evidence_proofs --------------------------
(***************************************************************************)
(* Proofs about the verification and measurement tools.  Their sessions:   *)
(* what a result promises, what an ended session leaves behind, and that a *)
(* product which listens too early gets no result.  Their evidence: that a *)
(* final Pass was earned, and that a verdict a person gave counts.         *)
(***************************************************************************)
EXTENDS EvidenceLedger, EvidenceSession, SequenceTheorems, FiniteSetTheorems,
        WellFoundedInduction, TLAPS

-----------------------------------------------------------------------------
(***************************************************************************)
(* The plans.                                                              *)
(***************************************************************************)
\* The steps of a plan that were taken before its i-th.
DoneAt(k, i) == {Plan[k][j] : j \in 1..(i - 1)}
HeldKinds == {"ready"} \cup Sampled

\* What the proofs need to know of the order of a plan.
ListensLast(k) ==
    /\ \A i \in 1..Len(Plan[k]) :
          /\ Plan[k][i] = "active" => {"ack", "joined"} \subseteq DoneAt(k, i)
          /\ Plan[k][i] = "unjoined" => "idle" \in DoneAt(k, i)
          /\ Plan[k][i] = "trigger" => DoneAt(k, i) \cap {"idle", "unjoined"} = {}
    /\ DoneAt(k, Len(Plan[k]) + 1) \cap {"active", "unjoined"} # {}
HoldsAll(k) ==
    /\ \A i \in 1..Len(Plan[k]) :
          /\ Plan[k][i] \in Owners => DoneAt(k, i) \cap {"hold", "rebuild"} = {}
          /\ Plan[k][i] = "rebuild" => "keep" \notin DoneAt(k, i)
    /\ "hold" \in DoneAt(k, Len(Plan[k]) + 1)
    /\ "rebuild" \in DoneAt(k, Len(Plan[k]) + 1) => "keep" \in DoneAt(k, Len(Plan[k]) + 1)
Placed(k) ==
    \A i \in 1..Len(Plan[k]) :
       /\ Plan[k][i] = "sampler" => k = "shutdown"
       /\ Plan[k][i] = "manager" => k \in WakePaths \cup {"normal", "recovery"}
       /\ Plan[k][i] = "rebuild" => k = "recovery"
       /\ Plan[k][i] \in {"decide", "replace"} => k = "native"

\* The kinds whose cleanup looks at the children it has held: their plans.
LEMMA HeldPlans ==
    ASSUME NEW k \in HeldKinds
    PROVE  Len(Plan[k]) \in Nat /\ Placed(k) /\ HoldsAll(k)
<1> USE DEF Plan, Five, Placed, WakePaths, HoldsAll, DoneAt, Owners
<1>1. CASE k = "ready"
  BY <1>1, SubSeqProperties
<1>2. CASE k = "resource"
  BY <1>2
<1>3. CASE k = "forced"
  BY <1>3
<1>4. CASE k = "shutdown"
  BY <1>4
<1>5. CASE k = "normal"
  BY <1>5
<1>6. CASE k = "recovery"
  BY SMTT(60), <1>6
<1>7. QED
  BY <1>1, <1>2, <1>3, <1>4, <1>5, <1>6 DEF HeldKinds, Sampled

\* The plans of the wake paths.
LEMMA WakePlans ==
    ASSUME NEW k \in WakePaths
    PROVE  Len(Plan[k]) \in Nat /\ Placed(k) /\ ListensLast(k)
<1> USE DEF Plan, Five, Placed, WakePaths, ListensLast, DoneAt
<1>1. CASE k = "W01"
  BY <1>1
<1>2. CASE k = "W02"
  BY <1>2
<1>3. CASE k = "W03"
  BY <1>3
<1>4. CASE k = "W04"
  BY SMTT(60), <1>4
<1>5. QED
  BY <1>1, <1>2, <1>3, <1>4

\* The plans of the other kinds; the measurement's own jumps stay inside its plan.
LEMMA OtherPlans ==
    ASSUME NEW k \in {"semantic", "fixed", "lifecycle", "memory", "native"}
    PROVE  /\ Len(Plan[k]) \in Nat /\ Placed(k)
           /\ k = "native" => /\ Len(Plan[k]) = 12 /\ Plan[k][7] = "hear"
                              /\ Plan[k][11] = "replace" /\ Plan[k][12] = "close"
<1> USE DEF Plan, Five, Placed, WakePaths
<1>1. CASE k = "semantic"
  BY <1>1
<1>2. CASE k = "fixed"
  BY <1>2
<1>3. CASE k = "lifecycle"
  BY <1>3
<1>4. CASE k = "memory"
  BY <1>4
<1>5. CASE k = "native"
  BY <1>5
<1>6. QED
  BY <1>1, <1>2, <1>3, <1>4, <1>5

\* The last step of the two managed kinds takes the manager down.
LEMMA QuitIsLast ==
    ASSUME NEW k \in {"normal", "recovery"}
    PROVE  Plan[k][Len(Plan[k])] = "quit"
<1>1. Len(Plan.normal) = 9 /\ Plan.normal[9] = "quit"
  BY DEF Plan, Five
<1>2. Len(Plan.recovery) = 11 /\ Plan.recovery[11] = "quit"
  BY DEF Plan, Five
<1>3. QED
  BY <1>1, <1>2

\* What holds of every plan.
LEMMA Plans ==
    ASSUME NEW k \in Kinds
    PROVE  Len(Plan[k]) \in Nat /\ Placed(k)
<1>1. DOMAIN Plan = {"semantic", "fixed", "lifecycle", "memory", "ready", "resource",
                      "forced", "shutdown", "normal", "recovery", "native", "W01", "W02",
                      "W03", "W04"}
  BY DEF Plan
<1>3. k \in HeldKinds \cup WakePaths
            \cup {"semantic", "fixed", "lifecycle", "memory", "native"}
  BY <1>1, SessionKinds DEF HeldKinds, Sampled, WakePaths
<1>2. QED
  BY <1>3, HeldPlans, WakePlans, OtherPlans

\* Where the measurement jumps to.
LEMMA Jumps ==
    ASSUME kind = "native", NEW s \in {"hear", "replace", "close"}
    PROVE  StepOf(s) \in 1..Len(Plan[kind])
<1>1. Len(Plan.native) = 12 /\ DOMAIN Plan.native = 1..12
  BY DEF Plan, Five
<1>2. \E i \in DOMAIN Plan[kind] : Plan[kind][i] = s
  BY <1>1, OtherPlans
<1>3. StepOf(s) \in DOMAIN Plan[kind]
  BY <1>2 DEF StepOf
<1>4. QED
  BY <1>1, <1>3
-----------------------------------------------------------------------------
(***************************************************************************)
(* The inductive invariant.                                                *)
(***************************************************************************)
Errors == {"none", "failed", "cancelled", "dialogue", "refused"}
Outcomes == {"none", "cancelled", "stopped", "failed", "dialogue", "refused", "sampler",
             "cleanup", "incomplete", "result"}
Done == DoneAt(kind, pc)
Items(s) == {s[i] : i \in DOMAIN s}
Whole == pc > Len(Plan[kind])

\* The owners and what a session counts.
OwnersShape ==
    /\ started \in Seq(Owners) /\ left \in Seq(Owners) /\ asked \subseteq Owners
    /\ child \in [Natives -> 0..4] /\ alive \subseteq 1..4 /\ held \subseteq 0..4
    /\ clean \in BOOLEAN
    /\ spent \in [faults : Nat, interrupts : Nat, kills : Nat]

\* A session leaves its plan at its end, or with an error.
SessionShape ==
    /\ kind \in Kinds /\ pc \in 1..(Len(Plan[kind]) + 1)
    /\ phase \in {"running", "leaving", "cleaning", "ended"}
    /\ first \in Errors /\ outcome \in Outcomes
    /\ phase # "ended" => outcome = "none"
    /\ phase = "running" => first = "none"
    /\ phase # "running" /\ first = "none" => Whole
    /\ outcome = "result" => first = "none"

\* The helpers are there where the plan starts them, and gone before the owners are.
HelpersShape ==
    /\ helpers \in [manager : {"off", "on", "stuck"}, sampler : {"off", "on", "failed"}]
    /\ helpers.sampler # "off" => kind = "shutdown"
    /\ helpers.manager # "off" => kind \in WakePaths \cup {"normal", "recovery"}
    /\ kind \in {"normal", "recovery"} /\ Whole => helpers.manager = "off"
    /\ phase = "cleaning" => helpers.manager # "on" /\ helpers.sampler # "on"
    /\ helpers.manager = "stuck" => phase # "running" /\ (kind \in WakePaths => ~clean)

\* The loop over the owners has asked each, or still has it before it.
StopsInv ==
    /\ phase \in {"running", "leaving"} => asked = {}
    /\ phase = "cleaning" => asked \cup Items(left) = StartedOwners
    /\ phase = "ended" /\ outcome = "result" => asked = StartedOwners

\* Whose the children are.  With nothing unkillable, what lives is attached.
ChildrenInv ==
    /\ \A n \in Natives : child[n] # 0 => n \in StartedOwners
    /\ phase = "running" => \A n \in Natives : child[n] \in {0, Newest[n]} \/ "rebuild" \in Done
    /\ clean => \A n \in Natives \cap asked : child[n] = 0
    /\ spent.kills = 0 => alive \subseteq Attached
    /\ phase \in {"running", "leaving"} /\ first = "none" => spent.kills = 0

\* What the cleanup looks at covers what lives.
HeldInv ==
    /\ kind \in HeldKinds /\ first = "none" /\ phase \in {"running", "leaving"}
          /\ "hold" \in Done =>
       \A n \in Natives : \/ child[n] \in held \cup {0}
                          \/ n = "llm" /\ "rebuild" \in Done /\ "keep" \notin Done
    /\ phase = "cleaning" /\ first = "none" => alive \subseteq held

\* A result is decided on all of it.
ResultInv ==
    outcome = "result" =>
        /\ phase = "ended" /\ clean /\ alive = {}
        /\ helpers.manager = "off" /\ helpers.sampler = "off"

\* The product under test.
PathShape ==
    product \in [defect : Defects, state : {"idle", "wake"},
                 open : {"none", "started", "native", "joined", "closed"},
                 ready : BOOLEAN, noticed : BOOLEAN, acked : BOOLEAN, due : BOOLEAN,
                 start : BOOLEAN, join : BOOLEAN, active : BOOLEAN, early : BOOLEAN,
                 overtaken : BOOLEAN]

\* How far the wake path has come, and what was active by then.
PathInv ==
    /\ product.early => product.active /\ kind \in WakePaths
    /\ product.early => product.overtaken \/ product.open # "joined" \/ "ack" \notin Done
    /\ kind \in WakePaths =>
          /\ "ack" \in Done => product.acked
          /\ "joined" \in Done => product.open = "joined"
          /\ "active" \in Done => product.active /\ ~product.early
          /\ "idle" \in Done \/ "unjoined" \in Done => product.state = "idle"
          /\ "unjoined" \in Done => ~product.early

IInv ==
    /\ OwnersShape /\ SessionShape /\ HelpersShape /\ StopsInv /\ ChildrenInv /\ HeldInv
    /\ ResultInv /\ PathShape /\ PathInv

-----------------------------------------------------------------------------
(***************************************************************************)
(* How a step moves through the plan.                                      *)
(***************************************************************************)
Advanced == Running /\ pc' = pc + 1 /\ UNCHANGED <<kind, phase, first>>
Broken == Running /\ phase' = "leaving" /\ first' \in Errors \ {"none"} /\ UNCHANGED <<kind, pc>>
Jumped ==
    /\ Running /\ kind = "native" /\ Step \in {"decide", "replace"}
    /\ pc' \in 1..Len(Plan[kind]) /\ UNCHANGED <<kind, phase, first>>

\* A position of a plan, and what a step of the plan adds to those done.
LEMMA Position ==
    ASSUME SessionShape, Running
    PROVE  pc \in 1..Len(Plan[kind]) /\ Len(Plan[kind]) \in Nat /\ Placed(kind)
  BY Plans DEF SessionShape, Running

\* A step further, that step is done.
LEMMA DoneGrows ==
    ASSUME SessionShape, Advanced
    PROVE  Done' = Done \cup {Step}
<1>1. pc \in Nat /\ pc >= 1 /\ pc' = pc + 1 /\ kind' = kind
  BY Position DEF Advanced
<1>2. 1..(pc' - 1) = 1..(pc - 1) \cup {pc}
  BY <1>1
<1>3. QED
  BY <1>1, <1>2 DEF Done, DoneAt, Step

\* The order of the plan depends on nothing else.
LEMMA DoneKept == ASSUME UNCHANGED <<kind, pc>> PROVE Done' = Done /\ Whole' = Whole
  BY DEF Done, DoneAt, Whole

\* The operations that use the children and leave them as they are.
LEMMA TalkMoves ==
    ASSUME Open \/ Hear \/ Timing \/ Think \/ Speak \/ Close \/ ManagedSession
    PROVE  /\ Advanced /\ UNCHANGED <<owners, helpers, product, outcome, spent>>
           /\ Step \in {"open", "hear", "timing", "think", "speak", "close", "session"}
  BY DEF Open, Hear, Timing, Think, Speak, Close, ManagedSession, Talk, Works, Advanced,
         Advance, Goto, aside

\* The end of a turn of the measurement.
LEMMA TurnMoves ==
    ASSUME SessionShape, Decide \/ Replace
    PROVE  /\ Jumped \/ Broken
           /\ UNCHANGED <<owners, helpers, product, outcome, spent>>
<1>1. Running /\ Step \in {"decide", "replace"}
  BY DEF Decide, Replace, Works
<1>2. kind = "native"
  BY <1>1, Position DEF Placed, Step
<1>3. \A s \in {"hear", "replace", "close"} : StepOf(s) \in 1..Len(Plan[kind])
  BY <1>2, Jumps
<1>4. (\E s \in {"hear", "replace", "close"} : Goto(StepOf(s))) \/ Breaks("dialogue")
  BY DEF Decide, Replace
<1>5. QED
  BY <1>1, <1>2, <1>3, <1>4 DEF Decide, Replace, Jumped, Broken, Breaks, Goto, Errors

\* The helpers of a session.
LEMMA HelperMoves ==
    ASSUME StartSampler \/ StartManager \/ Quit
    PROVE  /\ Advanced /\ UNCHANGED <<owners, product, outcome, spent>>
           /\ \/ Step = "sampler" /\ helpers' = [helpers EXCEPT !.sampler = "on"]
              \/ Step = "manager" /\ helpers' = [helpers EXCEPT !.manager = "on"]
              \/ Step = "quit" /\ helpers' = [helpers EXCEPT !.manager = "off"]
  BY DEF StartSampler, StartManager, Quit, Works, Advanced, Advance, Goto

\* The operations that change the owners and their children.
LEMMA OwnerMoves ==
    ASSUME StartOwner \/ OperationFails \/ Hold \/ ForcedCleanup \/ Rebuild \/ Keep
    PROVE  /\ Advanced \/ Broken
           /\ UNCHANGED <<helpers, product, outcome, asked, left, clean>>
           /\ Advanced => Step \in Owners \cup {"hold", "force", "rebuild", "keep"}
<1>1. CASE StartOwner
  BY <1>1 DEF StartOwner, Advanced, Broken, Advance, Goto, Breaks, Errors
<1>2. CASE OperationFails
  BY <1>2 DEF OperationFails, Advanced, Broken, Breaks, Errors, stopping, aside, Running
<1>3. CASE Hold
  BY <1>3 DEF Hold, Advanced, Broken, Advance, Goto, Breaks, Errors, aside
<1>4. CASE ForcedCleanup
  BY <1>4 DEF ForcedCleanup, Works, Advanced, Advance, Goto, stopping, aside
<1>5. CASE Rebuild
  BY <1>5 DEF Rebuild, Works, Advanced, Broken, Advance, Goto, Breaks, Errors, stopping, aside
<1>6. CASE Keep
  BY <1>6 DEF Keep, Advanced, Broken, Advance, Goto, Breaks, Errors, aside
<1>7. QED
  BY <1>1, <1>2, <1>3, <1>4, <1>5, <1>6

\* The product under test moves; its session stands.
LEMMA TestMoves ==
    ASSUME UnderTest \/ Notice
    PROVE  /\ UNCHANGED session /\ UNCHANGED <<owners, helpers, outcome, spent>>
           /\ kind \in WakePaths /\ phase = "running"
  BY DEF UnderTest, OpenStarts, OpenNative, OpenJoins, ReadyHandled, AckHandled, Listens, Notice,
         Moves, Under

WatchSteps == {"trigger", "opening", "native", "joined", "release", "ack", "quiet", "active",
               "idle", "unjoined"}
\* The harness looks at the product, and goes on or refuses it.
LEMMA WatchMoves ==
    ASSUME WatchWake, ~Notice
    PROVE  /\ Advanced \/ (Broken /\ UNCHANGED product)
           /\ UNCHANGED <<owners, helpers, outcome, spent>>
           /\ kind \in WakePaths /\ Step \in WatchSteps
<1> USE DEF Harness, Refuses, Works, Advanced, Broken, Advance, Goto, Breaks, Errors, aside,
            WatchSteps
<1>1. CASE Trigger \/ SeesOpening \/ SeesNative \/ SeesJoined
  BY <1>1 DEF Trigger, SeesOpening, SeesNative, SeesJoined
<1>2. CASE Release \/ Acknowledged \/ ToIdle
  BY <1>2 DEF Release, Acknowledged, ToIdle
<1>3. CASE Quiet \/ ActivePath \/ Unjoined
  BY <1>3 DEF Quiet, ActivePath, Unjoined
<1>4. QED
  BY <1>1, <1>2, <1>3 DEF WatchWake

\* Every step of the plan, and every step of the product, moves the session so.
LEMMA PlanMoves ==
    ASSUME SessionShape, Operate \/ UnderTest \/ WatchWake
    PROVE  /\ Advanced \/ Broken \/ Jumped \/ (UNCHANGED session /\ phase = "running")
           /\ outcome' = outcome /\ asked' = asked /\ left' = left /\ clean' = clean
<1>1. CASE Operate
  <2>1. CASE Open \/ Hear \/ Timing \/ Think \/ Speak \/ Close \/ ManagedSession
    BY <2>1, TalkMoves DEF owners
  <2>2. CASE Decide \/ Replace
    BY <2>2, TurnMoves DEF owners
  <2>3. CASE StartSampler \/ StartManager \/ Quit
    BY <2>3, HelperMoves DEF owners
  <2>4. CASE StartOwner \/ OperationFails \/ Hold \/ ForcedCleanup \/ Rebuild \/ Keep
    BY <2>4, OwnerMoves
  <2>5. QED
    BY <1>1, <2>1, <2>2, <2>3, <2>4 DEF Operate
<1>2. CASE UnderTest \/ Notice
  BY <1>2, TestMoves DEF owners
<1>3. CASE WatchWake /\ ~Notice
  BY <1>3, WatchMoves DEF owners
<1>4. QED
  BY <1>1, <1>2, <1>3

\* What happens at any time moves no session.
LEMMA DisturbMoves ==
    ASSUME Disturb
    PROVE  /\ UNCHANGED session /\ UNCHANGED <<stopping, child, product, outcome>>
           /\ \/ /\ UNCHANGED helpers /\ \E c \in alive : alive' = alive \ {c}
                 /\ phase # "ended" /\ Fault
              \/ UNCHANGED <<helpers, alive>> /\ Fault
              \/ /\ UNCHANGED alive /\ helpers.sampler = "on" /\ Fault
                 /\ helpers' = [helpers EXCEPT !.sampler = "failed"]
  BY DEF Disturb, ChildDies, ErrorReported, SampleFails, aside, owners, stopping, session

\* Of the cleanup, what each step does to the session.
LEMMA CleanUpMoves ==
    ASSUME SessionShape, CleanUp
    PROVE  /\ UNCHANGED <<kind, pc, first, product>>
           /\ \/ phase' \in {"leaving", "cleaning"} /\ outcome' = outcome
                 /\ (Complete \/ phase = "leaving")
              \/ phase' = "ended" /\ outcome' \in {"cancelled", "stopped"}
                 /\ (Complete \/ phase \in {"leaving", "cleaning"})
              \/ UNCHANGED <<phase, outcome>> /\ phase = "cleaning"
              \/ Finish
<1>1. CASE Leave
  BY <1>1 DEF Leave
<1>2. CASE JoinSampler
  BY <1>2 DEF JoinSampler, CutShort
<1>3. CASE StopOwner
  BY <1>3 DEF StopOwner, CutShort, aside, session
<1>4. CASE CleanupExpires
  BY <1>4 DEF CleanupExpires, CutShort, aside
<1>5. CASE Finish
  BY <1>5 DEF Finish, aside
<1>6. QED
  BY <1>1, <1>2, <1>3, <1>4, <1>5 DEF CleanUp

\* What a verdict can be, and when it is a result.
LEMMA VerdictIs ==
    ASSUME SessionShape
    PROVE  /\ Verdict \in Outcomes
           /\ Verdict = "result" => first = "none" /\ Proven /\ helpers.sampler # "failed"
  BY DEF Verdict, SessionShape, Errors, Outcomes

\* The session keeps its shape.
LEMMA SessionShapeKept == ASSUME SessionShape, [Next]_vars PROVE SessionShape'
<1>1. CASE Operate \/ UnderTest \/ WatchWake
  <2>1. CASE Advanced
    BY <1>1, <2>1, PlanMoves, Position DEF SessionShape, Advanced, Running, Whole
  <2>2. CASE Broken
    BY <1>1, <2>2, PlanMoves, Position DEF SessionShape, Broken, Running, Whole, Errors
  <2>3. CASE Jumped
    BY <1>1, <2>3, PlanMoves, Position DEF SessionShape, Jumped, Running, Whole
  <2>4. CASE UNCHANGED session
    BY <1>1, <2>4, PlanMoves DEF SessionShape, session, Whole
  <2>5. QED
    BY <1>1, <2>1, <2>2, <2>3, <2>4, PlanMoves
<1>2. CASE Disturb
  BY <1>2, DisturbMoves DEF SessionShape, session, Whole
<1>3. CASE CleanUp
  <2>1. UNCHANGED <<kind, pc, first>>
    BY <1>3, CleanUpMoves
  <2>2. phase # "running" \/ Complete => (first = "none" => Whole)
    BY DEF SessionShape, Complete, Whole
  <2>3. CASE Finish
    BY <2>1, <2>2, <2>3, VerdictIs DEF SessionShape, Finish, Whole
  <2>4. CASE ~Finish
    <3>1. \/ phase' \in {"leaving", "cleaning"} /\ outcome' = outcome
             /\ (Complete \/ phase = "leaving")
          \/ phase' = "ended" /\ outcome' \in {"cancelled", "stopped"}
             /\ (Complete \/ phase \in {"leaving", "cleaning"})
          \/ UNCHANGED <<phase, outcome>> /\ phase = "cleaning"
      BY <1>3, <2>4, CleanUpMoves
    <3>2. first = "none" => Whole
      BY <2>2, <3>1
    <3>3. phase # "ended" /\ outcome = "none"
      BY <3>1 DEF SessionShape, Complete
    <3>4. Whole' = Whole
      BY <2>1, DoneKept
    <3>5. QED
      BY <2>1, <3>1, <3>2, <3>3, <3>4 DEF SessionShape, Outcomes
  <2>5. QED
    BY <2>3, <2>4
<1>4. CASE UNCHANGED vars
  BY <1>4 DEF SessionShape, vars, session, Whole
<1>5. QED
  BY <1>1, <1>2, <1>3, <1>4 DEF Next

\* The elements of a sequence: appended to, reversed, and without its first.
LEMMA Elements ==
    ASSUME NEW S, NEW s \in Seq(S)
    PROVE  /\ \A e \in S : Items(Append(s, e)) = Items(s) \cup {e}
           /\ Reverse(s) \in Seq(S) /\ Items(Reverse(s)) = Items(s)
           /\ s # <<>> => /\ Head(s) \in S /\ Tail(s) \in Seq(S)
                          /\ Items(s) = {Head(s)} \cup Items(Tail(s))
<1> USE DEF Items
<1>1. \A e \in S : {Append(s, e)[i] : i \in DOMAIN Append(s, e)}
                   = {s[i] : i \in DOMAIN s} \cup {e}
  <2> TAKE e \in S
  <2>1. /\ Append(s, e) \in Seq(S) /\ Len(Append(s, e)) = Len(s) + 1
        /\ \A i \in 1..Len(s) : Append(s, e)[i] = s[i]
        /\ Append(s, e)[Len(s) + 1] = e
    BY AppendProperties
  <2>2. DOMAIN Append(s, e) = DOMAIN s \cup {Len(s) + 1} /\ DOMAIN s = 1..Len(s)
    BY <2>1
  <2>3. QED
    BY <2>1, <2>2
<1>2. Reverse(s) = [i \in 1..Len(s) |-> s[(Len(s) - i) + 1]] /\ Len(s) \in Nat
  BY DEF Reverse
<1>3. Reverse(s) \in Seq(S) /\ DOMAIN Reverse(s) = 1..Len(s) /\ DOMAIN s = 1..Len(s)
  BY <1>2
<1>4. {Reverse(s)[i] : i \in DOMAIN Reverse(s)} = {s[i] : i \in DOMAIN s}
  <2>1. \A i \in 1..Len(s) : (Len(s) - i) + 1 \in 1..Len(s)
                             /\ Reverse(s)[(Len(s) - i) + 1] = s[i]
                             /\ Reverse(s)[i] = s[(Len(s) - i) + 1]
    BY <1>2
  <2>2. QED
    BY <1>3, <2>1
<1>5. ASSUME s # <<>>
      PROVE  /\ Head(s) \in S /\ Tail(s) \in Seq(S)
             /\ {s[i] : i \in DOMAIN s} = {Head(s)} \cup {Tail(s)[i] : i \in DOMAIN Tail(s)}
  <2>1. /\ Head(s) \in S /\ Tail(s) \in Seq(S) /\ Len(s) >= 1 /\ Len(s) \in Nat
        /\ Len(Tail(s)) = Len(s) - 1
        /\ Head(s) = s[1] /\ \A i \in 1..(Len(s) - 1) : Tail(s)[i] = s[i + 1]
    BY <1>5
  <2>2. DOMAIN Tail(s) = 1..(Len(s) - 1) /\ DOMAIN s = 1..Len(s)
    BY <2>1
  <2>3. \A i \in 1..Len(s) : i = 1 \/ (i - 1 \in 1..(Len(s) - 1) /\ s[i] = Tail(s)[i - 1])
    BY <2>1
  <2>4. \A i \in 1..(Len(s) - 1) : i + 1 \in 1..Len(s)
    BY <2>1
  <2>5. \A i \in DOMAIN s : s[i] \in {Head(s)} \cup {Tail(s)[j] : j \in DOMAIN Tail(s)}
    BY <2>1, <2>2, <2>3
  <2>6. /\ Head(s) \in {s[i] : i \in DOMAIN s}
        /\ \A j \in DOMAIN Tail(s) : Tail(s)[j] \in {s[i] : i \in DOMAIN s}
    BY <2>1, <2>2, <2>4
  <2>7. QED
    BY <2>1, <2>5, <2>6
<1>6. QED
  BY <1>1, <1>3, <1>4, <1>5

-----------------------------------------------------------------------------
(***************************************************************************)
(* The owners, their children, and what the cleanup looks at.              *)
(***************************************************************************)
Counts == [faults : Nat, interrupts : Nat, kills : Nat]

\* What a session counts, and that only the unkillable counts as one.
LEMMA Spending ==
    ASSUME spent \in Counts
    PROVE  /\ Fault => spent' \in Counts /\ spent'.kills = spent.kills
           /\ Interrupt => spent' \in Counts /\ spent'.kills = spent.kills
           /\ Unkilled => spent' \in Counts /\ spent'.kills # 0
<1>1. /\ spent.faults + 1 \in Nat /\ spent.interrupts + 1 \in Nat /\ spent.kills + 1 \in Nat
      /\ spent.kills + 1 # 0
  BY DEF Counts
<1>2. ASSUME Fault PROVE spent' \in Counts /\ spent'.kills = spent.kills
  BY <1>1, <1>2 DEF Fault, Counts
<1>3. ASSUME Interrupt PROVE spent' \in Counts /\ spent'.kills = spent.kills
  BY <1>1, <1>3 DEF Interrupt, Counts
<1>4. ASSUME Unkilled PROVE spent' \in Counts /\ spent'.kills # 0
  BY <1>1, <1>4 DEF Unkilled, Counts
<1>5. QED
  BY <1>2, <1>3, <1>4

\* The child of an adapter goes; a child takes its place.
Dropped(n) == child' = [child EXCEPT ![n] = 0] /\ alive' = alive \ {child[n]}
Placing(n, c) == child' = [child EXCEPT ![n] = c]

\* Without its child, an adapter leaves the others theirs.
LEMMA DroppedChild ==
    ASSUME OwnersShape, NEW n \in Natives, Dropped(n)
    PROVE  /\ child' \in [Natives -> 0..4] /\ child'[n] = 0 /\ alive' \subseteq alive
           /\ \A m \in Natives : m # n => child'[m] = child[m]
           /\ alive \subseteq Attached => alive' \subseteq Attached'
<1>1. /\ child' \in [Natives -> 0..4] /\ child'[n] = 0 /\ alive' = alive \ {child[n]}
      /\ \A m \in Natives : m # n => child'[m] = child[m]
  BY DEF OwnersShape, Dropped
<1>2. ASSUME alive \subseteq Attached, NEW c \in alive' PROVE c \in Attached'
  <2>1. PICK m \in Natives : child[m] = c
    BY <1>1, <1>2 DEF Attached
  <2>2. m # n /\ child'[m] = c /\ c # 0
    BY <1>1, <1>2, <2>1 DEF OwnersShape
  <2>3. QED
    BY <2>2 DEF Attached
<1>3. QED
  BY <1>1, <1>2

\* With a new child, an adapter leaves the others theirs.
LEMMA PlacedChild ==
    ASSUME OwnersShape, NEW n \in Natives, NEW c \in 0..4, Placing(n, c)
    PROVE  /\ child' \in [Natives -> 0..4] /\ child'[n] = c
           /\ \A m \in Natives : m # n => child'[m] = child[m]
  BY DEF OwnersShape, Placing

\* The owners an owner joins.
LEMMA StartedGrows ==
    ASSUME OwnersShape, NEW o \in Owners, started' = Append(started, o)
    PROVE  started' \in Seq(Owners) /\ StartedOwners' = StartedOwners \cup {o}
<1>1. started \in Seq(Owners)
  BY DEF OwnersShape
<1>2. StartedOwners' = Items(Append(started, o)) /\ StartedOwners = Items(started)
  BY DEF StartedOwners, Items
<1>3. Items(Append(started, o)) = Items(started) \cup {o}
  BY <1>1, Elements
<1>4. QED
  BY <1>1, <1>2, <1>3

\* What the start of an owner spawns.
LEMMA SpawnedChild ==
    ASSUME OwnersShape, NEW o \in Owners, Spawned(o) \/ UNCHANGED <<child, alive>>
    PROVE  /\ child' \in [Natives -> 0..4] /\ alive' \subseteq 1..4
           /\ \A m \in Natives : \/ child'[m] = child[m]
                                 \/ m = o /\ child'[m] = Newest[m]
           /\ (\A m \in Natives : child[m] \in {0, Newest[m]}) /\ alive \subseteq Attached
                 => alive' \subseteq Attached'
<1>1. CASE o \in Natives /\ Spawned(o)
  <2>1. Newest[o] \in 1..4 /\ Placing(o, Newest[o]) /\ alive' = alive \cup {Newest[o]}
    BY <1>1 DEF Spawned, Natives, Newest, Placing
  <2>2. /\ child' \in [Natives -> 0..4] /\ child'[o] = Newest[o]
        /\ \A m \in Natives : m # o => child'[m] = child[m]
    BY <1>1, <2>1, PlacedChild
  <2>4. Newest[o] \in 1..4
    BY <2>1
  <2>3. alive' \subseteq 1..4
    BY <2>1, <2>4 DEF OwnersShape
  <2>5. ASSUME \A m \in Natives : child[m] \in {0, Newest[m]}, alive \subseteq Attached,
               NEW c \in alive'
        PROVE  c \in Attached'
    <3>1. CASE c = Newest[o]
      BY <1>1, <2>2, <2>3, <3>1 DEF Attached
    <3>2. CASE c # Newest[o]
      <4>1. PICK m \in Natives : child[m] = c /\ c # 0
        BY <2>1, <2>5, <3>2 DEF Attached
      <4>2. m # o
        BY <2>5, <3>2, <4>1
      <4>3. QED
        BY <2>2, <4>1, <4>2 DEF Attached
    <3>3. QED
      BY <3>1, <3>2
  <2>6. QED
    BY <1>1, <2>2, <2>3, <2>5
<1>2. CASE UNCHANGED <<child, alive>>
  BY <1>2 DEF OwnersShape, Attached
<1>3. QED
  BY <1>1, <1>2 DEF Spawned

\* The stop of an owner takes its child.
LEMMA StoppedChild ==
    ASSUME OwnersShape, NEW o \in Owners, Stopped(o)
    PROVE  /\ child' \in [Natives -> 0..4] /\ alive' \subseteq alive
           /\ \A m \in Natives : child'[m] = IF m = o THEN 0 ELSE child[m]
           /\ alive \subseteq Attached => alive' \subseteq Attached'
<1>1. CASE o \in Natives
  BY <1>1, DroppedChild DEF Stopped, Dropped
<1>2. CASE o \notin Natives
  BY ZenonT(60), <1>2 DEF Stopped, OwnersShape, Attached
<1>3. QED
  BY <1>1, <1>2

\* An adapter is an owner.
LEMMA NativesAreOwners == Natives \subseteq Owners
  BY DEF Natives, Owners, Five

\* Where the recovery of a plan is.
LEMMA RebuildPlace ==
    ASSUME SessionShape
    PROVE  /\ "rebuild" \in Done => kind = "recovery"
           /\ Running /\ Step \in Owners => "rebuild" \notin Done
           /\ Running /\ Step = "rebuild" => kind = "recovery"
<1>1. Len(Plan[kind]) \in Nat /\ Placed(kind) /\ pc \in 1..(Len(Plan[kind]) + 1)
  BY Plans DEF SessionShape
<1>2. "rebuild" \in Done => kind = "recovery"
  BY <1>1 DEF Done, DoneAt, Placed
<1>3. Running => pc \in 1..Len(Plan[kind]) /\ Step = Plan[kind][pc]
  BY Position DEF Step
<1>4. kind = "recovery" => HoldsAll(kind)
  BY HeldPlans DEF HeldKinds, Sampled
<1>5. Running /\ Step \in Owners => "rebuild" \notin Done
  BY <1>2, <1>3, <1>4 DEF HoldsAll, Done
<1>6. QED
  BY <1>1, <1>2, <1>3, <1>5 DEF Placed

\* What the cleanup looks at: what was held, or whatever is attached.
LEMMA HandlesCover ==
    ASSUME OwnersShape, SessionShape, ChildrenInv
    PROVE  /\ Handles \subseteq 0..4
           /\ kind \in HeldKinds => Handles = held
           /\ kind \notin HeldKinds => Attached \subseteq Handles
<1>1. kind \in DOMAIN Plan
  BY SessionKinds DEF SessionShape
<1>2. CASE kind \in {"semantic", "lifecycle", "memory"}
  <2>1. Handles = {child[n] : n \in {x \in Natives :
                                          \E i \in DOMAIN started : started[i] = x}} \ {0}
    BY <1>2 DEF Handles, WakePaths
  <2>2. kind \notin HeldKinds
    BY <1>2 DEF HeldKinds, Sampled
  <2>3. \A n \in Natives : child[n] # 0 => \E i \in DOMAIN started : started[i] = n
    BY DEF ChildrenInv, StartedOwners
  <2>4. Handles \subseteq 0..4
    BY <2>1 DEF OwnersShape
  <2>5. Attached \subseteq Handles
    BY <2>1, <2>3 DEF Attached
  <2>6. QED
    BY <2>2, <2>4, <2>5
<1>3. CASE kind \in {"fixed"} \cup WakePaths
  <2>1. Handles = Attached /\ kind \notin HeldKinds
    BY <1>3 DEF Handles, WakePaths, HeldKinds, Sampled
  <2>2. QED
    BY <2>1 DEF OwnersShape, Attached
<1>4. CASE kind = "native"
  <2>1. Handles = {child[n] : n \in Natives} /\ kind \notin HeldKinds
    BY <1>4 DEF Handles, WakePaths, HeldKinds, Sampled
  <2>2. QED
    BY <2>1 DEF OwnersShape, Attached
<1>5. CASE kind \in HeldKinds
  <2>1. Handles = held
    BY <1>5 DEF Handles, WakePaths, HeldKinds, Sampled
  <2>2. QED
    BY <1>5, <2>1 DEF OwnersShape
<1>6. QED
  BY <1>1, <1>2, <1>3, <1>4, <1>5 DEF Plan, WakePaths, HeldKinds, Sampled

\* Every step keeps the owners' shape.
LEMMA OwnersShapeKept ==
    ASSUME OwnersShape, SessionShape, ChildrenInv, [Next]_vars
    PROVE  OwnersShape'
<1> USE DEF Counts
<1>1. CASE UNCHANGED <<owners, spent>>
  BY <1>1 DEF OwnersShape, owners
<1>2. CASE StartOwner
  <2>1. Step \in Owners /\ started' = Append(started, Step)
    BY <1>2 DEF StartOwner, Records
  <2>2. Spawned(Step) \/ UNCHANGED <<child, alive>>
    BY <1>2 DEF StartOwner
  <2>3. spent' \in Counts
    BY <1>2, Spending DEF StartOwner, OwnersShape
  <2>4. QED
    BY <1>2, <2>1, <2>2, <2>3, StartedGrows, SpawnedChild DEF StartOwner, OwnersShape
<1>3. CASE OperationFails
  <2>1. UNCHANGED stopping /\ spent' \in Counts
    BY <1>3, Spending DEF OperationFails, OwnersShape
  <2>2. UNCHANGED <<child, alive>> \/ \E n \in Natives : Dropped(n)
    BY <1>3 DEF OperationFails, Dropped, Needs, Natives
  <2>3. child' \in [Natives -> 0..4] /\ alive' \subseteq 1..4
    BY <2>2, DroppedChild DEF OwnersShape
  <2>4. QED
    BY <2>1, <2>3 DEF OwnersShape, stopping
<1>4. CASE Hold
  BY <1>4 DEF Hold, OwnersShape, Attached, aside
<1>5. CASE Keep
  BY <1>5 DEF Keep, OwnersShape, aside, Natives
<1>6. CASE ForcedCleanup
  <2>1. "llm" \in Natives /\ Dropped("llm") /\ UNCHANGED stopping /\ UNCHANGED spent
    BY <1>6 DEF ForcedCleanup, Dropped, Natives
  <2>2. QED
    BY <2>1, DroppedChild DEF OwnersShape, stopping
<1>7. CASE Rebuild
  <2>1. "llm" \in Natives /\ UNCHANGED stopping /\ spent' \in Counts
    BY <1>7, Spending DEF Rebuild, Natives, OwnersShape
  <2>2. \/ Dropped("llm")
        \/ Placing("llm", 4) /\ alive' \subseteq alive \cup {4}
    BY <1>7 DEF Rebuild, Dropped, Placing
  <2>5. ASSUME Dropped("llm")
        PROVE  child' \in [Natives -> 0..4] /\ alive' \subseteq 1..4
    BY <2>1, <2>5, DroppedChild DEF OwnersShape
  <2>6. ASSUME Placing("llm", 4) /\ alive' \subseteq alive \cup {4}
        PROVE  child' \in [Natives -> 0..4] /\ alive' \subseteq 1..4
    <3>1. 4 \in 0..4 /\ 4 \in 1..4
      OBVIOUS
    <3>2. child' \in [Natives -> 0..4]
      BY <2>1, <2>6, <3>1, PlacedChild
    <3>3. QED
      BY <2>6, <3>1, <3>2 DEF OwnersShape
  <2>3. child' \in [Natives -> 0..4] /\ alive' \subseteq 1..4
    BY <2>2, <2>5, <2>6 DEF OwnersShape
  <2>4. QED
    BY <2>1, <2>3 DEF OwnersShape, stopping
<1>8. CASE Disturb
  BY <1>8, DisturbMoves, Spending DEF OwnersShape, stopping
<1>9. CASE Leave
  <2>1. /\ UNCHANGED <<started, asked, child, alive>> /\ held' = Handles
        /\ clean' = clean \/ clean' = (kind \notin WakePaths)
        /\ left' = left \/ left' = Reverse(started)
    BY <1>9 DEF Leave
  <2>2. spent' \in Counts
    BY <1>9, Spending DEF Leave, OwnersShape
  <2>3. left' \in Seq(Owners)
    BY <2>1, Elements DEF OwnersShape
  <2>4. held' \subseteq 0..4 /\ clean' \in BOOLEAN
    BY <2>1, HandlesCover DEF OwnersShape
  <2>5. QED
    BY <2>1, <2>2, <2>3, <2>4 DEF OwnersShape
<1>10. CASE JoinSampler
  BY <1>10, Spending DEF JoinSampler, OwnersShape, owners
<1>11. CASE StopOwner
  <2>1. left # <<>> /\ asked' = asked \cup {Head(left)} /\ left' = Tail(left)
        /\ UNCHANGED <<started, held>>
    BY <1>11 DEF StopOwner
  <2>2. Head(left) \in Owners /\ Tail(left) \in Seq(Owners)
    BY <2>1, Elements DEF OwnersShape
  <2>3. clean' \in BOOLEAN /\ spent' \in Counts
    BY <1>11, Spending DEF StopOwner, OwnersShape
  <2>4. \/ Stopped(Head(left)) \/ UNCHANGED <<child, alive>>
        \/ Head(left) \in Natives /\ Placing(Head(left), 0) /\ UNCHANGED alive
    BY <1>11 DEF StopOwner, Placing
  <2>7. ASSUME Stopped(Head(left)) \/ UNCHANGED <<child, alive>>
        PROVE  child' \in [Natives -> 0..4] /\ alive' \subseteq 1..4
    BY <2>2, <2>7, StoppedChild DEF OwnersShape
  <2>8. ASSUME Head(left) \in Natives /\ Placing(Head(left), 0) /\ UNCHANGED alive
        PROVE  child' \in [Natives -> 0..4] /\ alive' \subseteq 1..4
    <3>1. 0 \in 0..4
      OBVIOUS
    <3>2. QED
      BY <2>8, <3>1, PlacedChild DEF OwnersShape
  <2>5. child' \in [Natives -> 0..4] /\ alive' \subseteq 1..4
    BY <2>4, <2>7, <2>8 DEF OwnersShape
  <2>6. QED
    BY <2>1, <2>2, <2>3, <2>5 DEF OwnersShape
<1>12. CASE CleanupExpires
  BY <1>12, Spending DEF CleanupExpires, OwnersShape
<1>13. CASE Finish
  BY <1>13 DEF Finish, OwnersShape, owners
<1>14. QED
  <2>1. CASE Operate
    BY <2>1, <1>1, <1>2, <1>3, <1>4, <1>5, <1>6, <1>7, TalkMoves, TurnMoves, HelperMoves
       DEF Operate
  <2>2. CASE UnderTest \/ WatchWake
    BY <2>2, <1>1, TestMoves, WatchMoves
  <2>3. CASE CleanUp
    BY <2>3, <1>9, <1>10, <1>11, <1>12, <1>13 DEF CleanUp
  <2>4. CASE UNCHANGED vars
    BY <2>4, <1>1 DEF vars
  <2>5. QED
    BY <1>8, <2>1, <2>2, <2>3, <2>4 DEF Next

\* Every step keeps the helpers' shape.
LEMMA HelpersShapeKept ==
    ASSUME HelpersShape, SessionShape, [Next]_vars
    PROVE  HelpersShape'
<1>1. CASE (Advanced \/ Broken \/ Jumped) /\ UNCHANGED helpers /\ UNCHANGED clean
           /\ Step # "quit"
  <2>1. (kind \in {"normal", "recovery"} /\ Whole)' => helpers.manager = "off"
    <3>1. ASSUME (kind \in {"normal", "recovery"} /\ Whole)' PROVE helpers.manager = "off"
      <4>1. kind \in {"normal", "recovery"} /\ kind' = kind
        BY <1>1, <3>1 DEF Advanced, Broken, Jumped
      <4>2. ~Advanced
        BY <1>1, <3>1, <4>1, QuitIsLast, Position DEF Advanced, Whole, Step
      <4>3. Broken
        BY <1>1, <4>1, <4>2 DEF Jumped
      <4>4. QED
        BY <3>1, <4>1, <4>3, DoneKept DEF Broken, HelpersShape
    <3>2. QED
      BY <3>1
  <2>2. QED
    BY <1>1, <2>1 DEF HelpersShape, Advanced, Broken, Jumped, Running
<1>2. CASE UNCHANGED session /\ UNCHANGED helpers /\ UNCHANGED clean
  BY <1>2, DoneKept DEF HelpersShape, session
<1>3. CASE StartSampler \/ StartManager \/ Quit
  <2>1. Placed(kind) /\ pc \in 1..Len(Plan[kind]) /\ Advanced /\ clean' = clean
        /\ Len(Plan[kind]) \in Nat
    BY <1>3, Position, HelperMoves DEF Advanced, owners
  <2>2. CASE Step = "sampler" /\ helpers' = [helpers EXCEPT !.sampler = "on"]
    <3>1. kind = "shutdown"
      BY <2>1, <2>2 DEF Placed, Step
    <3>2. QED
      BY <2>1, <2>2, <3>1 DEF HelpersShape, Advanced, Running, WakePaths
  <2>3. CASE Step = "manager" /\ helpers' = [helpers EXCEPT !.manager = "on"]
    <3>1. kind \in WakePaths \cup {"normal", "recovery"}
      BY <2>1, <2>3 DEF Placed, Step
    <3>2. (kind \in {"normal", "recovery"} /\ Whole)' => FALSE
      BY <2>1, <2>3, QuitIsLast DEF Advanced, Whole, Step
    <3>3. QED
      BY <2>1, <2>3, <3>1, <3>2 DEF HelpersShape, Advanced, Running
  <2>4. CASE Step = "quit" /\ helpers' = [helpers EXCEPT !.manager = "off"]
    BY <2>1, <2>4 DEF HelpersShape, Advanced, Running
  <2>5. QED
    BY <1>3, <2>2, <2>3, <2>4, HelperMoves
<1>4. CASE Disturb
  <2>1. UNCHANGED session /\ UNCHANGED clean
        /\ (UNCHANGED helpers \/ (helpers.sampler = "on"
                                  /\ helpers' = [helpers EXCEPT !.sampler = "failed"]))
    BY <1>4, DisturbMoves DEF stopping
  <2>2. QED
    BY <2>1, <1>2, DoneKept DEF HelpersShape, session
<1>5. CASE Leave
  <2>1. UNCHANGED <<kind, pc>> /\ helpers.sampler # "on" /\ (Complete \/ phase = "leaving")
    BY <1>5 DEF Leave
  <2>2. CASE helpers.manager # "on"
    BY <1>5, <2>1, <2>2, DoneKept DEF Leave, HelpersShape
  <2>3. CASE helpers.manager = "on" /\ clean' = clean
             /\ helpers' = [helpers EXCEPT !.manager = "off"]
    BY <1>5, <2>1, <2>3, DoneKept DEF Leave, HelpersShape
  <2>4. CASE helpers.manager = "on" /\ clean' = (kind \notin WakePaths)
             /\ helpers' = [helpers EXCEPT !.manager = "stuck"]
    <3>1. phase' = "leaving" /\ (kind \in WakePaths => ~clean')
      BY <1>5, <2>4 DEF Leave
    <3>2. /\ helpers' \in [manager : {"off", "on", "stuck"}, sampler : {"off", "on", "failed"}]
          /\ helpers'.sampler = helpers.sampler
      BY <2>4 DEF HelpersShape
    <3>3. Whole' = Whole
      BY <2>1, DoneKept
    <3>4. QED
      BY <2>1, <2>4, <3>1, <3>2, <3>3 DEF HelpersShape
  <2>5. QED
    BY <1>5, <2>2, <2>3, <2>4 DEF Leave
<1>6. CASE JoinSampler
  BY <1>6, DoneKept DEF JoinSampler, CutShort, HelpersShape, owners
<1>7. CASE StopOwner \/ CleanupExpires \/ Finish
  <2>1. UNCHANGED <<kind, pc, helpers>> /\ phase = "cleaning" /\ phase' \in {"cleaning", "ended"}
        /\ (clean' = clean \/ clean' = FALSE)
    BY <1>7 DEF StopOwner, CleanupExpires, Finish, CutShort, session, aside, owners
  <2>2. QED
    BY <2>1, DoneKept DEF HelpersShape
<1>8. QED
  <2>1. CASE Operate
    <3>1. CASE Open \/ Hear \/ Timing \/ Think \/ Speak \/ Close \/ ManagedSession
      BY <3>1, <1>1, TalkMoves DEF owners
    <3>2. CASE Decide \/ Replace
      <4>1. Step # "quit" /\ clean' = clean
        BY <3>2 DEF Decide, Replace, Works, owners
      <4>2. QED
        BY <3>2, <4>1, <1>1, TurnMoves
    <3>3. CASE StartOwner \/ OperationFails \/ Hold \/ ForcedCleanup \/ Rebuild \/ Keep
      <4>1. clean' = clean /\ UNCHANGED helpers /\ (Advanced \/ Broken)
        BY <3>3, OwnerMoves
      <4>2. CASE Step # "quit"
        BY <4>1, <4>2, <1>1
      <4>3. CASE Step = "quit"
        <5>1. OperationFails
          <6>1. "quit" \notin Owners
            BY DEF Owners, Five
          <6>2. QED
            BY <3>3, <4>3, <6>1 DEF StartOwner, Hold, ForcedCleanup, Rebuild, Keep, Works
        <5>2. Broken
          BY <5>1 DEF OperationFails, Broken, Breaks, Errors
        <5>3. QED
          BY <4>1, <5>2, DoneKept DEF HelpersShape, Broken, Running
      <4>4. QED
        BY <4>2, <4>3
    <3>4. QED
      BY <2>1, <1>3, <3>1, <3>2, <3>3 DEF Operate
  <2>2. CASE UnderTest \/ WatchWake
    <3>1. CASE UnderTest \/ Notice
      BY <3>1, <1>2, TestMoves DEF owners
    <3>2. CASE WatchWake /\ ~Notice
      BY <3>2, <1>1, WatchMoves DEF owners, WatchSteps
    <3>3. QED
      BY <2>2, <3>1, <3>2
  <2>3. CASE CleanUp
    BY <2>3, <1>5, <1>6, <1>7 DEF CleanUp
  <2>4. CASE UNCHANGED vars
    BY <2>4, <1>2 DEF vars, owners, aside
  <2>5. QED
    BY <1>4, <2>1, <2>2, <2>3, <2>4 DEF Next

\* Every owner that was started is asked to stop.
LEMMA StopsKept ==
    ASSUME OwnersShape, SessionShape, StopsInv, [Next]_vars
    PROVE  StopsInv'
<1>1. CASE Operate \/ UnderTest \/ WatchWake
  <2>1. /\ asked' = asked /\ outcome' = outcome
        /\ phase = "running" /\ phase' \in {"running", "leaving"}
    BY <1>1, PlanMoves DEF Advanced, Broken, Jumped, Running, session
  <2>2. QED
    BY <2>1 DEF StopsInv
<1>2. CASE Disturb
  BY <1>2, DisturbMoves DEF StopsInv, StartedOwners, stopping, session
<1>3. CASE Leave
  <2>1. /\ asked' = asked /\ asked = {} /\ started' = started /\ phase' # "ended"
        /\ phase' = "cleaning" => left' = Reverse(started)
    BY <1>3 DEF Leave, Complete, StopsInv
  <2>2. phase' = "cleaning" => Items(left') = StartedOwners
    <3>1. started \in Seq(Owners)
      BY DEF OwnersShape
    <3>4. Items(started) = StartedOwners
      BY DEF StartedOwners, Items
    <3>2. Items(Reverse(started)) = StartedOwners
      BY <3>1, <3>4, Elements
    <3>3. QED
      BY <2>1, <3>2
  <2>3. QED
    BY <2>1, <2>2 DEF StopsInv, StartedOwners
<1>4. CASE JoinSampler
  BY <1>4 DEF JoinSampler, CutShort, Complete, StopsInv, owners
<1>5. CASE StopOwner
  <2>1. left # <<>> /\ asked' = asked \cup {Head(left)} /\ left' = Tail(left)
        /\ started' = started /\ phase = "cleaning"
    BY <1>5 DEF StopOwner
  <2>2. Items(left) = {Head(left)} \cup Items(Tail(left))
    <3>1. left \in Seq(Owners)
      BY DEF OwnersShape
    <3>2. QED
      BY <2>1, <3>1, Elements
  <2>3. \/ phase' = phase /\ outcome' = outcome
        \/ phase' = "ended" /\ outcome' # "result"
    BY <1>5 DEF StopOwner, CutShort, session
  <2>4. asked' \cup Items(left') = StartedOwners
    BY <2>1, <2>2 DEF StopsInv
  <2>5. QED
    BY <2>1, <2>3, <2>4 DEF StopsInv, StartedOwners
<1>6. CASE CleanupExpires
  BY <1>6 DEF CleanupExpires, CutShort, StopsInv, SessionShape, Errors
<1>7. CASE Finish
  <2>1. phase = "cleaning" /\ left = <<>> /\ phase' = "ended" /\ UNCHANGED <<asked, started>>
    BY <1>7 DEF Finish, owners
  <2>2. Items(left) = {}
    BY <2>1 DEF Items
  <2>3. asked = StartedOwners
    BY <2>1, <2>2 DEF StopsInv
  <2>4. QED
    BY <2>1, <2>3 DEF StopsInv, StartedOwners
<1>8. CASE UNCHANGED vars
  BY <1>8 DEF vars, session, owners, StopsInv, StartedOwners
<1>9. QED
  BY <1>1, <1>2, <1>3, <1>4, <1>5, <1>6, <1>7, <1>8 DEF Next, CleanUp

\* No child without its owner; a stopped owner has none; what lives is attached.
LEMMA ChildrenKept ==
    ASSUME OwnersShape, SessionShape, StopsInv, ChildrenInv, [Next]_vars
    PROVE  ChildrenInv'
<1> DEFINE Usual == \A n \in Natives : child[n] \in {0, Newest[n]}
<1>1. CASE Operate \/ UnderTest \/ WatchWake
  <2>9. Advanced \/ Broken \/ Jumped \/ (UNCHANGED session /\ phase = "running")
    BY <1>1, PlanMoves
  <2>1. /\ phase = "running" /\ phase' \in {"running", "leaving"} /\ asked = {}
        /\ phase' = "leaving" => first' # "none"
    BY <2>9 DEF Advanced, Broken, Jumped, Running, session, StopsInv
  <2>2. spent.kills = 0 /\ (Usual \/ "rebuild" \in Done)
    BY <2>1 DEF ChildrenInv, SessionShape
  <2>3. phase' = "running" => (Usual \/ "rebuild" \in Done')
    <3>1. CASE Advanced
      BY <2>2, <3>1, DoneGrows
    <3>2. CASE Jumped
      <4>1. "rebuild" \notin Done
        BY <3>2, RebuildPlace DEF Jumped
      <4>2. QED
        BY <2>2, <4>1
    <3>3. CASE Broken
      BY <3>3 DEF Broken
    <3>4. CASE UNCHANGED session
      BY <2>2, <3>4, DoneKept DEF session
    <3>5. QED
      BY <2>9, <3>1, <3>2, <3>3, <3>4
  <2>4. CASE UNCHANGED <<started, asked, child, alive>> /\ spent'.kills = spent.kills
    BY <2>1, <2>2, <2>3, <2>4 DEF ChildrenInv, StartedOwners, Attached
  <2>5. CASE StartOwner
    <3>1. /\ Step \in Owners /\ started' = Append(started, Step) /\ asked' = asked
          /\ Spawned(Step) \/ UNCHANGED <<child, alive>>
          /\ spent' = spent \/ Fault \/ Interrupt
      BY <2>5 DEF StartOwner, Records
    <3>2. StartedOwners' = StartedOwners \cup {Step}
      BY <3>1, StartedGrows
    <3>3. Usual
      BY <2>2, <2>5, <3>1, RebuildPlace DEF StartOwner
    <3>4. spent'.kills = 0
      BY <2>2, <3>1, Spending DEF OwnersShape, Counts
    <3>5. /\ \A n \in Natives : child'[n] = child[n] \/ (n = Step /\ child'[n] = Newest[n])
          /\ alive' \subseteq Attached'
      BY <2>2, <3>1, <3>3, SpawnedChild DEF ChildrenInv
    <3>6. /\ \A n \in Natives : child'[n] # 0 => n \in StartedOwners'
          /\ \A n \in Natives : child'[n] \in {0, Newest[n]}
      BY <3>2, <3>3, <3>5 DEF ChildrenInv
    <3>7. QED
      BY <2>1, <3>1, <3>4, <3>5, <3>6 DEF ChildrenInv
  <2>6. CASE /\ UNCHANGED <<started, asked>> /\ \E n \in Natives : Dropped(n)
             /\ spent'.kills = spent.kills
    <3>1. PICK n \in Natives : Dropped(n)
      BY <2>6
    <3>2. /\ child'[n] = 0 /\ \A m \in Natives : m # n => child'[m] = child[m]
          /\ alive \subseteq Attached => alive' \subseteq Attached'
      BY <3>1, DroppedChild
    <3>3. \A m \in Natives : child'[m] \in {0, child[m]}
      BY <3>2
    <3>4. phase' = "running" => (\A m \in Natives : child'[m] \in {0, Newest[m]})
                                \/ "rebuild" \in Done'
      BY <2>3, <3>3
    <3>5. QED
      BY <2>1, <2>2, <2>6, <3>2, <3>3, <3>4 DEF ChildrenInv, StartedOwners
  <2>7. CASE /\ Rebuild /\ Placing("llm", 4)
             /\ \/ Advanced /\ alive' = (alive \ {child.llm}) \cup {4} /\ UNCHANGED spent
                \/ Unkilled
    <3>1. UNCHANGED <<started, asked>> /\ "llm" \in Natives /\ child.llm # 0 /\ 4 \in 0..4
      BY <2>7 DEF Rebuild, stopping, Works, Needs, Living, Natives, OwnersShape
    <3>2. child'["llm"] = 4 /\ \A m \in Natives : m # "llm" => child'[m] = child[m]
      BY <2>7, <3>1, PlacedChild
    <3>3. \A n \in Natives : child'[n] # 0 => n \in StartedOwners'
      BY <3>1, <3>2 DEF ChildrenInv, StartedOwners
    <3>4. CASE Unkilled
      <4>1. spent'.kills # 0 /\ phase' = "leaving"
        <5>1. spent \in Counts
          BY DEF OwnersShape, Counts
        <5>2. spent'.kills # 0
          BY <3>4, <5>1, Spending
        <5>3. ~Advanced => phase' = "leaving"
          BY <2>7 DEF Rebuild, Breaks, Advanced, Works, Advance, Goto
        <5>4. Advanced => spent' = spent
          BY <2>7 DEF Rebuild, Breaks, Advanced, Works, Running
        <5>5. QED
          BY <2>2, <5>2, <5>3, <5>4
      <4>2. QED
        BY <2>1, <3>1, <3>3, <4>1 DEF ChildrenInv
    <3>5. CASE Advanced /\ alive' = (alive \ {child.llm}) \cup {4} /\ UNCHANGED spent
      <4>1. "rebuild" \in Done'
        BY <2>7, <3>5, DoneGrows DEF Rebuild, Works
      <4>2. alive \subseteq Attached
        BY <2>2 DEF ChildrenInv
      <4>3. ASSUME NEW c \in alive' PROVE \E n \in Natives : child'[n] = c /\ c # 0
        <5>1. CASE c = 4
          BY <3>1, <3>2, <5>1
        <5>2. CASE c # 4
          <6>1. c \in alive /\ c # child.llm
            BY <3>5, <4>3, <5>2
          <6>2. PICK m \in Natives : child[m] = c /\ c # 0
            BY <4>2, <6>1 DEF Attached
          <6>3. m # "llm"
            BY <6>1, <6>2
          <6>4. QED
            BY <3>2, <6>2, <6>3
        <5>3. QED
          BY <5>1, <5>2
      <4>4. alive' \subseteq Attached'
        BY <4>3 DEF Attached
      <4>5. QED
        BY <2>1, <2>2, <3>1, <3>3, <3>5, <4>1, <4>4 DEF ChildrenInv
    <3>6. QED
      BY <2>7, <3>4, <3>5
  <2>8. QED
    <3>1. spent \in Counts
      BY DEF OwnersShape, Counts
    <3>2. CASE OperationFails
      <4>1. UNCHANGED stopping /\ spent'.kills = spent.kills
        BY <3>1, <3>2, Spending DEF OperationFails
      <4>2. UNCHANGED <<child, alive>> \/ \E n \in Natives : Dropped(n)
        BY <3>2 DEF OperationFails, Dropped, Needs, Natives
      <4>3. QED
        BY <4>1, <4>2, <2>4, <2>6 DEF stopping
    <3>3. CASE Hold \/ Keep
      BY <3>3, <2>4 DEF Hold, Keep
    <3>4. CASE ForcedCleanup
      <4>1. "llm" \in Natives /\ Dropped("llm") /\ UNCHANGED stopping /\ UNCHANGED spent
        BY <3>4 DEF ForcedCleanup, Dropped, Natives
      <4>2. QED
        BY <4>1, <2>6 DEF stopping
    <3>5. CASE Rebuild
      <4>1. \/ Advanced /\ alive' = (alive \ {child.llm}) \cup {4} /\ UNCHANGED spent
               /\ Placing("llm", 4)
            \/ Unkilled /\ Placing("llm", 4)
            \/ Fault /\ Dropped("llm")
        BY <3>5 DEF Rebuild, Works, Advanced, Advance, Goto, Placing, Dropped
      <4>2. "llm" \in Natives /\ UNCHANGED stopping
        BY <3>5 DEF Rebuild, Natives
      <4>3. CASE Fault /\ Dropped("llm")
        BY <3>1, <4>2, <4>3, <2>6, Spending DEF stopping
      <4>4. QED
        BY <3>5, <4>1, <4>3, <2>7
    <3>6. CASE UNCHANGED <<owners, spent>>
      BY <3>6, <2>4 DEF owners
    <3>7. CASE Operate
      BY <3>7, <2>5, <3>2, <3>3, <3>4, <3>5, <3>6, TalkMoves, TurnMoves, HelperMoves
         DEF Operate
    <3>8. CASE UnderTest \/ WatchWake
      BY <3>8, <3>6, TestMoves, WatchMoves
    <3>9. QED
      BY <1>1, <3>7, <3>8
<1>2. CASE Disturb
  <2>1. /\ UNCHANGED <<kind, pc, phase, first, started, asked, child, clean>>
        /\ alive' \subseteq alive /\ spent'.kills = spent.kills
    BY <1>2, DisturbMoves, Spending DEF session, stopping, OwnersShape, Counts
  <2>2. QED
    BY <2>1, DoneKept DEF ChildrenInv, StartedOwners, Attached
<1>3. CASE Leave \/ JoinSampler
  <2>1. /\ UNCHANGED <<first, started, asked, child, alive>>
        /\ phase \in {"running", "leaving"} /\ phase' # "running"
        /\ spent' = spent \/ Fault \/ Interrupt
    BY <1>3 DEF Leave, JoinSampler, CutShort, Complete, owners
  <2>2. asked = {} /\ spent'.kills = spent.kills
    BY <2>1, Spending DEF StopsInv, OwnersShape, Counts
  <2>3. QED
    BY <2>1, <2>2 DEF ChildrenInv, StartedOwners, Attached
<1>4. CASE StopOwner
  <2>1. left # <<>> /\ asked' = asked \cup {Head(left)} /\ started' = started
        /\ phase = "cleaning" /\ phase' \in {"cleaning", "ended"}
    BY <1>4 DEF StopOwner, CutShort, session
  <2>2. Head(left) \in Owners
    BY <2>1, Elements DEF OwnersShape
  <2>3. spent \in Counts
    BY DEF OwnersShape, Counts
  <2>4. ASSUME Stopped(Head(left)), (spent' = spent \/ Fault \/ Unkilled),
               clean' = clean \/ clean' = FALSE
        PROVE  ChildrenInv'
    <3>1. /\ \A m \in Natives : child'[m] = IF m = Head(left) THEN 0 ELSE child[m]
          /\ alive \subseteq Attached => alive' \subseteq Attached'
      BY <2>2, <2>4, StoppedChild
    <3>2. spent'.kills = 0 => spent.kills = 0
      BY <2>3, <2>4, Spending
    <3>3. QED
      BY <2>1, <2>4, <3>1, <3>2 DEF ChildrenInv, StartedOwners
  <2>5. ASSUME UNCHANGED <<child, alive>>, clean' = FALSE, Unkilled \/ Interrupt
        PROVE  ChildrenInv'
    <3>1. spent'.kills = 0 => spent.kills = 0
      BY <2>3, <2>5, Spending
    <3>2. QED
      BY <2>1, <2>5, <3>1 DEF ChildrenInv, StartedOwners, Attached
  <2>6. ASSUME Unkilled, Head(left) \in Natives, Placing(Head(left), 0), clean' = clean
        PROVE  ChildrenInv'
    <3>1. spent'.kills # 0 /\ 0 \in 0..4
      BY <2>3, <2>6, Spending
    <3>2. \A m \in Natives : child'[m] = IF m = Head(left) THEN 0 ELSE child[m]
      BY <2>6, <3>1, PlacedChild
    <3>3. QED
      BY <2>1, <2>6, <3>1, <3>2 DEF ChildrenInv, StartedOwners
  <2>7. \/ /\ Stopped(Head(left)) /\ (spent' = spent \/ Fault \/ Unkilled)
           /\ clean' = clean \/ clean' = FALSE
        \/ UNCHANGED <<child, alive>> /\ clean' = FALSE /\ (Unkilled \/ Interrupt)
        \/ Unkilled /\ Head(left) \in Natives /\ Placing(Head(left), 0) /\ clean' = clean
    BY <1>4 DEF StopOwner, Placing
  <2>8. QED
    BY <2>4, <2>5, <2>6, <2>7
<1>5. CASE CleanupExpires \/ Finish
  <2>1. /\ UNCHANGED <<started, asked, child, alive>> /\ phase' = "ended"
        /\ (clean' = clean \/ clean' = FALSE) /\ (spent' = spent \/ Fault)
    BY <1>5 DEF CleanupExpires, Finish, CutShort, owners
  <2>2. spent'.kills = spent.kills
    BY <2>1, Spending DEF OwnersShape, Counts
  <2>3. QED
    BY <2>1, <2>2 DEF ChildrenInv, StartedOwners, Attached
<1>6. CASE UNCHANGED vars
  BY <1>6, DoneKept DEF vars, session, owners, ChildrenInv, StartedOwners, Attached
<1>7. QED
  BY <1>1, <1>2, <1>3, <1>4, <1>5, <1>6 DEF Next, CleanUp

\* A plan that holds the children holds all there are: what the end of it has held.
LEMMA WholeIsHeld ==
    ASSUME SessionShape, kind \in HeldKinds, Whole
    PROVE  "hold" \in Done /\ ("rebuild" \in Done => "keep" \in Done)
<1>1. HoldsAll(kind) /\ Len(Plan[kind]) \in Nat
  BY HeldPlans
<1>2. pc = Len(Plan[kind]) + 1
  BY <1>1 DEF SessionShape, Whole
<1>3. QED
  BY <1>1, <1>2 DEF HoldsAll, Done

\* What the cleanup looks at keeps covering what lives.
LEMMA HeldKept ==
    ASSUME OwnersShape, SessionShape, ChildrenInv, HeldInv, [Next]_vars
    PROVE  HeldInv'
<1>1. CASE Operate \/ UnderTest \/ WatchWake
  <2> DEFINE Covered == \A n \in Natives : \/ child[n] \in held \cup {0}
                                           \/ n = "llm" /\ "rebuild" \in Done /\ "keep" \notin Done
  <2>1. Advanced \/ Broken \/ Jumped \/ (UNCHANGED session /\ phase = "running")
    BY <1>1, PlanMoves
  <2>2. phase = "running" /\ first = "none" /\ phase' # "cleaning"
    BY <2>1 DEF Advanced, Broken, Jumped, Running, session, SessionShape
  <2>3. kind \in HeldKinds /\ "hold" \in Done => Covered
    BY <2>2 DEF HeldInv
  <2>4. CASE kind \notin HeldKinds
    <3>1. kind' = kind
      BY <2>1 DEF Advanced, Broken, Jumped, session
    <3>2. QED
      BY <2>2, <2>4, <3>1 DEF HeldInv
  <2>5. CASE Broken
    BY <2>2, <2>5 DEF HeldInv, Broken
  <2>6. CASE kind \in HeldKinds /\ ~Broken
    <3>1. kind \notin WakePaths \cup {"native"}
      BY <2>6 DEF HeldKinds, Sampled, WakePaths
    <3>2. Operate /\ Advanced
      <4>1. Operate
        BY <1>1, <2>6, <3>1, TestMoves, WatchMoves
      <4>2. \/ Advanced \/ Broken \/ Jumped
        BY <4>1, TalkMoves, TurnMoves, HelperMoves, OwnerMoves DEF Operate
      <4>3. QED
        BY <2>6, <3>1, <4>1, <4>2 DEF Jumped
    <3>3. /\ Done' = Done \cup {Step} /\ kind' = kind /\ HoldsAll(kind)
          /\ pc \in 1..Len(Plan[kind])
      BY <2>6, <3>2, DoneGrows, HeldPlans, Position DEF Advanced
    <3>4. Step \in Owners => "hold" \notin Done
      BY <3>3 DEF HoldsAll, Done, Step
    <3>5. Step = "rebuild" => "keep" \notin Done
      BY <3>3 DEF HoldsAll, Done, Step
    <3>6. ASSUME UNCHANGED <<child, held>>, Step \notin {"hold", "keep"}
          PROVE  HeldInv'
      BY <2>2, <2>3, <3>3, <3>6 DEF HeldInv
    <3>7. CASE StartOwner
      <4>1. Step \in Owners /\ "hold" \notin Owners
        BY <3>7 DEF StartOwner, Owners, Five
      <4>2. "hold" \notin Done'
        BY <3>3, <3>4, <4>1
      <4>3. QED
        BY <2>2, <4>2 DEF HeldInv
    <3>8. CASE Hold
      <4>1. held' = Attached /\ child' = child
        BY <3>8 DEF Hold
      <4>2. \A n \in Natives : child'[n] \in held' \cup {0}
        BY <4>1 DEF Attached
      <4>3. QED
        BY <2>2, <4>2 DEF HeldInv
    <3>9. CASE Keep
      <4>1. /\ held' = held \cup ({child.llm} \ {0}) /\ child' = child /\ Step = "keep"
        BY <3>9 DEF Keep
      <4>2. "hold" \in Done' => \A n \in Natives : child'[n] \in held' \cup {0}
        BY <2>3, <2>6, <3>3, <4>1
      <4>3. QED
        BY <2>2, <4>2 DEF HeldInv
    <3>10. CASE ForcedCleanup
      <4>1. Step = "force" /\ held' = held /\ "llm" \in Natives /\ Dropped("llm")
        BY <3>10 DEF ForcedCleanup, Works, stopping, Dropped, Natives
      <4>2. \A n \in Natives : child'[n] \in {0, child[n]}
        BY <4>1, DroppedChild
      <4>3. QED
        BY <2>2, <2>3, <3>3, <4>1, <4>2 DEF HeldInv
    <3>11. CASE Rebuild
      <4>1. Step = "rebuild" /\ held' = held /\ "llm" \in Natives
        BY <3>11 DEF Rebuild, Works, stopping, Natives
      <4>2. \A n \in Natives : n # "llm" => child'[n] = child[n]
        BY <3>11 DEF Rebuild, OwnersShape
      <4>3. "rebuild" \in Done' /\ "keep" \notin Done'
        BY <3>3, <3>5, <4>1
      <4>4. QED
        BY <2>2, <2>3, <3>3, <4>1, <4>2, <4>3 DEF HeldInv
    <3>12. CASE OperationFails
      BY <2>6, <3>12 DEF OperationFails, Breaks, Broken, Errors
    <3>13. CASE Decide \/ Replace
      BY <2>6, <3>1, <3>13, TurnMoves DEF Jumped
    <3>14. QED
      BY <3>2, <3>6, <3>7, <3>8, <3>9, <3>10, <3>11, <3>12, <3>13, TalkMoves, HelperMoves
         DEF Operate, owners
  <2>7. QED
    BY <2>4, <2>5, <2>6
<1>2. CASE Disturb
  <2>1. UNCHANGED <<kind, pc, phase, first, child, held>> /\ alive' \subseteq alive
    BY <1>2, DisturbMoves DEF session, stopping
  <2>2. QED
    BY <2>1, DoneKept DEF HeldInv
<1>3. CASE Leave
  <2>1. /\ UNCHANGED <<kind, pc, first, child, alive>> /\ held' = Handles
        /\ phase \in {"running", "leaving"} /\ phase' \in {"leaving", "cleaning"}
    BY <1>3 DEF Leave, Complete
  <2>2. first = "none" => Whole /\ alive \subseteq Attached
    BY <1>3, <2>1 DEF Leave, Complete, SessionShape, Whole, ChildrenInv
  <2>3. kind \in HeldKinds => held' = held
    BY <2>1, HandlesCover
  <2>4. kind \notin HeldKinds => Attached \subseteq held'
    BY <2>1, HandlesCover
  <2>5. kind \in HeldKinds /\ first = "none" => Attached \subseteq held
    BY <2>1, <2>2, WholeIsHeld DEF HeldInv, Attached
  <2>6. first = "none" => alive \subseteq held'
    BY <2>2, <2>3, <2>4, <2>5
  <2>7. Done' = Done
    BY <2>1, DoneKept
  <2>8. QED
    BY <2>1, <2>3, <2>6, <2>7 DEF HeldInv
<1>4. CASE JoinSampler
  <2>1. /\ UNCHANGED <<kind, pc, first, child, alive, held>>
        /\ phase \in {"running", "leaving"} /\ phase' # "cleaning"
    BY <1>4 DEF JoinSampler, CutShort, Complete, owners
  <2>2. QED
    BY <2>1, DoneKept DEF HeldInv
<1>5. CASE StopOwner
  <2>1. /\ UNCHANGED <<first, held>> /\ left # <<>> /\ phase = "cleaning"
        /\ phase' \in {"cleaning", "ended"}
        /\ Stopped(Head(left)) \/ alive' = alive
    BY <1>5 DEF StopOwner, CutShort, session
  <2>2. alive' \subseteq alive
    <3>1. left \in Seq(Owners)
      BY DEF OwnersShape
    <3>2. Head(left) \in Owners
      BY <2>1, <3>1, Elements
    <3>3. QED
      BY <2>1, <3>2, StoppedChild
  <2>3. QED
    BY <2>1, <2>2 DEF HeldInv
<1>6. CASE CleanupExpires \/ Finish
  BY <1>6 DEF CleanupExpires, Finish, CutShort, HeldInv
<1>7. CASE UNCHANGED vars
  BY <1>7, DoneKept DEF vars, session, owners, HeldInv
<1>8. QED
  BY <1>1, <1>2, <1>3, <1>4, <1>5, <1>6, <1>7 DEF Next, CleanUp

\* A result is given at the end only, on a cleanup that has proven itself.
LEMMA ResultKept ==
    ASSUME OwnersShape, SessionShape, HelpersShape, HeldInv, ResultInv, [Next]_vars
    PROVE  ResultInv'
<1>1. CASE Operate \/ UnderTest \/ WatchWake
  <2>1. outcome' = outcome /\ phase = "running"
    BY <1>1, PlanMoves DEF Advanced, Broken, Jumped, Running
  <2>2. QED
    BY <2>1 DEF ResultInv, SessionShape
<1>2. CASE Disturb
  <2>1. /\ UNCHANGED <<phase, outcome, clean>>
        /\ \/ UNCHANGED helpers /\ alive' \subseteq alive
           \/ UNCHANGED alive /\ helpers.sampler = "on"
    BY <1>2, DisturbMoves DEF session, stopping
  <2>2. QED
    BY <2>1 DEF ResultInv
<1>3. CASE CleanUp /\ ~Finish
  BY <1>3, CleanUpMoves DEF ResultInv, SessionShape, Complete
<1>4. CASE Finish
  <2>1. /\ phase = "cleaning" /\ phase' = "ended" /\ outcome' = Verdict
        /\ UNCHANGED <<clean, alive, helpers>>
    BY <1>4 DEF Finish, owners, aside
  <2>2. ASSUME Verdict = "result"
        PROVE  clean /\ alive = {} /\ helpers.manager = "off" /\ helpers.sampler = "off"
    <3>1. first = "none" /\ clean /\ held \cap alive = {} /\ helpers.sampler # "failed"
      BY <2>2, VerdictIs DEF Proven
    <3>2. alive \subseteq held
      BY <2>1, <3>1 DEF HeldInv
    <3>3. Whole
      BY <2>1, <3>1 DEF SessionShape
    <3>4. helpers.manager = "off" /\ helpers.sampler = "off"
      BY <2>1, <3>1, <3>3 DEF HelpersShape
    <3>5. QED
      BY <3>1, <3>2, <3>4
  <2>3. QED
    BY <2>1, <2>2 DEF ResultInv
<1>5. CASE UNCHANGED vars
  BY <1>5 DEF vars, session, owners, aside, ResultInv
<1>6. QED
  BY <1>1, <1>2, <1>3, <1>4, <1>5 DEF Next

-----------------------------------------------------------------------------
(***************************************************************************)
(* The wake paths.                                                         *)
(***************************************************************************)
\* What the product under test does, and what the harness does to it.
LEMMA ProductMoves ==
    ASSUME SessionShape, [Next]_vars
    PROVE  UNCHANGED product \/ UnderTest \/ Notice \/ (WatchWake /\ ~Notice /\ Advanced)
<1>1. CASE Operate
  BY <1>1, TalkMoves, TurnMoves, HelperMoves, OwnerMoves DEF Operate
<1>2. CASE UnderTest \/ WatchWake
  BY <1>2, WatchMoves
<1>3. CASE Disturb
  BY <1>3, DisturbMoves
<1>4. CASE CleanUp
  BY <1>4, CleanUpMoves
<1>5. QED
  BY <1>1, <1>2, <1>3, <1>4 DEF Next, vars, aside

\* The product keeps its shape.
LEMMA PathShapeKept == ASSUME SessionShape, PathShape, [Next]_vars PROVE PathShape'
<1>1. CASE UNCHANGED product
  BY <1>1 DEF PathShape
<1>2. CASE UnderTest \/ Notice
  <2>1. CASE OpenStarts \/ ReadyHandled \/ AckHandled \/ Notice
    BY ZenonT(60), <2>1 DEF OpenStarts, ReadyHandled, AckHandled, Notice, Moves, PathShape
  <2>2. CASE OpenNative \/ OpenJoins
    BY ZenonT(60), <2>2 DEF OpenNative, OpenJoins, Stamped, Moves, PathShape
  <2>3. CASE Listens
    BY <2>3 DEF Listens, Moves, PathShape
  <2>4. QED
    BY <1>2, <2>1, <2>2, <2>3 DEF UnderTest
<1>3. CASE WatchWake /\ ~Notice
  <2>1. CASE Trigger \/ Release \/ ToIdle \/ Acknowledged
    BY ZenonT(60), <2>1 DEF Trigger, Release, ToIdle, Acknowledged, Stamped, Harness, PathShape
  <2>2. CASE SeesOpening \/ SeesNative \/ SeesJoined \/ Quiet \/ ActivePath \/ Unjoined
    BY <2>2 DEF SeesOpening, SeesNative, SeesJoined, Quiet, ActivePath, Unjoined, Harness,
                Refuses, aside, PathShape
  <2>3. QED
    BY <1>3, <2>1, <2>2 DEF WatchWake
<1>4. QED
  BY <1>1, <1>2, <1>3, ProductMoves

\* The order of a wake path, at the step it is at.
LEMMA PathOrder ==
    ASSUME SessionShape, Running, kind \in WakePaths
    PROVE  /\ Step = "active" => {"ack", "joined"} \subseteq Done
           /\ Step = "unjoined" => "idle" \in Done
           /\ Step = "trigger" => Done \cap {"idle", "unjoined"} = {}
  BY WakePlans, Position DEF ListensLast, Done, Step

\* What of a plan the invariant of the wake paths asks about.
Marks == {"ack", "joined", "active", "idle", "unjoined"}

\* A product that stands, while none of the marks is passed.
LEMMA PathStill ==
    ASSUME PathInv, UNCHANGED <<kind, product>>, NEW s, s \notin Marks,
           Done' = Done \/ Done' = Done \cup {s}
    PROVE  PathInv'
  BY DEF PathInv, Marks

\* A product that listened too early was active at a stamp, or its path is not through.
LEMMA PathKept ==
    ASSUME SessionShape, PathShape, PathInv, [Next]_vars
    PROVE  PathInv'
<1>1. CASE UNCHANGED product /\ ~(UnderTest \/ WatchWake)
  <2>1. CASE Operate /\ ~Jumped
    <3>1. \/ Advanced /\ Step \notin Marks
          \/ Broken
      <4>1. Owners \cap Marks = {}
        BY DEF Owners, Five, Marks
      <4>2. Advanced \/ Broken
        BY <2>1, TalkMoves, TurnMoves, HelperMoves, OwnerMoves DEF Operate
      <4>3. Advanced /\ ~Broken => Step \notin Marks
        BY <2>1, <4>1, TalkMoves, TurnMoves, HelperMoves, OwnerMoves DEF Operate, Marks
      <4>4. QED
        BY <4>2, <4>3
    <3>2. CASE Advanced /\ Step \notin Marks
      BY <1>1, <3>2, DoneGrows, PathStill DEF Advanced
    <3>3. CASE Broken
      <4>1. "none" \notin Marks /\ Done' = Done
        BY <3>3, DoneKept DEF Marks, Broken
      <4>2. QED
        BY <1>1, <3>3, <4>1, PathStill DEF Broken
    <3>4. QED
      BY <3>1, <3>2, <3>3
  <2>2. CASE Jumped
    BY <1>1, <2>2 DEF Jumped, PathInv, WakePaths
  <2>3. CASE Disturb \/ CleanUp \/ UNCHANGED vars
    <3>1. UNCHANGED <<kind, pc>> /\ "none" \notin Marks
      BY <2>3, DisturbMoves, CleanUpMoves DEF vars, session, Marks
    <3>2. QED
      BY <1>1, <3>1, DoneKept, PathStill
  <2>4. QED
    BY <1>1, <2>1, <2>2, <2>3 DEF Next
<1>2. CASE UnderTest \/ Notice
  <2>1. UNCHANGED <<kind, pc>> /\ Done' = Done /\ kind \in WakePaths
    BY <1>2, TestMoves, DoneKept DEF session
  <2>2. CASE OpenStarts
    BY <2>1, <2>2 DEF OpenStarts, Moves, PathShape, PathInv
  <2>3. CASE OpenNative
    BY <2>1, <2>3 DEF OpenNative, Stamped, Moves, PathShape, PathInv
  <2>4. CASE OpenJoins
    BY <2>1, <2>4 DEF OpenJoins, Stamped, Moves, PathShape, PathInv
  <2>5. CASE ReadyHandled \/ AckHandled \/ Notice
    BY <2>1, <2>5 DEF ReadyHandled, AckHandled, Notice, Moves, PathShape, PathInv
  <2>6. CASE Listens
    <3>1. /\ product.state = "wake" /\ ~product.active
          /\ product' = [product EXCEPT !.active = TRUE,
                                        !.early = ~(product.acked /\ product.open = "joined")]
      BY <2>6 DEF Listens, Moves
    <3>2. /\ product'.active /\ product'.open = product.open /\ product'.acked = product.acked
          /\ product'.state = product.state
          /\ product'.early => ~product.acked \/ product.open # "joined"
      BY <3>1 DEF PathShape
    <3>3. {"active", "idle", "unjoined"} \cap Done = {}
      BY <2>1, <3>1 DEF PathInv
    <3>4. QED
      BY <2>1, <3>2, <3>3 DEF PathInv
  <2>7. QED
    BY <1>2, <2>2, <2>3, <2>4, <2>5, <2>6 DEF UnderTest
<1>3. CASE WatchWake /\ ~Notice /\ Advanced
  <2>1. /\ kind' = kind /\ kind \in WakePaths /\ Done' = Done \cup {Step} /\ Running
    BY <1>3, WatchMoves, DoneGrows DEF Advanced
  <2>2. CASE Trigger
    <3>1. Step = "trigger" /\ product' = [product EXCEPT !.state = "wake"]
      BY <2>2 DEF Trigger, Harness
    <3>2. QED
      BY <2>1, <3>1, PathOrder DEF PathShape, PathInv
  <2>3. CASE SeesOpening \/ SeesNative \/ Quiet
    <3>1. Step \notin Marks /\ product' = product
      BY <2>3 DEF SeesOpening, SeesNative, Quiet, Harness, Refuses, aside, Marks
    <3>2. QED
      BY <2>1, <3>1, PathStill
  <2>4. CASE SeesJoined
    <3>1. Step = "joined" /\ product' = product /\ product.open = "joined"
      BY <2>4 DEF SeesJoined, Harness
    <3>2. QED
      BY <2>1, <3>1 DEF PathInv
  <2>5. CASE Release
    <3>1. Step = "release" /\ product' = [product EXCEPT !.start = TRUE, !.join = TRUE]
      BY <2>5 DEF Release, Harness
    <3>2. QED
      BY <2>1, <3>1 DEF PathShape, PathInv
  <2>6. CASE Acknowledged
    <3>1. /\ Step = "ack" /\ product.acked
          /\ product' = Stamped([product EXCEPT !.due = FALSE])
      BY <2>6 DEF Acknowledged, Harness
    <3>2. QED
      BY <2>1, <3>1 DEF Stamped, PathShape, PathInv
  <2>7. CASE ActivePath
    <3>1. Step = "active" /\ product' = product /\ product.active /\ ~product.overtaken
      BY <1>3, <2>7 DEF ActivePath, Harness, Refuses, Breaks, Advanced, Running
    <3>2. "ack" \in Done /\ "joined" \in Done
      BY <2>1, <3>1, PathOrder
    <3>3. ~product.early
      BY <2>1, <3>1, <3>2 DEF PathInv
    <3>4. QED
      BY <2>1, <3>1, <3>3 DEF PathInv
  <2>8. CASE ToIdle
    <3>1. /\ Step = "idle"
          /\ product' = [product EXCEPT !.state = "idle",
                                        !.open = IF @ = "native" THEN "closed" ELSE @]
      BY <2>8 DEF ToIdle, Harness
    <3>2. /\ product'.state = "idle" /\ UNCHANGED <<product.early, product.active>>
          /\ UNCHANGED <<product.acked, product.overtaken>>
          /\ product'.open = product.open
             \/ (product.open # "joined" /\ product'.open # "joined")
      BY <3>1 DEF PathShape
    <3>3. QED
      BY <2>1, <3>1, <3>2 DEF PathInv
  <2>9. CASE Unjoined
    <3>1. Step = "unjoined" /\ product' = product /\ ~product.active
      BY <1>3, <2>9 DEF Unjoined, Harness, Refuses, Breaks, Advanced, Running
    <3>2. ~product.early /\ product.state = "idle"
      BY <2>1, <3>1, PathOrder DEF PathInv
    <3>3. QED
      BY <2>1, <3>1, <3>2 DEF PathInv
  <2>10. QED
    BY <1>3, <2>2, <2>3, <2>4, <2>5, <2>6, <2>7, <2>8, <2>9 DEF WatchWake
<1>4. CASE UNCHANGED product /\ WatchWake /\ ~Notice /\ ~Advanced
  <2>1. Broken /\ "none" \notin Marks /\ Done' = Done
    BY <1>4, WatchMoves, DoneKept DEF Broken, Marks
  <2>2. QED
    BY <1>4, <2>1, PathStill DEF Broken
<1>5. QED
  BY <1>1, <1>2, <1>3, <1>4, ProductMoves, WatchMoves

-----------------------------------------------------------------------------
(***************************************************************************)
(* The theorems.                                                           *)
(***************************************************************************)
\* The invariant holds initially and is kept.
THEOREM SessionInvariant == Spec => []IInv
<1>1. Init => IInv
  <2> SUFFICES ASSUME Init PROVE IInv
    OBVIOUS
  <2>1. kind \in Kinds /\ Len(Plan[kind]) \in Nat /\ pc = 1 /\ phase = "running"
    BY Plans DEF Init
  <2>2. Done = {} /\ pc \in 1..(Len(Plan[kind]) + 1)
    BY <2>1 DEF Done, DoneAt
  <2>3. OwnersShape
    BY DEF Init, OwnersShape
  <2>4. SessionShape
    BY <2>1, <2>2 DEF Init, SessionShape, Errors, Outcomes
  <2>5. HelpersShape
    BY <2>1 DEF Init, HelpersShape
  <2>6. StopsInv
    BY DEF Init, StopsInv
  <2>7. ChildrenInv
    BY DEF Init, ChildrenInv, Attached
  <2>8. HeldInv /\ ResultInv
    BY <2>2 DEF Init, HeldInv, ResultInv
  <2>9. PathShape /\ ~product.early
    <3>1. PICK d \in Defects : product = Product(d, kind)
      BY DEF Init, Defects
    <3>2. (kind \in {"W01", "W04"}) \in BOOLEAN /\ (kind = "W01") \in BOOLEAN
      OBVIOUS
    <3>3. QED
      BY <3>1, <3>2 DEF Product, Defects, PathShape
  <2>10. PathInv
    BY <2>2, <2>9 DEF PathInv
  <2>11. QED
    BY <2>3, <2>4, <2>5, <2>6, <2>7, <2>8, <2>9, <2>10 DEF IInv
<1>2. IInv /\ [Next]_vars => IInv'
  BY OwnersShapeKept, SessionShapeKept, HelpersShapeKept, StopsKept, ChildrenKept, HeldKept,
     ResultKept, PathShapeKept, PathKept DEF IInv
<1>3. QED
  BY <1>1, <1>2, PTL DEF Spec

\* A result is worth its name: every owner started was asked to stop, no stop()
\* complained, no child lives, and the manager and the sampler are gone.
THEOREM ResultIsClean == Spec => []ReturnedIsClean
<1>1. IInv => ReturnedIsClean
  BY DEF IInv, StopsInv, ResultInv, ReturnedIsClean
<1>2. QED
  BY <1>1, SessionInvariant, PTL

\* A child outlives its session only if it could not be killed, or the cleanup was
\* left or complained: whatever failed, and where.
THEOREM SessionLeavesNothing == Spec => []NothingSurvives
<1>1. IInv => NothingSurvives
  <2> SUFFICES ASSUME IInv, ~(spent.kills > 0), asked = StartedOwners, clean PROVE alive = {}
    BY DEF NothingSurvives
  <2>4. spent.kills = 0
    BY DEF IInv, OwnersShape
  <2>1. \A n \in Natives : child[n] = 0
    BY DEF IInv, ChildrenInv
  <2>2. alive \subseteq Attached
    BY <2>4 DEF IInv, ChildrenInv
  <2>3. QED
    BY <2>1, <2>2 DEF Attached
<1>2. QED
  BY <1>1, SessionInvariant, PTL

\* Whatever is wrong with the product, a wake path that gives a result has not
\* listened before both barriers.
THEOREM EarlyListeningIsCaught == Spec => []EarlyIsCaught
<1>1. IInv => EarlyIsCaught
  <2> SUFFICES ASSUME IInv, outcome = "result", product.early PROVE FALSE
    BY DEF EarlyIsCaught
  <2>1. kind \in WakePaths /\ Whole /\ pc \in 1..(Len(Plan[kind]) + 1)
    BY DEF IInv, PathInv, SessionShape, ResultInv
  <2>2. Len(Plan[kind]) \in Nat /\ ListensLast(kind)
    BY <2>1, WakePlans
  <2>3. pc = Len(Plan[kind]) + 1
    BY <2>1, <2>2 DEF Whole
  <2>4. "active" \in Done \/ "unjoined" \in Done
    BY <2>2, <2>3 DEF ListensLast, Done
  <2>5. QED
    BY <2>1, <2>4 DEF IInv, PathInv
<1>2. QED
  BY <1>1, SessionInvariant, PTL

-----------------------------------------------------------------------------
(***************************************************************************)
(* A session that nothing disturbs gives its result.  Its log: what each   *)
(* operation adds to it, and that it ends in the order derive_thresholds   *)
(* accepts.  Its product: what a sound one cannot do.  Its children: there *)
(* from their owner's start to its stop.                                   *)
(***************************************************************************)
\* What the points of a log are.
Labels == Required \cup {"pre_replacement", "post_replacement"}
Entries == [label : Labels, index : Nat]
\* The points t of one operation: one for each label, all of the same turn.
Batch(t, labels, d) ==
    /\ t \in Seq(Entries) /\ Len(t) = Len(labels)
    /\ \A i \in 1..Len(t) : t[i].label = labels[i] /\ t[i].index = d

\* Two logs, one after the other.
LEMMA Extended ==
    ASSUME NEW s \in Seq(Entries), NEW t \in Seq(Entries)
    PROVE  /\ s \o t \in Seq(Entries) /\ Len(s \o t) = Len(s) + Len(t)
           /\ \A i \in 1..Len(s) : (s \o t)[i] = s[i]
           /\ \A i \in 1..Len(t) : (s \o t)[Len(s) + i] = t[i]
           /\ \A i \in 1..(Len(s) + Len(t)) :
                 i \in 1..Len(s) \/ \E j \in 1..Len(t) : i = Len(s) + j
<1>1. Len(s) \in Nat /\ Len(t) \in Nat
  OBVIOUS
<1>2. /\ s \o t \in Seq(Entries) /\ Len(s \o t) = Len(s) + Len(t)
      /\ \A i \in 1..(Len(s) + Len(t)) :
            (s \o t)[i] = IF i <= Len(s) THEN s[i] ELSE t[i - Len(s)]
  BY ConcatProperties
<1>3. ASSUME NEW i \in 1..Len(t) PROVE (s \o t)[Len(s) + i] = t[i]
  <2>1. Len(s) + i \in 1..(Len(s) + Len(t)) /\ ~(Len(s) + i <= Len(s)) /\ (Len(s) + i) - Len(s) = i
    BY <1>1
  <2>2. (s \o t)[Len(s) + i] = t[(Len(s) + i) - Len(s)]
    BY <1>2, <2>1
  <2>3. QED
    BY <2>1, <2>2
<1>4. ASSUME NEW i \in 1..(Len(s) + Len(t)), i \notin 1..Len(s)
      PROVE  \E j \in 1..Len(t) : i = Len(s) + j
  <2>1. i - Len(s) \in 1..Len(t) /\ i = Len(s) + (i - Len(s))
    BY <1>1, <1>4
  <2>2. QED
    BY <2>1
<1>5. \A i \in 1..Len(s) : (s \o t)[i] = s[i]
  BY <1>1, <1>2
<1>6. QED
  BY <1>2, <1>3, <1>4, <1>5

\* What a log finds: in its first part, or in its second.
LEMMA FoundIs ==
    ASSUME NEW s \in Seq(Entries), NEW t \in Seq(Entries), NEW l
    PROVE  /\ Found(s, l) \subseteq 1..Len(s)
           /\ Found(s, l) \subseteq Found(s \o t, l)
           /\ \A i \in 1..Len(t) : Len(s) + i \in Found(s \o t, l) <=> t[i].label = l
           /\ \A i \in Found(s \o t, l) :
                 i \in Found(s, l) \/ \E j \in 1..Len(t) : i = Len(s) + j /\ t[j].label = l
<1>1. /\ DOMAIN s = 1..Len(s) /\ DOMAIN t = 1..Len(t) /\ Len(s) \in Nat /\ Len(t) \in Nat
      /\ DOMAIN (s \o t) = 1..(Len(s) + Len(t))
  BY Extended
<1>2. \A i \in 1..Len(s) : i \in DOMAIN (s \o t)
  BY <1>1
<1>3. \A i \in 1..Len(t) : Len(s) + i \in DOMAIN (s \o t)
  BY <1>1
<1>4. /\ Found(s, l) = {i \in 1..Len(s) : s[i].label = l}
      /\ Found(s \o t, l) = {i \in 1..(Len(s) + Len(t)) : (s \o t)[i].label = l}
  BY <1>1 DEF Found
<1> DEFINE r == s \o t
<1>5. /\ \A i \in 1..Len(s) : r[i] = s[i]
      /\ \A i \in 1..Len(t) : r[Len(s) + i] = t[i]
      /\ \A i \in DOMAIN r : i \in 1..Len(s) \/ \E j \in 1..Len(t) : i = Len(s) + j
  BY <1>1, Extended
<1> HIDE DEF r
<1>6. QED
  BY <1>1, <1>2, <1>3, <1>4, <1>5 DEF r

\* The points of one operation in a log.
LEMMA WindowIs ==
    ASSUME NEW s \in Seq(Entries), NEW t \in Seq(Entries), NEW l, NEW d
    PROVE  /\ Window(s, l, d) \subseteq 1..Len(s)
           /\ Window(s, l, d) \subseteq Window(s \o t, l, d)
           /\ \A i \in 1..Len(t) :
                 Len(s) + i \in Window(s \o t, l, d) <=> t[i].label = l /\ t[i].index = d
           /\ \A i \in Window(s \o t, l, d) :
                 \/ i \in Window(s, l, d)
                 \/ \E j \in 1..Len(t) : i = Len(s) + j /\ t[j].label = l /\ t[j].index = d
<1>1. /\ \A i \in 1..Len(s) : (s \o t)[i] = s[i]
      /\ \A i \in 1..Len(t) : (s \o t)[Len(s) + i] = t[i]
  BY Extended
<1>2. /\ Found(s, l) \subseteq 1..Len(s)
      /\ Found(s, l) \subseteq Found(s \o t, l)
      /\ \A i \in 1..Len(t) : Len(s) + i \in Found(s \o t, l) <=> t[i].label = l
      /\ \A i \in Found(s \o t, l) :
            i \in Found(s, l) \/ \E j \in 1..Len(t) : i = Len(s) + j /\ t[j].label = l
  BY FoundIs
<1> DEFINE r == s \o t
<1> HIDE DEF r
<1>3. QED
  BY <1>1, <1>2 DEF r, Window

\* The points of another turn, or of another name, leave a window alone.
LEMMA WindowKept ==
    ASSUME NEW s \in Seq(Entries), NEW labels, NEW d, NEW t, Batch(t, labels, d), NEW l, NEW e,
           e # d \/ \A i \in 1..Len(t) : labels[i] # l
    PROVE  Window(s \o t, l, e) = Window(s, l, e)
<1>1. t \in Seq(Entries) /\ \A j \in 1..Len(t) : ~(t[j].label = l /\ t[j].index = e)
  BY DEF Batch
<1>2. /\ Window(s, l, e) \subseteq Window(s \o t, l, e)
      /\ \A i \in Window(s \o t, l, e) :
            \/ i \in Window(s, l, e)
            \/ \E j \in 1..Len(t) : i = Len(s) + j /\ t[j].label = l /\ t[j].index = e
  BY <1>1, WindowIs
<1>3. QED
  BY <1>1, <1>2

\* A window that was empty has what the operation adds.
LEMMA WindowNew ==
    ASSUME NEW s \in Seq(Entries), NEW labels, NEW d, NEW t, Batch(t, labels, d),
           NEW k \in 1..Len(t), NEW l, \A i \in 1..Len(t) : labels[i] = l <=> i = k,
           Window(s, l, d) = {}
    PROVE  Window(s \o t, l, d) = {Len(s) + k}
<1>1. /\ t \in Seq(Entries) /\ t[k].label = l /\ t[k].index = d
      /\ \A j \in 1..Len(t) : t[j].label = l => j = k
  BY DEF Batch
<1>2. s \in Seq(Entries) /\ t \in Seq(Entries)
  BY <1>1
<1>3. /\ \A i \in 1..Len(t) :
            Len(s) + i \in Window(s \o t, l, d) <=> t[i].label = l /\ t[i].index = d
      /\ \A i \in Window(s \o t, l, d) :
            \/ i \in Window(s, l, d)
            \/ \E j \in 1..Len(t) : i = Len(s) + j /\ t[j].label = l /\ t[j].index = d
  BY ONLY SMTT(60), <1>2, WindowIs
<1>4. Len(s) + k \in Window(s \o t, l, d)
  BY <1>1, <1>3
<1>5. \A i \in Window(s \o t, l, d) : i = Len(s) + k
  BY <1>1, <1>3
<1>6. QED
  BY <1>4, <1>5

-----------------------------------------------------------------------------
\* The window of a turn: nothing yet; its generation, before position m; that and its speech.
Blank(rows, d) == \A l \in Once : Window(rows, l, d) = {}
Generated(rows, d, m) ==
    \/ Window(rows, "pre_generate", d) = {} /\ Window(rows, "post_generate", d) = {}
    \/ \E i, j \in Nat : /\ i < j /\ j < m
                         /\ Window(rows, "pre_generate", d) = {i}
                         /\ Window(rows, "post_generate", d) = {j}
SpeechLabels == {"pre_speak", "audio_completion", "primary_completion"}
Thought(rows, d) ==
    /\ Generated(rows, d, Len(rows) + 1)
    /\ \A l \in SpeechLabels : Window(rows, l, d) = {}
Spoken(rows, d) ==
    \/ Blank(rows, d)
    \/ \E m \in Nat : /\ Generated(rows, d, m)
                      /\ Window(rows, "pre_speak", d) = {m}
                      /\ Window(rows, "audio_completion", d) = {m + 1}
                      /\ Window(rows, "primary_completion", d) = {m + 2}

\* A window that is whole is closed.
LEMMA SpokenIsClosed ==
    ASSUME NEW rows, NEW d, Spoken(rows, d)
    PROVE  WindowClosed(rows, d)
<1>1. Cardinality({}) = 0 /\ \A x : Cardinality({x}) = 1
  BY FS_EmptySet, FS_Singleton
<1>2. ASSUME Blank(rows, d) PROVE WindowClosed(rows, d)
  BY <1>1, <1>2 DEF Blank, Once, WindowClosed, Paired, Before
<1>3. ASSUME NEW m \in Nat, Generated(rows, d, m), Window(rows, "pre_speak", d) = {m},
             Window(rows, "audio_completion", d) = {m + 1},
             Window(rows, "primary_completion", d) = {m + 2}
      PROVE  WindowClosed(rows, d)
  <2>1. \A l \in Once : Window(rows, l, d) = {} \/ \E x : Window(rows, l, d) = {x}
    <3>1. \A l \in {"pre_generate", "post_generate"} :
             Window(rows, l, d) = {} \/ \E x : Window(rows, l, d) = {x}
      BY ZenonT(60), <1>3 DEF Generated
    <3>2. \A l \in {"pre_speak", "audio_completion", "primary_completion"} :
             \E x : Window(rows, l, d) = {x}
      BY ZenonT(60), <1>3
    <3>3. QED
      BY ZenonT(60), <3>1, <3>2 DEF Once
  <2>2. ASSUME NEW l \in Once PROVE Cardinality(Window(rows, l, d)) <= 1
    <3>1. CASE Window(rows, l, d) = {}
      BY <1>1, <3>1
    <3>2. CASE Window(rows, l, d) # {}
      <4>1. PICK x : Window(rows, l, d) = {x}
        BY <2>1, <3>2
      <4>2. Cardinality(Window(rows, l, d)) = 1
        BY <1>1, <4>1
      <4>3. QED
        BY <4>2
    <3>3. QED
      BY <3>1, <3>2
  <2>3. m < m + 1 /\ m + 1 < m + 2 /\ m + 1 \in Nat /\ m + 2 \in Nat
    OBVIOUS
  <2>4. CASE Window(rows, "pre_generate", d) = {} /\ Window(rows, "post_generate", d) = {}
    BY <1>3, <2>2, <2>3, <2>4 DEF WindowClosed, Paired, Before
  <2>5. ASSUME NEW i \in Nat, NEW j \in Nat, i < j, j < m,
               Window(rows, "pre_generate", d) = {i}, Window(rows, "post_generate", d) = {j}
        PROVE  WindowClosed(rows, d)
    <3>1. j < m + 2
      BY <2>5
    <3>2. QED
      BY <1>3, <2>2, <2>3, <2>5, <3>1 DEF WindowClosed, Paired, Before
  <2>6. QED
    BY <1>3, <2>4, <2>5 DEF Generated
<1>4. QED
  BY <1>2, <1>3 DEF Spoken

\* Whatever is not of the window leaves it alone.
LEMMA WindowStays ==
    ASSUME NEW s \in Seq(Entries), NEW labels, NEW d, NEW t, Batch(t, labels, d), NEW e,
           e # d \/ \A i \in 1..Len(t) : labels[i] \notin Once
    PROVE  /\ Spoken(s, e) => Spoken(s \o t, e)
           /\ Thought(s, e) => Thought(s \o t, e)
<1>1. \A l \in Once : Window(s \o t, l, e) = Window(s, l, e)
  BY WindowKept
<1>2. Len(s \o t) >= Len(s) /\ Len(s \o t) \in Nat /\ Len(s) \in Nat
  BY Extended DEF Batch
<1>3. \A m : Generated(s \o t, e, m) <=> Generated(s, e, m)
  BY <1>1 DEF Generated, Once
<1>4. Generated(s, e, Len(s) + 1) => Generated(s \o t, e, Len(s \o t) + 1)
  BY <1>1, <1>2 DEF Generated, Once
<1>5. QED
  BY <1>1, <1>3, <1>4 DEF Spoken, Thought, Blank, Once, SpeechLabels

GenerateLabels == <<"pre_generate", "post_generate">>
SpeakLabels == <<"pre_speak", "audio_completion", "primary_completion">>

\* A generation in an empty window, and a speech after it.
LEMMA GenerationAdded ==
    ASSUME NEW s \in Seq(Entries), NEW d, NEW t, Batch(t, GenerateLabels, d), Blank(s, d)
    PROVE  Thought(s \o t, d)
<1>1. /\ Len(t) = 2 /\ 1 \in 1..Len(t) /\ 2 \in 1..Len(t)
      /\ GenerateLabels[1] = "pre_generate" /\ GenerateLabels[2] = "post_generate"
      /\ \A i \in 1..Len(t) : i = 1 \/ i = 2
  BY DEF Batch, GenerateLabels
<1>2. Window(s, "pre_generate", d) = {} /\ Window(s, "post_generate", d) = {}
  BY <1>1 DEF Blank, Once
<1>3. /\ Window(s \o t, "pre_generate", d) = {Len(s) + 1}
      /\ Window(s \o t, "post_generate", d) = {Len(s) + 2}
  <2>1. ASSUME NEW k \in 1..Len(t) PROVE Window(s \o t, GenerateLabels[k], d) = {Len(s) + k}
    <3>1. \A i \in 1..Len(t) : GenerateLabels[i] = GenerateLabels[k] <=> i = k
      BY <1>1
    <3>2. Window(s, GenerateLabels[k], d) = {}
      BY <1>1, <1>2
    <3>3. QED
      BY <3>1, <3>2, WindowNew
  <2>2. QED
    BY <1>1, <2>1
<1>4. \A l \in SpeechLabels : Window(s \o t, l, d) = {}
  <2>1. TAKE l \in SpeechLabels
  <2>2. \A i \in 1..Len(t) : GenerateLabels[i] # l
    BY <1>1 DEF SpeechLabels
  <2>3. Window(s \o t, l, d) = Window(s, l, d)
    BY <2>2, WindowKept
  <2>4. QED
    BY <2>3 DEF Blank, Once, SpeechLabels
<1>5. Len(s \o t) = Len(s) + 2 /\ Len(s) \in Nat
  <2>1. t \in Seq(Entries)
    BY DEF Batch
  <2>2. Len(s \o t) = Len(s) + Len(t)
    BY <2>1, Extended
  <2>3. QED
    BY <1>1, <2>2
<1>6. Generated(s \o t, d, Len(s \o t) + 1)
  <2>1. Len(s) + 1 \in Nat /\ Len(s) + 2 \in Nat /\ Len(s) + 1 < Len(s) + 2
        /\ Len(s) + 2 < Len(s \o t) + 1
    BY <1>5
  <2>2. QED
    BY <1>3, <2>1 DEF Generated
<1>7. QED
  BY <1>4, <1>6 DEF Thought

LEMMA SpeechAdded ==
    ASSUME NEW s \in Seq(Entries), NEW d, NEW t, Batch(t, SpeakLabels, d), Thought(s, d)
    PROVE  Spoken(s \o t, d)
<1>1. /\ Len(t) = 3 /\ 1 \in 1..Len(t) /\ 2 \in 1..Len(t) /\ 3 \in 1..Len(t)
      /\ SpeakLabels[1] = "pre_speak" /\ SpeakLabels[2] = "audio_completion"
      /\ SpeakLabels[3] = "primary_completion"
      /\ \A i \in 1..Len(t) : i = 1 \/ i = 2 \/ i = 3
  BY DEF Batch, SpeakLabels
<1>2. /\ Window(s, "pre_speak", d) = {} /\ Window(s, "audio_completion", d) = {}
      /\ Window(s, "primary_completion", d) = {}
  BY <1>1 DEF Thought, SpeechLabels
<1>3. /\ Window(s \o t, "pre_speak", d) = {Len(s) + 1}
      /\ Window(s \o t, "audio_completion", d) = {Len(s) + 2}
      /\ Window(s \o t, "primary_completion", d) = {Len(s) + 3}
  <2>1. ASSUME NEW k \in 1..Len(t) PROVE Window(s \o t, SpeakLabels[k], d) = {Len(s) + k}
    <3>1. \A i \in 1..Len(t) : SpeakLabels[i] = SpeakLabels[k] <=> i = k
      BY <1>1
    <3>2. Window(s, SpeakLabels[k], d) = {}
      BY <1>1, <1>2
    <3>3. QED
      BY <3>1, <3>2, WindowNew
  <2>2. QED
    BY <1>1, <2>1
<1>4. /\ Window(s \o t, "pre_generate", d) = Window(s, "pre_generate", d)
      /\ Window(s \o t, "post_generate", d) = Window(s, "post_generate", d)
  <2>1. \A i \in 1..Len(t) : SpeakLabels[i] # "pre_generate" /\ SpeakLabels[i] # "post_generate"
    BY <1>1
  <2>2. QED
    BY <2>1, WindowKept
<1>5. Generated(s \o t, d, Len(s) + 1)
  BY <1>4 DEF Thought, Generated
<1>6. Len(s) + 1 \in Nat /\ (Len(s) + 1) + 1 = Len(s) + 2 /\ (Len(s) + 1) + 2 = Len(s) + 3
  OBVIOUS
<1>7. QED
  BY <1>3, <1>5, <1>6 DEF Spoken

-----------------------------------------------------------------------------
\* The other orders of a log.
Ascending(rows) == \A i \in 1..(Len(rows) - 1) : rows[i].index <= rows[i + 1].index
UpTo(rows, d) == \A i \in 1..Len(rows) : rows[i].index <= d

\* Later turns come later.
LEMMA Ascends ==
    ASSUME NEW s \in Seq(Entries), NEW labels, NEW d \in Nat, NEW t, Batch(t, labels, d),
           Ascending(s), UpTo(s, d)
    PROVE  Ascending(s \o t) /\ UpTo(s \o t, d)
<1>1. /\ t \in Seq(Entries) /\ Len(s) \in Nat /\ Len(t) \in Nat
      /\ \A i \in 1..Len(t) : t[i].index = d
  BY DEF Batch
<1>2. PICK r : r = s \o t
  OBVIOUS
<1>3. /\ Len(r) = Len(s) + Len(t)
      /\ \A i \in 1..Len(s) : r[i] = s[i]
      /\ \A i \in 1..Len(t) : r[Len(s) + i] = t[i]
      /\ \A i \in 1..(Len(s) + Len(t)) : i \in 1..Len(s) \/ \E j \in 1..Len(t) : i = Len(s) + j
  <2>1. s \in Seq(Entries) /\ t \in Seq(Entries)
    BY <1>1
  <2>2. /\ Len(s \o t) = Len(s) + Len(t)
        /\ \A i \in 1..Len(s) : (s \o t)[i] = s[i]
        /\ \A i \in 1..Len(t) : (s \o t)[Len(s) + i] = t[i]
        /\ \A i \in 1..(Len(s) + Len(t)) :
              i \in 1..Len(s) \/ \E j \in 1..Len(t) : i = Len(s) + j
    BY ONLY SMTT(60), <2>1, Extended
  <2>3. QED
    BY <1>2, <2>2
<1>4. \A i \in 1..Len(r) : i \in 1..Len(s) \/ r[i].index = d
  BY SMTT(60), <1>1, <1>3
<1>5. UpTo(r, d)
  <2>1. d <= d /\ 1..Len(r) = 1..(Len(s) + Len(t))
    BY <1>3
  <2>2. \A i \in 1..Len(s) : r[i].index <= d
    BY <1>3 DEF UpTo
  <2>3. QED
    BY <1>4, <2>1, <2>2 DEF UpTo
<1>6. \A i \in 1..Len(s) : r[i].index \in Nat
  <2>1. \A i \in 1..Len(s) : s[i] \in Entries
    OBVIOUS
  <2>2. QED
    BY <1>3, <2>1 DEF Entries
<1>7. Ascending(r)
  <2>0. SUFFICES ASSUME NEW i \in 1..(Len(r) - 1) PROVE r[i].index <= r[i + 1].index
    BY DEF Ascending
  <2>2. i \in 1..Len(r) /\ i + 1 \in 1..Len(r) /\ i \in Nat
    BY <1>1, <1>3
  <2>3. CASE i + 1 \in 1..Len(s)
    <3>1. i \in 1..(Len(s) - 1) /\ i \in 1..Len(s)
      BY <1>1, <2>2, <2>3
    <3>2. QED
      BY <1>3, <2>3, <3>1 DEF Ascending
  <2>4. CASE i + 1 \notin 1..Len(s)
    BY <1>4, <1>5, <2>2, <2>4 DEF UpTo
  <2>5. QED
    BY <2>3, <2>4
<1>8. QED
  BY <1>2, <1>5, <1>7

\* A mark of a replacement is paired within what was there, or within what is added.
ReplaceLabels == <<"pre_replacement", "conversation_preparation", "conversation_ready",
                   "post_replacement">>
MarksOf(rows) == Found(rows, "pre_replacement") \cup Found(rows, "post_replacement")
LEMMA PairsStay ==
    ASSUME NEW s \in Seq(Entries), NEW labels, NEW d, NEW t, Batch(t, labels, d),
           ReplacementsPaired(s),
           \/ \A i \in 1..Len(t) : labels[i] \notin {"pre_replacement", "post_replacement"}
           \/ labels = ReplaceLabels
    PROVE  ReplacementsPaired(s \o t)
<1>1. PICK r : r = s \o t
  OBVIOUS
<1>2. /\ t \in Seq(Entries) /\ Len(s) \in Nat /\ Len(t) \in Nat
      /\ \A i \in 1..Len(t) : t[i].label = labels[i] /\ t[i].index = d
  BY DEF Batch
<1>3. /\ \A i \in 1..Len(s) : r[i] = s[i]
      /\ \A i \in 1..Len(t) : r[Len(s) + i] = t[i]
  BY <1>1, <1>2, Extended
<1>4. \A l : /\ Found(s, l) \subseteq 1..Len(s)
             /\ Found(s, l) \subseteq Found(r, l)
             /\ \A i \in 1..Len(t) : Len(s) + i \in Found(r, l) <=> labels[i] = l
             /\ \A i \in Found(r, l) :
                   i \in Found(s, l) \/ \E j \in 1..Len(t) : i = Len(s) + j /\ labels[j] = l
  <2>1. TAKE l
  <2>2. /\ Found(s, l) \subseteq 1..Len(s)
        /\ Found(s, l) \subseteq Found(s \o t, l)
        /\ \A i \in 1..Len(t) : Len(s) + i \in Found(s \o t, l) <=> t[i].label = l
        /\ \A i \in Found(s \o t, l) :
              i \in Found(s, l) \/ \E j \in 1..Len(t) : i = Len(s) + j /\ t[j].label = l
    BY <1>2, FoundIs
  <2>3. QED
    BY <1>1, <1>2, <2>2
<1> DEFINE Encloses(q, i, j) == /\ i < j /\ q[i].index = q[j].index
                                /\ \A k \in MarksOf(q) : ~(i < k /\ k < j)
<1>5. \A q : ReplacementsPaired(q) <=>
                /\ \A i \in Found(q, "pre_replacement") :
                      \E j \in Found(q, "post_replacement") : Encloses(q, i, j)
                /\ \A j \in Found(q, "post_replacement") :
                      \E i \in Found(q, "pre_replacement") : Encloses(q, i, j)
  BY DEF ReplacementsPaired, MarksOf
<1>6. ASSUME NEW i \in 1..Len(s), NEW j \in 1..Len(s), Encloses(s, i, j) PROVE Encloses(r, i, j)
  <2>1. \A k \in MarksOf(r) : k \in MarksOf(s) \/ \E m \in 1..Len(t) : k = Len(s) + m
    BY <1>4 DEF MarksOf
  <2>2. \A m \in 1..Len(t) : ~(Len(s) + m < j)
    BY <1>2
  <2>3. QED
    BY <1>3, <1>6, <2>1, <2>2
<1>7. CASE \A i \in 1..Len(t) : labels[i] \notin {"pre_replacement", "post_replacement"}
  <2>1. /\ Found(r, "pre_replacement") = Found(s, "pre_replacement")
        /\ Found(r, "post_replacement") = Found(s, "post_replacement")
    BY <1>4, <1>7
  <2>2. /\ Found(s, "pre_replacement") \subseteq 1..Len(s)
        /\ Found(s, "post_replacement") \subseteq 1..Len(s)
    BY <1>4
  <2> HIDE DEF Encloses
  <2>3. QED
    BY <1>1, <1>5, <1>6, <2>1, <2>2
<1>8. CASE labels = ReplaceLabels
  <2>1. /\ Len(t) = 4 /\ labels[1] = "pre_replacement" /\ labels[4] = "post_replacement"
        /\ \A i \in 1..Len(t) : /\ labels[i] = "pre_replacement" <=> i = 1
                                /\ labels[i] = "post_replacement" <=> i = 4
    BY <1>8 DEF Batch, ReplaceLabels
  <2>2. /\ Found(r, "pre_replacement") = Found(s, "pre_replacement") \cup {Len(s) + 1}
        /\ Found(r, "post_replacement") = Found(s, "post_replacement") \cup {Len(s) + 4}
    <3>1. 1 \in 1..Len(t) /\ 4 \in 1..Len(t)
      BY <2>1
    <3>2. QED
      BY <1>4, <2>1, <3>1
  <2>3. Encloses(r, Len(s) + 1, Len(s) + 4)
    <3>1. r[Len(s) + 1].index = r[Len(s) + 4].index
      BY <1>2, <1>3, <2>1
    <3>2. \A k \in MarksOf(r) : ~(Len(s) + 1 < k /\ k < Len(s) + 4)
      <4>1. \A k \in Found(s, "pre_replacement") \cup Found(s, "post_replacement") : k \in 1..Len(s)
        BY <1>4
      <4>2. \A k \in 1..Len(s) : ~(Len(s) + 1 < k)
        BY <1>2
      <4>3. ~(Len(s) + 4 < Len(s) + 4) /\ ~(Len(s) + 1 < Len(s) + 1) /\ Len(s) + 1 < Len(s) + 4
        BY <1>2
      <4>4. QED
        BY <2>2, <4>1, <4>2, <4>3 DEF MarksOf
    <3>3. QED
      BY <1>2, <3>1, <3>2
  <2>4. /\ Found(s, "pre_replacement") \subseteq 1..Len(s)
        /\ Found(s, "post_replacement") \subseteq 1..Len(s)
    BY <1>4
  <2> HIDE DEF Encloses
  <2>5. QED
    BY <1>1, <1>5, <1>6, <2>2, <2>3, <2>4
<1>9. QED
  BY <1>7, <1>8

-----------------------------------------------------------------------------
\* How far a measurement has come: past the n-th step of the dialogue, or past the m-th of
\* the scripted kind.
Past(m, n) == pc > (IF kind = "native" THEN n ELSE m)
MidTurn == pc = 9 \/ (kind = "memory" /\ pc = 7)

\* The plans of the two measured kinds, step by step.
LEMMA MeasuredPlans ==
    /\ /\ Len(Plan.memory) = 10
       /\ Plan.memory[1] = "audio_output" /\ Plan.memory[2] = "asr" /\ Plan.memory[3] = "tts"
       /\ Plan.memory[4] = "llm" /\ Plan.memory[5] = "open" /\ Plan.memory[6] = "think"
       /\ Plan.memory[7] = "speak" /\ Plan.memory[8] = "think" /\ Plan.memory[9] = "speak"
       /\ Plan.memory[10] = "close"
    /\ /\ Len(Plan.native) = 12
       /\ Plan.native[1] = "audio_input" /\ Plan.native[2] = "audio_output"
       /\ Plan.native[3] = "asr" /\ Plan.native[4] = "tts"
       /\ Plan.native[5] = "llm" /\ Plan.native[6] = "open" /\ Plan.native[7] = "hear"
       /\ Plan.native[8] = "think" /\ Plan.native[9] = "speak" /\ Plan.native[10] = "decide"
       /\ Plan.native[11] = "replace" /\ Plan.native[12] = "close"
<1>1. Len(Tail(Five)) = 4 /\ Tail(Five) = <<"audio_output", "asr", "tts", "llm">>
  BY DEF Five
<1>2. Plan.memory = Tail(Five) \o <<"open", "think", "speak", "think", "speak", "close">>
  BY DEF Plan
<1>3. Plan.native = Five \o <<"open", "hear", "think", "speak", "decide", "replace", "close">>
  BY DEF Plan
<1>4. QED
  BY SMTT(60), <1>1, <1>2, <1>3 DEF Five

\* The steps of a measurement, by where it stands.
LEMMA MeasuredStep ==
    ASSUME SessionShape, Running, kind \in Measured
    PROVE  /\ kind = "memory" => pc \in 1..10
           /\ kind = "native" => pc \in 1..12
           /\ kind = "memory" => /\ Step \in Owners <=> pc <= 4
                                 /\ Step = "llm" <=> pc = 4
                                 /\ Step = "open" <=> pc = 5
                                 /\ Step = "think" <=> pc \in {6, 8}
                                 /\ Step = "speak" <=> pc \in {7, 9}
                                 /\ Step = "close" <=> pc = 10
                                 /\ Step \notin {"hear", "decide", "replace"}
           /\ kind = "native" => /\ Step \in Owners <=> pc <= 5
                                 /\ Step = "llm" <=> pc = 5
                                 /\ Step = "open" <=> pc = 6
                                 /\ Step = "hear" <=> pc = 7
                                 /\ Step = "think" <=> pc = 8
                                 /\ Step = "speak" <=> pc = 9
                                 /\ Step = "decide" <=> pc = 10
                                 /\ Step = "replace" <=> pc = 11
                                 /\ Step = "close" <=> pc = 12
           /\ Step \in Owners \cup {"open", "hear", "think", "speak", "decide", "replace", "close"}
<1>1. pc \in 1..Len(Plan[kind])
  BY Position
<1>2. CASE kind = "memory"
  <2>1. pc \in 1..10 /\ Step = Plan.memory[pc]
    BY <1>1, <1>2, MeasuredPlans DEF Step
  <2>2. pc \in {1, 2, 3, 4, 5, 6, 7, 8, 9, 10}
    BY <2>1
  <2>3. QED
    BY SMTT(60), <1>2, <2>1, <2>2, MeasuredPlans DEF Owners, Five
<1>3. CASE kind = "native"
  <2>1. pc \in 1..12 /\ Step = Plan.native[pc]
    BY <1>1, <1>3, MeasuredPlans DEF Step
  <2>2. pc \in {1, 2, 3, 4, 5, 6, 7, 8, 9, 10, 11, 12}
    BY <2>1
  <2>3. QED
    BY SMTT(60), <1>3, <2>1, <2>2, MeasuredPlans DEF Owners, Five
<1>4. QED
  BY <1>2, <1>3 DEF Measured

\* Where the dialogue jumps to.
LEMMA JumpsTo ==
    ASSUME kind = "native"
    PROVE  StepOf("hear") = 7 /\ StepOf("replace") = 11 /\ StepOf("close") = 12
<1>1. DOMAIN Plan[kind] = 1..12
  BY OtherPlans, MeasuredPlans DEF Plan, Five
<1>2. \A i \in 1..12 : i \in {1, 2, 3, 4, 5, 6, 7, 8, 9, 10, 11, 12}
  OBVIOUS
<1>3. \A i \in 1..12 : /\ Plan[kind][i] = "hear" <=> i = 7
                       /\ Plan[kind][i] = "replace" <=> i = 11
                       /\ Plan[kind][i] = "close" <=> i = 12
  BY <1>2, MeasuredPlans
<1>4. QED
  BY <1>1, <1>3 DEF StepOf

-----------------------------------------------------------------------------
Turns == [done : Nat, generated : Nat, after : Nat,
          said : {"none", "keep", "full", "tainted", "end"}, replaced : BOOLEAN]
Met(labels) == \A l \in labels : Found(points, l) # {}
GenerateMet == Met({"pre_generate", "post_generate"})
SpeechMet == Met(SpeechLabels)

\* How a log begins and ends.
LogEnds ==
    /\ IF Past(4, 5)
       THEN Len(points) >= 1 /\ points[1].label = "engine_ready" ELSE points = <<>>
    /\ Past(5, 6) => /\ Len(points) >= 3 /\ points[2].label = "conversation_preparation"
                     /\ points[3].label = "conversation_ready"
    /\ ~Past(5, 6) => Len(points) <= 1
    /\ \A i \in 1..Len(points) : points[i].label = "engine_ready" => i = 1
    /\ Found(points, "post_session_close") = IF Past(10, 12) THEN {Len(points)} ELSE {}

\* Its order, and whole windows but for the turn that is thinking.
LogOrder ==
    /\ Ascending(points) /\ UpTo(points, turns.done) /\ ReplacementsPaired(points)
    /\ kind = "native" /\ pc = 8 => \A i \in 1..Len(points) : points[i].index < turns.done
    /\ \A d \in Nat : IF MidTurn /\ d = turns.done THEN Thought(points, d) ELSE Spoken(points, d)

\* What it must have met by then.
LogMeets ==
    /\ kind = "memory" => turns.said \in {"none", "keep"}
    /\ Past(6, 8) /\ turns.said # "full" => GenerateMet
    /\ Past(7, 9) => SpeechMet
    /\ turns.generated > 0 => GenerateMet /\ SpeechMet
    /\ turns.after > 0 => turns.generated > 0
    /\ kind = "native" /\ pc > 11 => turns.generated > 0

LogInv ==
    kind \in Measured /\ first = "none" =>
       /\ points \in Seq(Entries) /\ turns \in Turns
       /\ LogEnds /\ LogOrder /\ LogMeets

Adds(labels, d) == \E t : Batch(t, labels, d) /\ points' = points \o t

\* What a measured operation emits is one point for each label, of the present turn.
LEMMA EmitAdds ==
    ASSUME kind \in Measured, turns \in Turns, NEW labels \in Seq(Labels), Emit(labels)
    PROVE  Adds(labels, turns.done)
<1>1. PICK t : t = [i \in DOMAIN labels |-> Point(labels[i])]
  OBVIOUS
<1>2. DOMAIN labels = 1..Len(labels) /\ Len(labels) \in Nat /\ \A i \in 1..Len(labels) : labels[i] \in Labels
  OBVIOUS
<1>3. turns.done \in Nat
  BY DEF Turns
<1>4. /\ t = [i \in 1..Len(labels) |-> Point(labels[i])]
      /\ \A i \in 1..Len(labels) : Point(labels[i]) \in Entries
  BY <1>1, <1>2, <1>3 DEF Point, Entries
<1>5. t \in Seq(Entries) /\ Len(t) = Len(labels)
  BY <1>2, <1>4
<1>6. Batch(t, labels, turns.done)
  BY <1>2, <1>4, <1>5 DEF Batch, Point
<1>7. points' = points \o t
  BY <1>1 DEF Emit
<1>8. QED
  BY <1>6, <1>7 DEF Adds

\* What a log keeps when an operation adds to it, and what it finds then.
LEMMA AddsIs ==
    ASSUME points \in Seq(Entries), NEW labels, NEW d, Adds(labels, d), Len(labels) \in Nat
    PROVE  /\ points' \in Seq(Entries) /\ Len(points) \in Nat
           /\ Len(points') = Len(points) + Len(labels)
           /\ \A i \in 1..Len(points) : points'[i] = points[i]
           /\ \A i \in 1..Len(labels) : /\ points'[Len(points) + i].label = labels[i]
                                        /\ points'[Len(points) + i].index = d
           /\ \A i \in 1..Len(points') :
                 i \in 1..Len(points) \/ \E j \in 1..Len(labels) : i = Len(points) + j
<1>1. PICK t : Batch(t, labels, d) /\ points' = points \o t
  BY DEF Adds
<1>2. /\ t \in Seq(Entries) /\ Len(t) = Len(labels)
      /\ \A i \in 1..Len(t) : t[i].label = labels[i] /\ t[i].index = d
  BY <1>1 DEF Batch
<1>3. /\ points \o t \in Seq(Entries) /\ Len(points \o t) = Len(points) + Len(t)
      /\ \A i \in 1..Len(points) : (points \o t)[i] = points[i]
      /\ \A i \in 1..Len(t) : (points \o t)[Len(points) + i] = t[i]
      /\ \A i \in 1..(Len(points) + Len(t)) :
            i \in 1..Len(points) \/ \E j \in 1..Len(t) : i = Len(points) + j
  BY <1>2, Extended
<1>4. /\ points' \in Seq(Entries) /\ Len(points') = Len(points) + Len(t)
      /\ \A i \in 1..Len(points) : points'[i] = points[i]
      /\ \A i \in 1..Len(t) : points'[Len(points) + i] = t[i]
      /\ \A i \in 1..Len(points') :
            i \in 1..Len(points) \/ \E j \in 1..Len(t) : i = Len(points) + j
  <2>1. points' \in Seq(Entries) /\ Len(points') = Len(points) + Len(t)
    BY <1>1, <1>3
  <2>2. \A i \in 1..Len(points) : points'[i] = points[i]
    BY <1>1, <1>3
  <2>3. \A i \in 1..Len(t) : points'[Len(points) + i] = t[i]
    BY <1>1, <1>3
  <2>4. 1..Len(points') = 1..(Len(points) + Len(t))
    BY <2>1
  <2>5. QED
    BY <1>3, <2>1, <2>2, <2>3, <2>4
<1>5. Len(points) \in Nat /\ 1..Len(t) = 1..Len(labels)
  BY <1>2
<1>6. \A i \in 1..Len(labels) : /\ points'[Len(points) + i].label = labels[i]
                                /\ points'[Len(points) + i].index = d
  BY ZenonT(60), <1>2, <1>4, <1>5
<1>7. QED
  BY <1>2, <1>4, <1>5, <1>6

LEMMA AddsFound ==
    ASSUME points \in Seq(Entries), NEW labels, NEW d, Adds(labels, d), Len(labels) \in Nat, NEW l
    PROVE  /\ Found(points, l) \subseteq Found(points', l)
           /\ \A i \in 1..Len(labels) : Len(points) + i \in Found(points', l) <=> labels[i] = l
           /\ \A i \in Found(points', l) :
                 \/ i \in Found(points, l)
                 \/ \E j \in 1..Len(labels) : i = Len(points) + j /\ labels[j] = l
<1>1. PICK t : Batch(t, labels, d) /\ points' = points \o t
  BY DEF Adds
<1>2. t \in Seq(Entries) /\ Len(t) = Len(labels) /\ \A i \in 1..Len(t) : t[i].label = labels[i]
  BY <1>1 DEF Batch
<1>3. /\ Found(points, l) \subseteq Found(points \o t, l)
      /\ \A i \in 1..Len(t) : Len(points) + i \in Found(points \o t, l) <=> t[i].label = l
      /\ \A i \in Found(points \o t, l) :
            i \in Found(points, l) \/ \E j \in 1..Len(t) : i = Len(points) + j /\ t[j].label = l
  BY <1>2, FoundIs
<1>4. /\ Found(points, l) \subseteq Found(points', l)
      /\ \A i \in 1..Len(t) : Len(points) + i \in Found(points', l) <=> t[i].label = l
      /\ \A i \in Found(points', l) :
            i \in Found(points, l) \/ \E j \in 1..Len(t) : i = Len(points) + j /\ t[j].label = l
  BY ONLY <1>1, <1>3
<1>5. QED
  BY <1>2, <1>4

\* Every addition keeps the order; the windows of other turns stay, and that of this one
\* unless it adds to it.
LEMMA AddsOrdered ==
    ASSUME points \in Seq(Entries), NEW labels, NEW d \in Nat, Adds(labels, d), Len(labels) \in Nat,
           Ascending(points), UpTo(points, d), ReplacementsPaired(points),
           \/ \A i \in 1..Len(labels) : labels[i] \notin {"pre_replacement", "post_replacement"}
           \/ labels = ReplaceLabels
    PROVE  /\ Ascending(points') /\ UpTo(points', d) /\ ReplacementsPaired(points')
           /\ \A e : \/ e # d
                     \/ \A i \in 1..Len(labels) : labels[i] \notin Once
                     => /\ Spoken(points, e) => Spoken(points', e)
                        /\ Thought(points, e) => Thought(points', e)
<1>1. PICK t : Batch(t, labels, d) /\ points' = points \o t
  BY DEF Adds
<1>2. Len(t) = Len(labels)
  BY <1>1 DEF Batch
<1>3. Ascending(points \o t) /\ UpTo(points \o t, d)
  BY <1>1, Ascends
<1>4. ReplacementsPaired(points \o t)
  BY <1>1, <1>2, PairsStay
<1>5. ASSUME NEW e, e # d \/ \A i \in 1..Len(labels) : labels[i] \notin Once
      PROVE  /\ Spoken(points, e) => Spoken(points \o t, e)
             /\ Thought(points, e) => Thought(points \o t, e)
  BY <1>1, <1>2, <1>5, WindowStays
<1>6. QED
  BY <1>1, <1>3, <1>4, <1>5

OpenLabels == <<"conversation_preparation", "conversation_ready">>

\* A step of a measurement that has met no error.
MeasuredMove ==
    \/ UNCHANGED <<pc, points, turns>>
    \/ /\ Running /\ pc' = pc + 1
       /\ \/ Step \in Owners \ {"llm"} /\ UNCHANGED <<points, turns>>
          \/ Step = "llm" /\ Adds(<<"engine_ready">>, turns.done) /\ turns' = turns
          \/ Step = "open" /\ Adds(OpenLabels, turns.done) /\ turns' = turns
          \/ Step = "hear" /\ Adds(<<>>, turns.done) /\ turns' = [turns EXCEPT !.done = @ + 1]
          \/ /\ Step = "think"
             /\ \E said \in Answers :
                   /\ turns' = [turns EXCEPT !.said = said, !.done = NextIndex]
                   /\ IF said = "full" THEN points' = points ELSE Adds(GenerateLabels, NextIndex)
          \/ Step = "speak" /\ Adds(SpeakLabels, turns.done) /\ turns' = turns
          \/ Step = "close" /\ Adds(<<"post_session_close">>, turns.done) /\ turns' = turns
    \/ /\ Running /\ Step = "decide" /\ points' = points /\ turns' = Counted
       /\ pc' \in {7, 11} \/ (pc' = 12 /\ Counted.after >= 2)
    \/ /\ Running /\ Step = "replace" /\ pc' = 7 /\ Adds(ReplaceLabels, turns.done)
       /\ turns' = [turns EXCEPT !.replaced = TRUE]

\* The labels are labels.
LEMMA LabelsAre ==
    /\ <<"engine_ready">> \in Seq(Labels) /\ OpenLabels \in Seq(Labels) /\ <<>> \in Seq(Labels)
    /\ GenerateLabels \in Seq(Labels) /\ SpeakLabels \in Seq(Labels)
    /\ <<"post_session_close">> \in Seq(Labels) /\ ReplaceLabels \in Seq(Labels)
<1> USE DEF Labels, Required
<1>1. <<"engine_ready">> \in Seq(Labels) /\ OpenLabels \in Seq(Labels) /\ <<>> \in Seq(Labels)
  BY DEF OpenLabels
<1>2. GenerateLabels \in Seq(Labels) /\ <<"post_session_close">> \in Seq(Labels)
  BY DEF GenerateLabels
<1>3. SpeakLabels \in Seq(Labels)
  BY DEF SpeakLabels
<1>4. ReplaceLabels \in Seq(Labels)
  BY DEF ReplaceLabels
<1>5. QED
  BY <1>1, <1>2, <1>3, <1>4

\* What a generation emits.
LEMMA ThinkAdds ==
    ASSUME turns \in Turns,
           points' = points \o <<[label |-> "pre_generate", index |-> NextIndex],
                                 [label |-> "post_generate", index |-> NextIndex]>>
    PROVE  Adds(GenerateLabels, NextIndex)
<1>1. NextIndex \in Nat
  BY DEF NextIndex, Turns
<1> DEFINE t == <<[label |-> "pre_generate", index |-> NextIndex],
                  [label |-> "post_generate", index |-> NextIndex]>>
<1>2. /\ [label |-> "pre_generate", index |-> NextIndex] \in Entries
      /\ [label |-> "post_generate", index |-> NextIndex] \in Entries
  BY <1>1 DEF Entries, Labels, Required
<1>3. t \in Seq(Entries)
  BY <1>2
<1>4. Batch(t, GenerateLabels, NextIndex)
  <2>1. Len(t) = 2 /\ \A i \in 1..2 : i = 1 \/ i = 2
    OBVIOUS
  <2>2. Len(GenerateLabels) = 2 /\ GenerateLabels[1] = "pre_generate" /\ GenerateLabels[2] = "post_generate"
    BY DEF GenerateLabels
  <2>3. /\ t[1].label = "pre_generate" /\ t[1].index = NextIndex
        /\ t[2].label = "post_generate" /\ t[2].index = NextIndex
    OBVIOUS
  <2> HIDE DEF t
  <2>4. QED
    BY <1>3, <2>1, <2>2, <2>3 DEF Batch
<1>5. QED
  BY <1>4 DEF Adds

\* Every step of a measurement without an error is one of these.
LEMMA MeasuredMoves ==
    ASSUME SessionShape, [Next]_vars, kind \in Measured, turns \in Turns, first' = "none"
    PROVE  kind' = kind /\ first = "none" /\ MeasuredMove
<1>0. kind \notin WakePaths /\ kind \notin {"lifecycle"} /\ (kind = "memory" \/ kind = "native")
  BY DEF Measured, WakePaths
<1>1. CASE StartOwner
  <2>1. Running /\ Step \in Owners /\ Advance /\ turns' = turns
    BY <1>1 DEF StartOwner, Breaks
  <2>2. CASE Step = "llm"
    <3>1. Emit(<<"engine_ready">>)
      BY <1>1, <2>1, <2>2 DEF StartOwner, Breaks
    <3>2. Adds(<<"engine_ready">>, turns.done)
      BY <3>1, EmitAdds, LabelsAre
    <3>3. QED
      BY <2>1, <2>2, <3>2 DEF Advance, Goto, MeasuredMove
  <2>3. CASE Step # "llm"
    <3>1. points' = points
      BY <1>1, <2>3 DEF StartOwner
    <3>2. QED
      BY <2>1, <2>3, <3>1 DEF Advance, Goto, MeasuredMove
  <2>4. QED
    BY <2>2, <2>3
<1>2. CASE OperationFails
  BY <1>2 DEF OperationFails, Breaks
<1>3. CASE Open \/ Hear \/ Speak \/ Close
  <2>1. /\ Running /\ Advance
        /\ \/ Step = "open" /\ Emit(OpenLabels) /\ turns' = turns
           \/ Step = "hear" /\ Emit(<<>>) /\ turns' = [turns EXCEPT !.done = @ + 1]
           \/ Step = "speak" /\ Emit(SpeakLabels) /\ turns' = turns
           \/ Step = "close" /\ Emit(<<"post_session_close">>) /\ turns' = turns
    BY <1>3 DEF Open, Hear, Speak, Close, Talk, Works, OpenLabels, SpeakLabels
  <2>2. \A labels \in Seq(Labels) : Emit(labels) => Adds(labels, turns.done)
    BY EmitAdds
  <2>3. QED
    BY <2>1, <2>2, LabelsAre DEF Advance, Goto, MeasuredMove
<1>4. CASE Think
  <2>1. Running /\ Step = "think" /\ Advance
    BY <1>4 DEF Think, Works
  <2>2. PICK said \in Answers :
          /\ turns' = [turns EXCEPT !.said = said, !.done = NextIndex]
          /\ points' = IF kind \in Measured /\ said # "full"
                       THEN points \o <<[label |-> "pre_generate", index |-> NextIndex],
                                        [label |-> "post_generate", index |-> NextIndex]>>
                       ELSE points
    BY <1>4 DEF Think
  <2>3. IF said = "full" THEN points' = points ELSE Adds(GenerateLabels, NextIndex)
    BY <2>2, ThinkAdds
  <2>4. QED
    BY <2>1, <2>2, <2>3 DEF Advance, Goto, MeasuredMove
<1>5. CASE Decide
  <2>1. Running /\ Step = "decide" /\ points' = points /\ turns' = Counted
    BY <1>5 DEF Decide
  <2>2. kind = "native"
    BY <1>0, <2>1, MeasuredStep
  <2>3. \/ Counted.after >= 2 /\ Goto(StepOf("close"))
        \/ Goto(StepOf("replace")) \/ Goto(StepOf("hear"))
    BY <1>5 DEF Decide, Breaks
  <2>4. QED
    BY <2>1, <2>2, <2>3, JumpsTo DEF Goto, MeasuredMove
<1>6. CASE Replace
  <2>1. Running /\ Step = "replace" /\ Emit(ReplaceLabels)
        /\ turns' = [turns EXCEPT !.replaced = TRUE] /\ Goto(StepOf("hear"))
    BY <1>6 DEF Replace, Works, Replaced, ReplaceLabels, Breaks
  <2>2. kind = "native"
    BY <1>0, <2>1, MeasuredStep
  <2>3. Adds(ReplaceLabels, turns.done)
    BY <2>1, EmitAdds, LabelsAre
  <2>4. QED
    BY <2>1, <2>2, <2>3, JumpsTo DEF Goto, MeasuredMove
<1>7. CASE \/ Hold \/ Timing \/ ForcedCleanup \/ StartSampler \/ StartManager \/ ManagedSession
           \/ Rebuild \/ Keep \/ Quit
  <2>1. Running /\ Step \in {"hold", "timing", "force", "sampler", "manager", "session", "rebuild",
                             "keep", "quit"}
    BY <1>7 DEF Hold, Timing, Talk, ForcedCleanup, StartSampler, StartManager, ManagedSession, Rebuild,
                Keep, Quit, Works
  <2>2. Step \in Owners \cup {"open", "hear", "think", "speak", "decide", "replace", "close"}
    BY <2>1, MeasuredStep
  <2>3. QED
    BY <2>1, <2>2 DEF Owners, Five
<1>8. CASE UnderTest \/ WatchWake
  BY <1>0, <1>8, TestMoves, WatchMoves
<1>9. CASE Disturb
  <2>1. UNCHANGED session /\ UNCHANGED <<points, turns>>
    BY <1>9 DEF Disturb, ChildDies, ErrorReported, SampleFails, aside
  <2>2. QED
    BY <2>1 DEF session, MeasuredMove
<1>10. CASE CleanUp
  <2>1. UNCHANGED <<kind, pc, first>>
    BY <1>10, CleanUpMoves
  <2>2. UNCHANGED <<points, turns>>
    BY <1>10 DEF CleanUp, Leave, JoinSampler, StopOwner, CleanupExpires, Finish, aside
  <2>3. QED
    BY <2>1, <2>2 DEF MeasuredMove
<1>11. CASE UNCHANGED vars
  BY <1>11 DEF vars, session, aside, MeasuredMove
<1>12. QED
  BY <1>1, <1>2, <1>3, <1>4, <1>5, <1>6, <1>7, <1>8, <1>9, <1>10, <1>11 DEF Next, Operate

-----------------------------------------------------------------------------
\* What was met stays met.
LEMMA MetStays ==
    ASSUME points \in Seq(Entries), NEW labels, NEW d, Adds(labels, d), Len(labels) \in Nat
    PROVE  /\ GenerateMet => GenerateMet'
           /\ SpeechMet => SpeechMet'
<1>1. \A l : Found(points, l) \subseteq Found(points', l)
  BY AddsFound
<1>2. QED
  BY <1>1 DEF GenerateMet, SpeechMet, Met

\* A step that adds nothing to the log, and passes none of its marks.
LEMMA LogStands ==
    ASSUME LogInv, kind \in Measured, first = "none", UNCHANGED <<kind, points, turns>>,
           \/ pc' = pc
           \/ /\ pc \in 1..12 /\ pc' = pc + 1
              /\ IF kind = "native" THEN pc < 5 ELSE pc < 4
    PROVE  LogInv'
<1>1. /\ points \in Seq(Entries) /\ turns \in Turns
      /\ LogEnds /\ LogOrder /\ LogMeets
  BY DEF LogInv
<1>2. /\ Past(4, 5)' = Past(4, 5) /\ Past(5, 6)' = Past(5, 6) /\ Past(10, 12)' = Past(10, 12)
      /\ Past(6, 8)' = Past(6, 8) /\ Past(7, 9)' = Past(7, 9)
      /\ MidTurn' = MidTurn /\ (kind = "native" => (pc' = 8 <=> pc = 8) /\ (pc' > 11 <=> pc > 11))
  BY DEF Past, MidTurn, Measured
<1>3. LogEnds'
  BY <1>1, <1>2 DEF LogEnds
<1>4. LogOrder'
  BY <1>1, <1>2 DEF LogOrder
<1>5. LogMeets'
  BY <1>1, <1>2 DEF LogMeets, GenerateMet, SpeechMet, Met
<1>6. QED
  BY <1>1, <1>3, <1>4, <1>5 DEF LogInv

\* The engine is ready.
LEMMA EngineLogged ==
    ASSUME LogInv, kind \in Measured, first = "none", kind' = kind, turns' = turns,
           pc = (IF kind = "native" THEN 5 ELSE 4), pc' = pc + 1,
           Adds(<<"engine_ready">>, turns.done)
    PROVE  LogInv'
<1>1. /\ points \in Seq(Entries) /\ turns \in Turns /\ turns.done \in Nat
      /\ LogEnds /\ LogOrder /\ LogMeets
  BY DEF LogInv, Turns
<1>2. /\ ~Past(4, 5) /\ Past(4, 5)' /\ ~Past(5, 6)' /\ ~Past(10, 12)' /\ ~Past(10, 12)
      /\ ~Past(6, 8)' /\ ~Past(7, 9)' /\ ~MidTurn /\ ~MidTurn' /\ pc' # 8 /\ ~(pc' > 11)
  BY DEF Past, MidTurn, Measured
<1>3. Len(<<"engine_ready">>) = 1 /\ <<"engine_ready">>[1] = "engine_ready"
      /\ \A i \in 1..1 : i = 1
  OBVIOUS
<1> DEFINE labels == <<"engine_ready">>
<1>4. Len(labels) = 1 /\ \A i \in 1..Len(labels) : labels[i] = "engine_ready"
  BY <1>3
<1> HIDE DEF labels
<1>5. /\ points' \in Seq(Entries) /\ Len(points) \in Nat /\ Len(points') = Len(points) + 1
      /\ points'[Len(points) + 1].label = "engine_ready"
  <2>1. Adds(labels, turns.done)
    BY DEF labels
  <2>0. Len(labels) \in Nat
    BY <1>4
  <2>2. /\ points' \in Seq(Entries) /\ Len(points) \in Nat
        /\ Len(points') = Len(points) + Len(labels)
        /\ \A i \in 1..Len(labels) : points'[Len(points) + i].label = labels[i]
    BY <1>1, <2>0, <2>1, AddsIs
  <2>3. 1 \in 1..Len(labels)
    BY <1>4
  <2>4. QED
    BY <1>4, <2>2, <2>3
<1>6. Len(points) = 0
  BY <1>1, <1>2 DEF LogEnds
<1>7. Found(points', "post_session_close") = {}
  <2>1. Adds(labels, turns.done)
    BY DEF labels
  <2>2. \A i \in Found(points', "post_session_close") :
           \/ i \in Found(points, "post_session_close")
           \/ \E j \in 1..Len(labels) : i = Len(points) + j /\ labels[j] = "post_session_close"
    BY <1>1, <1>4, <2>1, AddsFound
  <2>3. QED
    BY <1>1, <1>2, <1>4, <2>2 DEF LogEnds
<1>8. LogEnds'
  BY <1>2, <1>5, <1>6, <1>7 DEF LogEnds
<1>9. LogOrder'
  <2>1. /\ Ascending(points') /\ UpTo(points', turns.done) /\ ReplacementsPaired(points')
        /\ \A e : Spoken(points, e) => Spoken(points', e)
    BY <1>1, <1>4, AddsOrdered DEF LogOrder, labels, Once
  <2>2. QED
    BY <1>1, <1>2, <2>1 DEF LogOrder
<1>10. LogMeets'
  <2>1. (GenerateMet => GenerateMet') /\ (SpeechMet => SpeechMet')
    BY <1>1, <1>4, MetStays DEF labels
  <2>2. QED
    BY <1>1, <1>2, <2>1 DEF LogMeets
<1>11. QED
  BY <1>1, <1>5, <1>8, <1>9, <1>10 DEF LogInv

\* The conversation is open.
LEMMA OpenLogged ==
    ASSUME LogInv, kind \in Measured, first = "none", kind' = kind, turns' = turns,
           pc = (IF kind = "native" THEN 6 ELSE 5), pc' = pc + 1,
           Adds(OpenLabels, turns.done)
    PROVE  LogInv'
<1>1. /\ points \in Seq(Entries) /\ turns \in Turns /\ turns.done \in Nat
      /\ LogEnds /\ LogOrder /\ LogMeets
  BY DEF LogInv, Turns
<1>2. /\ Past(4, 5) /\ Past(4, 5)' /\ ~Past(5, 6) /\ Past(5, 6)' /\ ~Past(10, 12)' /\ ~Past(10, 12)
      /\ ~Past(6, 8)' /\ ~Past(7, 9)' /\ ~MidTurn /\ ~MidTurn' /\ pc' # 8 /\ ~(pc' > 11)
  BY DEF Past, MidTurn, Measured
<1>4. /\ Len(OpenLabels) = 2 /\ OpenLabels[1] = "conversation_preparation"
      /\ OpenLabels[2] = "conversation_ready" /\ \A i \in 1..Len(OpenLabels) : i = 1 \/ i = 2
  BY DEF OpenLabels
<1>5. /\ points' \in Seq(Entries) /\ Len(points) \in Nat
      /\ Len(points') = Len(points) + Len(OpenLabels)
      /\ \A i \in 1..Len(points) : points'[i] = points[i]
      /\ \A i \in 1..Len(OpenLabels) : points'[Len(points) + i].label = OpenLabels[i]
      /\ \A i \in 1..Len(points') :
            i \in 1..Len(points) \/ \E j \in 1..Len(OpenLabels) : i = Len(points) + j
  <2>1. Len(OpenLabels) \in Nat
    BY <1>4
  <2>2. QED
    BY <1>1, <2>1, AddsIs
<1>6. Len(points) = 1 /\ points[1].label = "engine_ready"
  <2>1. Len(points) >= 1 /\ Len(points) <= 1 /\ points[1].label = "engine_ready"
    BY <1>1, <1>2 DEF LogEnds
  <2>2. Len(points) \in Nat
    BY <1>1
  <2>3. \A n \in Nat : n >= 1 /\ n <= 1 => n = 1
    OBVIOUS
  <2>4. Len(points) = 1
    BY <2>1, <2>2, <2>3
  <2>5. QED
    BY <2>1, <2>4
<1>7. Found(points', "post_session_close") = {}
  <2>1. \A i \in Found(points', "post_session_close") :
           \/ i \in Found(points, "post_session_close")
           \/ \E j \in 1..Len(OpenLabels) : /\ i = Len(points) + j
                                              /\ OpenLabels[j] = "post_session_close"
    BY <1>1, <1>4, AddsFound
  <2>2. QED
    BY <1>1, <1>2, <1>4, <2>1 DEF LogEnds
<1>8. LogEnds'
  BY <1>2, <1>4, <1>5, <1>6, <1>7 DEF LogEnds
<1>9. LogOrder'
  <2>1. /\ \A i \in 1..Len(OpenLabels) :
              OpenLabels[i] \notin Once \cup {"pre_replacement", "post_replacement"}
    BY <1>4 DEF Once
  <2>2. /\ Ascending(points') /\ UpTo(points', turns.done) /\ ReplacementsPaired(points')
        /\ \A e : Spoken(points, e) => Spoken(points', e)
    BY <1>1, <1>4, <2>1, AddsOrdered DEF LogOrder
  <2>3. QED
    BY <1>1, <1>2, <2>2 DEF LogOrder
<1>10. LogMeets'
  <2>1. (GenerateMet => GenerateMet') /\ (SpeechMet => SpeechMet')
    BY <1>1, <1>4, MetStays
  <2>2. QED
    BY <1>1, <1>2, <2>1 DEF LogMeets
<1>11. QED
  BY <1>1, <1>5, <1>8, <1>9, <1>10 DEF LogInv

\* How the ends of a log stand while it grows between them.
LEMMA MiddleEnds ==
    ASSUME points \in Seq(Entries), LogEnds, kind' = kind, NEW labels, NEW d, Adds(labels, d),
           Len(labels) \in Nat, Past(5, 6), Past(5, 6)', ~Past(10, 12), ~Past(10, 12)', kind \in Measured,
           pc \in Nat, pc' \in Nat,
           \A i \in 1..Len(labels) : labels[i] \notin {"engine_ready", "post_session_close"}
    PROVE  LogEnds'
<1>1. Past(4, 5) /\ Past(4, 5)'
  BY DEF Past, Measured
<1>2. /\ points' \in Seq(Entries) /\ Len(points) \in Nat
      /\ Len(points') = Len(points) + Len(labels)
      /\ \A i \in 1..Len(points) : points'[i] = points[i]
      /\ \A i \in 1..Len(labels) : points'[Len(points) + i].label = labels[i]
      /\ \A i \in 1..Len(points') :
            i \in 1..Len(points) \/ \E j \in 1..Len(labels) : i = Len(points) + j
  BY AddsIs
<1>3. Found(points', "post_session_close") = {}
  <2>1. \A i \in Found(points', "post_session_close") :
           \/ i \in Found(points, "post_session_close")
           \/ \E j \in 1..Len(labels) : i = Len(points) + j /\ labels[j] = "post_session_close"
    BY AddsFound
  <2>2. QED
    BY <2>1 DEF LogEnds
<1>4. /\ Len(points) >= 3 /\ points[1].label = "engine_ready"
      /\ points[2].label = "conversation_preparation" /\ points[3].label = "conversation_ready"
  BY <1>1 DEF LogEnds
<1>5. /\ Len(points') >= 3 /\ 1 \in 1..Len(points) /\ 2 \in 1..Len(points) /\ 3 \in 1..Len(points)
  BY <1>2, <1>4
<1>6. \A i \in 1..Len(points') : points'[i].label = "engine_ready" => i = 1
  <2>1. \A i \in 1..Len(points) : points'[i].label = "engine_ready" => i = 1
    BY <1>2 DEF LogEnds
  <2>2. \A i \in 1..Len(labels) : points'[Len(points) + i].label # "engine_ready"
    BY SMTT(60), <1>2
  <2>3. QED
    BY SMTT(60), <1>2, <2>1, <2>2
<1>7. QED
  BY SMTT(60), <1>1, <1>2, <1>3, <1>4, <1>5, <1>6 DEF LogEnds

\* A turn of the dialogue begins.
LEMMA HearLogged ==
    ASSUME LogInv, kind = "native", first = "none", kind' = kind, pc = 7, pc' = 8,
           Adds(<<>>, turns.done), turns' = [turns EXCEPT !.done = @ + 1]
    PROVE  LogInv'
<1>1. /\ points \in Seq(Entries) /\ turns \in Turns /\ turns.done \in Nat /\ kind \in Measured
      /\ LogEnds /\ LogOrder /\ LogMeets
  BY DEF LogInv, Turns, Measured
<1>2. /\ turns' \in Turns /\ turns'.done = turns.done + 1 /\ turns'.generated = turns.generated
      /\ turns'.after = turns.after
  BY <1>1 DEF Turns
<1>3. Len(<<>>) = 0 /\ \A i \in 1..0 : FALSE
  OBVIOUS
<1> DEFINE labels == <<>>
<1>4. Len(labels) = 0 /\ \A i \in 1..Len(labels) : FALSE
  BY <1>3
<1>5. Adds(labels, turns.done)
  OBVIOUS
<1> HIDE DEF labels
<1>6. /\ Past(5, 6) /\ Past(5, 6)' /\ ~Past(10, 12) /\ ~Past(10, 12)' /\ ~Past(6, 8)' /\ ~Past(7, 9)'
      /\ ~MidTurn /\ ~MidTurn'
  BY DEF Past, MidTurn
<1>7. LogEnds'
  BY <1>1, <1>4, <1>5, <1>6, MiddleEnds
<1>8. /\ Ascending(points') /\ UpTo(points', turns.done) /\ ReplacementsPaired(points')
      /\ \A e : Spoken(points, e) => Spoken(points', e)
  BY <1>1, <1>4, <1>5, AddsOrdered DEF LogOrder
<1>9. points' \in Seq(Entries)
  BY <1>1, <1>4, <1>5, AddsIs
<1>10. \A i \in 1..Len(points') : points'[i].index \in Nat /\ points'[i].index < turns'.done
  <2>1. \A i \in 1..Len(points') : points'[i] \in Entries
    BY <1>9
  <2>2. QED
    BY <1>1, <1>2, <1>8, <2>1 DEF UpTo, Entries
<1>11. UpTo(points', turns'.done)
  BY <1>2, <1>10 DEF UpTo, Turns
<1>12. LogOrder'
  BY <1>1, <1>6, <1>8, <1>10, <1>11 DEF LogOrder
<1>13. LogMeets'
  <2>1. (GenerateMet => GenerateMet') /\ (SpeechMet => SpeechMet')
    BY <1>1, <1>4, <1>5, MetStays
  <2>2. QED
    BY <1>1, <1>2, <1>6, <2>1 DEF LogMeets
<1>14. QED
  BY <1>2, <1>7, <1>9, <1>12, <1>13 DEF LogInv

\* A turn thinks: nothing was measured of it yet.
LEMMA BlankAhead ==
    ASSUME points \in Seq(Entries), NEW d, \A i \in 1..Len(points) : points[i].index # d
    PROVE  Blank(points, d)
  BY DEF Blank, Window, Found

LEMMA ThinkLogged ==
    ASSUME LogInv, kind \in Measured, first = "none", kind' = kind, pc \in {6, 8},
           kind = "native" => pc = 8, pc' = pc + 1,
           NEW said \in Answers, turns' = [turns EXCEPT !.said = said, !.done = NextIndex],
           IF said = "full" THEN points' = points ELSE Adds(GenerateLabels, NextIndex)
    PROVE  LogInv'
<1>1. /\ points \in Seq(Entries) /\ turns \in Turns /\ turns.done \in Nat
      /\ LogEnds /\ LogOrder /\ LogMeets
  BY DEF LogInv, Turns
<1>2. /\ said \in {"keep", "full", "tainted", "end"} /\ (kind = "memory" => said = "keep")
      /\ NextIndex = (IF kind = "native" THEN turns.done ELSE turns.done + 1)
      /\ NextIndex \in Nat /\ turns.done <= NextIndex
  BY <1>1 DEF Answers, NextIndex, Measured
<1>3. /\ turns' \in Turns /\ turns'.done = NextIndex /\ turns'.generated = turns.generated
      /\ turns'.after = turns.after /\ turns'.said = said
  BY <1>1, <1>2 DEF Turns
<1>4. /\ Past(5, 6) /\ Past(5, 6)' /\ ~Past(10, 12) /\ ~Past(10, 12)' /\ Past(6, 8)'
      /\ (Past(7, 9)' => Past(7, 9)) /\ ~MidTurn /\ MidTurn' /\ pc' # 8 /\ ~(pc' > 11)
      /\ pc \in Nat /\ pc' \in Nat
  BY DEF Past, MidTurn, Measured
<1>5. /\ Len(GenerateLabels) = 2 /\ GenerateLabels[1] = "pre_generate"
      /\ GenerateLabels[2] = "post_generate" /\ \A i \in 1..Len(GenerateLabels) : i = 1 \/ i = 2
  BY DEF GenerateLabels
<1>6. /\ \A i \in 1..Len(points) : points[i].index \in Nat /\ points[i].index # NextIndex
      /\ UpTo(points, NextIndex)
  <2>1. \A i \in 1..Len(points) : points[i].index \in Nat /\ points[i].index <= turns.done
    <3>1. \A i \in 1..Len(points) : points[i] \in Entries
      BY <1>1
    <3>2. QED
      BY <1>1, <3>1 DEF LogOrder, UpTo, Entries
  <2>2. kind = "native" => \A i \in 1..Len(points) : points[i].index < turns.done
    BY <1>1 DEF LogOrder
  <2>3. QED
    BY <1>1, <1>2, <2>1, <2>2 DEF UpTo
<1>7. Blank(points, NextIndex)
  BY <1>1, <1>6, BlankAhead
<1>8. CASE said = "full"
  <2>1. points' = points /\ kind = "native" /\ NextIndex = turns.done
    BY <1>2, <1>8 DEF Measured
  <2>2. LogEnds'
    <3>1. Past(4, 5) /\ Past(4, 5)'
      BY <1>4 DEF Past, Measured
    <3>2. QED
      BY <1>1, <1>4, <2>1, <3>1 DEF LogEnds
  <2>3. Thought(points, NextIndex)
    BY <1>7 DEF Blank, Thought, Generated, SpeechLabels, Once
  <2>4. LogOrder'
    BY <1>1, <1>3, <1>4, <2>1, <2>3 DEF LogOrder
  <2>5. LogMeets'
    BY <1>1, <1>2, <1>3, <1>4, <1>8, <2>1 DEF LogMeets, GenerateMet, SpeechMet, Met
  <2>6. QED
    BY <1>1, <1>3, <2>1, <2>2, <2>4, <2>5 DEF LogInv
<1>9. CASE said # "full"
  <2>1. Adds(GenerateLabels, NextIndex)
    BY <1>9
  <2>2. points' \in Seq(Entries) /\ Len(points) \in Nat
    BY <1>1, <1>5, <2>1, AddsIs
  <2>3. LogEnds'
    <3>1. \A i \in 1..Len(GenerateLabels) : GenerateLabels[i] \notin {"engine_ready", "post_session_close"}
      BY <1>5
    <3>2. QED
      BY SMTT(60), <1>1, <1>4, <1>5, <2>1, <3>1, MiddleEnds
  <2>4. LogOrder'
    <3>1. \A i \in 1..Len(GenerateLabels) :
              GenerateLabels[i] \notin {"pre_replacement", "post_replacement"}
      BY <1>5
    <3>2. /\ Ascending(points') /\ UpTo(points', NextIndex) /\ ReplacementsPaired(points')
          /\ \A e : e # NextIndex => (Spoken(points, e) => Spoken(points', e))
      BY SMTT(60), <1>1, <1>2, <1>5, <1>6, <2>1, <3>1, AddsOrdered DEF LogOrder
    <3>3. PICK t : Batch(t, GenerateLabels, NextIndex) /\ points' = points \o t
      BY <2>1 DEF Adds
    <3>4. Thought(points', NextIndex)
      BY <1>1, <1>7, <3>3, GenerationAdded
    <3>5. QED
      BY <1>1, <1>3, <1>4, <3>2, <3>4 DEF LogOrder
  <2>5. LogMeets'
    <3>1. (GenerateMet => GenerateMet') /\ (SpeechMet => SpeechMet')
      BY <1>1, <1>5, <2>1, MetStays
    <3>2. GenerateMet'
      <4>1. 1 \in 1..Len(GenerateLabels) /\ 2 \in 1..Len(GenerateLabels)
        BY <1>5
      <4>2. \A i \in 1..Len(GenerateLabels) : Len(points) + i \in Found(points', GenerateLabels[i])
        <5>1. Len(GenerateLabels) \in Nat
          BY <1>5
        <5>2. QED
          BY <1>1, <2>1, <5>1, AddsFound
      <4>3. QED
        BY <1>5, <4>1, <4>2 DEF GenerateMet, Met
    <3>3. QED
      BY <1>1, <1>2, <1>3, <1>4, <3>1, <3>2 DEF LogMeets
  <2>6. QED
    BY <1>3, <2>2, <2>3, <2>4, <2>5 DEF LogInv
<1>10. QED
  BY <1>8, <1>9

\* The speech of a turn: its window is whole.
LEMMA SpeakLogged ==
    ASSUME LogInv, kind \in Measured, first = "none", kind' = kind, turns' = turns, pc \in {7, 9},
           kind = "native" => pc = 9, pc' = pc + 1, Adds(SpeakLabels, turns.done)
    PROVE  LogInv'
<1>1. /\ points \in Seq(Entries) /\ turns \in Turns /\ turns.done \in Nat
      /\ LogEnds /\ LogOrder /\ LogMeets
  BY DEF LogInv, Turns
<1>2. /\ Past(5, 6) /\ Past(5, 6)' /\ ~Past(10, 12) /\ ~Past(10, 12)' /\ Past(6, 8)
      /\ MidTurn /\ ~MidTurn' /\ ~(kind = "native" /\ pc' = 8)
  BY DEF Past, MidTurn, Measured
<1>3. /\ Len(SpeakLabels) = 3 /\ Len(SpeakLabels) \in Nat /\ SpeakLabels[1] = "pre_speak"
      /\ SpeakLabels[2] = "audio_completion" /\ SpeakLabels[3] = "primary_completion"
      /\ \A i \in 1..Len(SpeakLabels) : i = 1 \/ i = 2 \/ i = 3
  BY DEF SpeakLabels
<1>4. points' \in Seq(Entries)
  BY <1>1, <1>3, AddsIs
<1>5. LogEnds'
  <2>1. \A i \in 1..Len(SpeakLabels) : SpeakLabels[i] \notin {"engine_ready", "post_session_close"}
    BY <1>3
  <2>2. pc \in Nat /\ pc' \in Nat
    OBVIOUS
  <2>3. QED
    BY <1>1, <1>2, <1>3, <2>1, <2>2, MiddleEnds
<1>6. LogOrder'
  <2>1. \A i \in 1..Len(SpeakLabels) : SpeakLabels[i] \notin {"pre_replacement", "post_replacement"}
    BY <1>3
  <2>2. /\ Ascending(points') /\ UpTo(points', turns.done) /\ ReplacementsPaired(points')
        /\ \A e : e # turns.done => (Spoken(points, e) => Spoken(points', e))
    BY <1>1, <1>3, <2>1, AddsOrdered DEF LogOrder
  <2>3. PICK t : Batch(t, SpeakLabels, turns.done) /\ points' = points \o t
    BY DEF Adds
  <2>4. Thought(points, turns.done)
    BY <1>1, <1>2 DEF LogOrder
  <2>5. Spoken(points', turns.done)
    BY <1>1, <2>3, <2>4, SpeechAdded
  <2>6. \A d \in Nat : Spoken(points', d)
    BY <1>1, <1>2, <2>2, <2>5 DEF LogOrder
  <2>7. QED
    BY <1>2, <2>2, <2>6 DEF LogOrder
<1>7. LogMeets'
  <2>1. (GenerateMet => GenerateMet') /\ (SpeechMet => SpeechMet')
    BY <1>1, <1>3, MetStays
  <2>2. SpeechMet'
    <3>1. \A i \in 1..Len(SpeakLabels) : Len(points) + i \in Found(points', SpeakLabels[i])
      BY <1>1, <1>3, AddsFound
    <3>2. 1 \in 1..Len(SpeakLabels) /\ 2 \in 1..Len(SpeakLabels) /\ 3 \in 1..Len(SpeakLabels)
      BY <1>3
    <3>3. QED
      BY <1>3, <3>1, <3>2 DEF SpeechMet, Met, SpeechLabels
  <2>3. kind = "native" => ~(pc' > 11)
    OBVIOUS
  <2>4. QED
    BY <1>1, <1>2, <2>1, <2>2, <2>3 DEF LogMeets
<1>8. QED
  BY <1>1, <1>4, <1>5, <1>6, <1>7 DEF LogInv

\* The end of a turn of the dialogue: it counts if it was generated, and so measured.
LEMMA DecideLogged ==
    ASSUME LogInv, kind = "native", first = "none", kind' = kind, pc = 10, points' = points,
           turns' = Counted, pc' \in {7, 11} \/ (pc' = 12 /\ Counted.after >= 2)
    PROVE  LogInv'
<1>1. /\ points \in Seq(Entries) /\ turns \in Turns /\ kind \in Measured
      /\ LogEnds /\ LogOrder /\ LogMeets
  BY DEF LogInv, Measured
<1>2. /\ turns.generated \in Nat /\ turns.after \in Nat /\ turns.done \in Nat
  BY <1>1 DEF Turns
<1>3. /\ turns' \in Turns /\ turns'.done = turns.done /\ turns'.said = turns.said
      /\ \/ turns'.generated = turns.generated /\ turns'.after = turns.after
         \/ /\ turns'.generated = turns.generated + 1 /\ turns.said \in {"keep", "end"}
            /\ turns'.after \in Nat
  <2>1. CASE turns.said \notin {"keep", "end"}
    BY <1>1, <2>1 DEF Counted
  <2>2. CASE turns.said \in {"keep", "end"}
    <3>1. PICK g, a \in Nat : /\ g = turns.generated + 1
                               /\ a = IF turns.replaced THEN turns.after + 1 ELSE turns.after
      BY <1>2
    <3>2. turns' = [turns EXCEPT !.generated = g, !.after = a]
      BY <1>1, <2>2, <3>1 DEF Counted, Turns
    <3>3. g \in Nat
      BY <1>2, <3>1
    <3>4. QED
      BY <1>1, <2>2, <3>1, <3>2, <3>3 DEF Turns
  <2>3. QED
    BY <2>1, <2>2
<1>4. /\ Past(5, 6) /\ Past(5, 6)' /\ ~Past(10, 12) /\ ~Past(10, 12)' /\ Past(6, 8) /\ Past(7, 9)
      /\ Past(4, 5) /\ Past(4, 5)' /\ ~MidTurn /\ ~MidTurn' /\ pc' # 8
  BY DEF Past, MidTurn
<1>5. LogEnds'
  BY <1>1, <1>4 DEF LogEnds
<1>6. LogOrder'
  BY <1>1, <1>3, <1>4 DEF LogOrder
<1>7. GenerateMet' = GenerateMet /\ SpeechMet' = SpeechMet
  BY DEF GenerateMet, SpeechMet, Met
<1>8. SpeechMet /\ (turns.said # "full" => GenerateMet)
  BY <1>1, <1>4 DEF LogMeets
<1>9. turns'.after > 0 => turns'.generated > 0
  BY <1>1, <1>2, <1>3 DEF LogMeets
<1>10. turns'.generated > 0 => GenerateMet' /\ SpeechMet'
  BY <1>1, <1>2, <1>3, <1>7, <1>8 DEF LogMeets
<1>11. pc' > 11 => turns'.generated > 0
  <2>1. turns'.after \in Nat
    BY <1>3 DEF Turns
  <2>2. QED
    BY <1>9, <2>1
<1>12. LogMeets'
  BY <1>3, <1>7, <1>8, <1>9, <1>10, <1>11 DEF LogMeets
<1>13. QED
  BY <1>1, <1>3, <1>5, <1>6, <1>12 DEF LogInv

\* A replacement of the conversation, between two turns.
LEMMA ReplaceLogged ==
    ASSUME LogInv, kind = "native", first = "none", kind' = kind, pc = 11, pc' = 7,
           turns' = [turns EXCEPT !.replaced = TRUE], Adds(ReplaceLabels, turns.done)
    PROVE  LogInv'
<1>1. /\ points \in Seq(Entries) /\ turns \in Turns /\ turns.done \in Nat /\ kind \in Measured
      /\ LogEnds /\ LogOrder /\ LogMeets
  BY DEF LogInv, Turns, Measured
<1>2. /\ turns' \in Turns /\ turns'.done = turns.done /\ turns'.generated = turns.generated
      /\ turns'.after = turns.after /\ turns'.said = turns.said
  BY <1>1 DEF Turns
<1>3. /\ Past(5, 6) /\ Past(5, 6)' /\ ~Past(10, 12) /\ ~Past(10, 12)' /\ ~Past(6, 8)' /\ ~Past(7, 9)'
      /\ ~MidTurn /\ ~MidTurn' /\ pc' # 8 /\ ~(pc' > 11) /\ pc \in Nat /\ pc' \in Nat
  BY DEF Past, MidTurn
<1>4. /\ Len(ReplaceLabels) = 4 /\ Len(ReplaceLabels) \in Nat
      /\ \A i \in 1..Len(ReplaceLabels) :
            /\ ReplaceLabels[i] \notin Once
            /\ ReplaceLabels[i] \notin {"engine_ready", "post_session_close"}
  <2>1. /\ Len(ReplaceLabels) = 4 /\ ReplaceLabels[1] = "pre_replacement"
        /\ ReplaceLabels[2] = "conversation_preparation" /\ ReplaceLabels[3] = "conversation_ready"
        /\ ReplaceLabels[4] = "post_replacement"
        /\ \A i \in 1..Len(ReplaceLabels) : i = 1 \/ i = 2 \/ i = 3 \/ i = 4
    BY DEF ReplaceLabels
  <2>2. QED
    BY <2>1 DEF Once
<1>5. points' \in Seq(Entries)
  BY <1>1, <1>4, AddsIs
<1>6. LogEnds'
  BY <1>1, <1>3, <1>4, MiddleEnds
<1>7. LogOrder'
  <2>1. /\ Ascending(points') /\ UpTo(points', turns.done) /\ ReplacementsPaired(points')
        /\ \A e : Spoken(points, e) => Spoken(points', e)
    BY <1>1, <1>4, AddsOrdered DEF LogOrder
  <2>2. QED
    BY <1>1, <1>2, <1>3, <2>1 DEF LogOrder
<1>8. LogMeets'
  <2>1. (GenerateMet => GenerateMet') /\ (SpeechMet => SpeechMet')
    BY <1>1, <1>4, MetStays
  <2>2. QED
    BY <1>1, <1>2, <1>3, <2>1 DEF LogMeets
<1>9. QED
  BY <1>1, <1>2, <1>5, <1>6, <1>7, <1>8 DEF LogInv

\* The last point.
LEMMA CloseLogged ==
    ASSUME LogInv, kind \in Measured, first = "none", kind' = kind, turns' = turns,
           pc = (IF kind = "native" THEN 12 ELSE 10), pc' = pc + 1,
           Adds(<<"post_session_close">>, turns.done)
    PROVE  LogInv'
<1>1. /\ points \in Seq(Entries) /\ turns \in Turns /\ turns.done \in Nat
      /\ LogEnds /\ LogOrder /\ LogMeets
  BY DEF LogInv, Turns
<1>2. /\ Past(4, 5) /\ Past(4, 5)' /\ Past(5, 6) /\ Past(5, 6)' /\ ~Past(10, 12) /\ Past(10, 12)'
      /\ Past(6, 8) /\ Past(7, 9) /\ ~MidTurn /\ ~MidTurn' /\ pc' # 8
      /\ kind = "native" => pc > 11
  BY DEF Past, MidTurn, Measured
<1> DEFINE labels == <<"post_session_close">>
<1>3. Len(labels) = 1 /\ \A i \in 1..Len(labels) : labels[i] = "post_session_close" /\ i = 1
  OBVIOUS
<1>4. Adds(labels, turns.done)
  OBVIOUS
<1> HIDE DEF labels
<1>5. Len(labels) \in Nat /\ 1 \in 1..Len(labels)
  BY <1>3
<1>6. /\ points' \in Seq(Entries) /\ Len(points) \in Nat
      /\ Len(points') = Len(points) + Len(labels)
      /\ \A i \in 1..Len(points) : points'[i] = points[i]
      /\ \A i \in 1..Len(labels) : points'[Len(points) + i].label = labels[i]
      /\ \A i \in 1..Len(points') :
            i \in 1..Len(points) \/ \E j \in 1..Len(labels) : i = Len(points) + j
  BY <1>1, <1>4, <1>5, AddsIs
<1>7. Found(points', "post_session_close") = {Len(points')}
  <2>1. /\ \A i \in 1..Len(labels) : Len(points) + i \in Found(points', "post_session_close")
                                     <=> labels[i] = "post_session_close"
        /\ \A i \in Found(points', "post_session_close") :
              \/ i \in Found(points, "post_session_close")
              \/ \E j \in 1..Len(labels) : i = Len(points) + j /\ labels[j] = "post_session_close"
    BY <1>1, <1>4, <1>5, AddsFound
  <2>2. Found(points, "post_session_close") = {}
    BY <1>1, <1>2 DEF LogEnds
  <2>3. QED
    BY <1>3, <1>5, <1>6, <2>1, <2>2
<1>8. LogEnds'
  <2>1. /\ Len(points) >= 3 /\ points[1].label = "engine_ready"
        /\ points[2].label = "conversation_preparation" /\ points[3].label = "conversation_ready"
    BY <1>1, <1>2 DEF LogEnds
  <2>2. /\ Len(points') >= 3 /\ 1 \in 1..Len(points) /\ 2 \in 1..Len(points) /\ 3 \in 1..Len(points)
    BY <1>3, <1>6, <2>1
  <2>3. \A i \in 1..Len(points') : points'[i].label = "engine_ready" => i = 1
    <3>1. \A i \in 1..Len(points) : points'[i].label = "engine_ready" => i = 1
      BY <1>1, <1>6 DEF LogEnds
    <3>2. \A i \in 1..Len(labels) : points'[Len(points) + i].label # "engine_ready"
      BY <1>3, <1>6
    <3>3. QED
      BY <1>6, <3>1, <3>2
  <2>4. QED
    BY <1>2, <1>6, <1>7, <2>1, <2>2, <2>3 DEF LogEnds
<1>9. LogOrder'
  <2>1. /\ \A i \in 1..Len(labels) :
              labels[i] \notin Once /\ labels[i] \notin {"pre_replacement", "post_replacement"}
    BY <1>3 DEF Once
  <2>2. /\ Ascending(points') /\ UpTo(points', turns.done) /\ ReplacementsPaired(points')
        /\ \A e : Spoken(points, e) => Spoken(points', e)
    BY <1>1, <1>4, <1>5, <2>1, AddsOrdered DEF LogOrder
  <2>3. QED
    BY <1>1, <1>2, <2>2 DEF LogOrder
<1>10. LogMeets'
  <2>1. (GenerateMet => GenerateMet') /\ (SpeechMet => SpeechMet')
    BY <1>1, <1>4, <1>5, MetStays
  <2>2. QED
    BY <1>1, <1>2, <2>1 DEF LogMeets
<1>11. QED
  BY <1>1, <1>6, <1>8, <1>9, <1>10 DEF LogInv

\* An error stays.
LEMMA FirstStays == ASSUME SessionShape, [Next]_vars, first' = "none" PROVE first = "none"
<1>1. CASE Operate \/ UnderTest \/ WatchWake
  BY <1>1, PlanMoves DEF Advanced, Broken, Jumped, session
<1>2. CASE Disturb
  BY <1>2, DisturbMoves DEF session
<1>3. CASE CleanUp
  BY <1>3, CleanUpMoves
<1>4. QED
  BY <1>1, <1>2, <1>3 DEF Next, vars, session

\* The log of a session without an error grows in its order.
LEMMA LogKept == ASSUME SessionShape, LogInv, [Next]_vars PROVE LogInv'
<1>1. SUFFICES ASSUME kind' \in Measured, first' = "none" PROVE LogInv'
  BY DEF LogInv
<1>2. first = "none"
  BY <1>1, FirstStays
<1>3. kind' = kind
  BY PlanMoves, DisturbMoves, CleanUpMoves DEF Next, vars, session, Advanced, Broken, Jumped
<1>4. kind \in Measured /\ turns \in Turns
  BY <1>1, <1>2, <1>3 DEF LogInv
<1>5. MeasuredMove
  BY <1>1, <1>4, MeasuredMoves
<1>6. CASE UNCHANGED <<pc, points, turns>>
  BY <1>2, <1>3, <1>4, <1>6, LogStands
<1>7. CASE ~UNCHANGED <<pc, points, turns>>
  <2>1. Running
    BY <1>5, <1>7 DEF MeasuredMove
  <2>2. /\ kind = "memory" => pc \in 1..10
        /\ kind = "native" => pc \in 1..12
        /\ kind = "memory" => /\ Step \in Owners <=> pc <= 4
                              /\ Step = "llm" <=> pc = 4
                              /\ Step = "open" <=> pc = 5
                              /\ Step = "think" <=> pc \in {6, 8}
                              /\ Step = "speak" <=> pc \in {7, 9}
                              /\ Step = "close" <=> pc = 10
                              /\ Step \notin {"hear", "decide", "replace"}
        /\ kind = "native" => /\ Step \in Owners <=> pc <= 5
                              /\ Step = "llm" <=> pc = 5
                              /\ Step = "open" <=> pc = 6
                              /\ Step = "hear" <=> pc = 7
                              /\ Step = "think" <=> pc = 8
                              /\ Step = "speak" <=> pc = 9
                              /\ Step = "decide" <=> pc = 10
                              /\ Step = "replace" <=> pc = 11
                              /\ Step = "close" <=> pc = 12
    BY <1>4, <2>1, MeasuredStep
  <2>3. (kind = "native" \/ kind = "memory") /\ ~(kind = "native" /\ kind = "memory")
    BY <1>4 DEF Measured
  <2>4. CASE Step \in Owners \ {"llm"} /\ UNCHANGED <<points, turns>> /\ pc' = pc + 1
    <3>1. pc \in 1..12 /\ IF kind = "native" THEN pc < 5 ELSE pc < 4
      BY <2>2, <2>3, <2>4
    <3>2. QED
      BY <1>2, <1>3, <1>4, <2>4, <3>1, LogStands
  <2>5. CASE Step = "llm" /\ Adds(<<"engine_ready">>, turns.done) /\ turns' = turns /\ pc' = pc + 1
    <3>1. pc = (IF kind = "native" THEN 5 ELSE 4)
      BY <2>2, <2>3, <2>5
    <3>2. QED
      BY <1>2, <1>3, <1>4, <2>5, <3>1, EngineLogged
  <2>6. CASE Step = "open" /\ Adds(OpenLabels, turns.done) /\ turns' = turns /\ pc' = pc + 1
    <3>1. pc = (IF kind = "native" THEN 6 ELSE 5)
      BY <2>2, <2>3, <2>6
    <3>2. QED
      BY <1>2, <1>3, <1>4, <2>6, <3>1, OpenLogged
  <2>7. CASE /\ Step = "hear" /\ Adds(<<>>, turns.done) /\ pc' = pc + 1
             /\ turns' = [turns EXCEPT !.done = @ + 1]
    <3>1. kind = "native" /\ pc = 7 /\ pc' = 8
      BY <2>2, <2>3, <2>7
    <3>2. QED
      BY <1>2, <1>3, <2>7, <3>1, HearLogged
  <2>8. CASE /\ Step = "think" /\ pc' = pc + 1
             /\ \E said \in Answers :
                   /\ turns' = [turns EXCEPT !.said = said, !.done = NextIndex]
                   /\ IF said = "full" THEN points' = points ELSE Adds(GenerateLabels, NextIndex)
    <3>1. pc \in {6, 8} /\ (kind = "native" => pc = 8)
      BY <2>2, <2>3, <2>8
    <3>2. PICK said \in Answers :
             /\ turns' = [turns EXCEPT !.said = said, !.done = NextIndex]
             /\ IF said = "full" THEN points' = points ELSE Adds(GenerateLabels, NextIndex)
      BY <2>8
    <3>3. QED
      BY <1>2, <1>3, <1>4, <2>8, <3>1, <3>2, ThinkLogged
  <2>9. CASE Step = "speak" /\ Adds(SpeakLabels, turns.done) /\ turns' = turns /\ pc' = pc + 1
    <3>1. pc \in {7, 9} /\ (kind = "native" => pc = 9)
      BY <2>2, <2>3, <2>9
    <3>2. QED
      BY <1>2, <1>3, <1>4, <2>9, <3>1, SpeakLogged
  <2>10. CASE /\ Step = "close" /\ Adds(<<"post_session_close">>, turns.done) /\ turns' = turns
              /\ pc' = pc + 1
    <3>1. pc = (IF kind = "native" THEN 12 ELSE 10)
      BY <2>2, <2>3, <2>10
    <3>2. QED
      BY <1>2, <1>3, <1>4, <2>10, <3>1, CloseLogged
  <2>11. CASE /\ Step = "decide" /\ points' = points /\ turns' = Counted
              /\ pc' \in {7, 11} \/ (pc' = 12 /\ Counted.after >= 2)
    <3>1. kind = "native" /\ pc = 10
      BY <2>2, <2>3, <2>11
    <3>2. QED
      BY <1>2, <1>3, <2>11, <3>1, DecideLogged
  <2>12. CASE /\ Step = "replace" /\ pc' = 7 /\ Adds(ReplaceLabels, turns.done)
              /\ turns' = [turns EXCEPT !.replaced = TRUE]
    <3>1. kind = "native" /\ pc = 11
      BY <2>2, <2>3, <2>12
    <3>2. QED
      BY <1>2, <1>3, <2>12, <3>1, ReplaceLogged
  <2>13. QED
    BY <1>5, <1>7, <2>4, <2>5, <2>6, <2>7, <2>8, <2>9, <2>10, <2>11, <2>12 DEF MeasuredMove
<1>8. QED
  BY <1>6, <1>7


-----------------------------------------------------------------------------
\* Of a set of positions, the first.
LEMMA FirstIs ==
    ASSUME NEW rows \in Seq(Entries), NEW l, Found(rows, l) # {}
    PROVE  /\ FirstOf(rows, l) \in Found(rows, l) /\ FirstOf(rows, l) \in Nat
           /\ \A j \in Found(rows, l) : FirstOf(rows, l) <= j
<1>1. Found(rows, l) \subseteq Nat
  BY DEF Found
<1> DEFINE Less == {ss \in Nat \X Nat : ss[1] < ss[2]}
<1>2. IsWellFoundedOn(Less, Nat)
  BY NatLessThanWellFounded DEF OpToRel
<1>3. \A i, j \in Nat : i < j => <<i, j>> \in Less
  OBVIOUS
<1> HIDE DEF Less
<1>6. PICK i \in Found(rows, l) : \A j \in Found(rows, l) : ~(<<j, i>> \in Less)
  <2>1. PICK T : T = Found(rows, l)
    OBVIOUS
  <2>2. T \subseteq Nat /\ T # {}
    BY <1>1, <2>1
  <2>3. \E i \in T : \A j \in T : ~(<<j, i>> \in Less)
    BY <1>2, <2>2, WFMin
  <2>4. QED
    BY <2>1, <2>3
<1>4. ASSUME NEW j \in Found(rows, l) PROVE i <= j
  <2>1. i \in Nat /\ j \in Nat
    BY <1>1
  <2>2. ~(j < i)
    BY <1>3, <1>6, <2>1
  <2>3. QED
    BY <2>1, <2>2
<1>5. QED
  BY <1>1, <1>4 DEF FirstOf

\* A log that has come to its end is accepted.
LEMMA LogAccepted ==
    ASSUME LogInv, kind \in Measured, first = "none", pc = Len(Plan[kind]) + 1
    PROVE  Accepted(points)
<1>0. points \in Seq(Entries) /\ turns \in Turns /\ LogEnds /\ LogOrder /\ LogMeets
  BY DEF LogInv
<1>1. /\ points \in Seq(Entries) /\ turns \in Turns /\ Len(points) \in Nat
      /\ LogEnds /\ LogOrder /\ LogMeets
  BY <1>0
<1>2. pc = IF kind = "native" THEN 13 ELSE 11
  <2>1. CASE kind = "native"
    <3>1. Len(Plan[kind]) = 12
      BY <2>1, MeasuredPlans
    <3>2. QED
      BY <2>1, <3>1
  <2>2. CASE kind = "memory"
    <3>1. Len(Plan[kind]) = 10
      BY <2>2, MeasuredPlans
    <3>2. QED
      BY <2>2, <3>1
  <2>3. QED
    BY <2>1, <2>2 DEF Measured
<1>3. /\ Past(4, 5) /\ Past(5, 6) /\ Past(10, 12) /\ Past(6, 8) /\ Past(7, 9) /\ ~MidTurn
      /\ (kind = "native" => pc > 11) /\ (kind = "memory" \/ kind = "native")
  BY <1>2 DEF Past, MidTurn, Measured
<1>4. /\ Len(points) >= 3 /\ 1 \in DOMAIN points /\ 2 \in DOMAIN points /\ 3 \in DOMAIN points
      /\ points[1].label = "engine_ready" /\ points[2].label = "conversation_preparation"
      /\ points[3].label = "conversation_ready"
      /\ \A i \in DOMAIN points : points[i].label = "engine_ready" => i = 1
      /\ Found(points, "post_session_close") = {Len(points)}
  BY SMTT(60), <1>1, <1>3 DEF LogEnds
<1>5. GenerateMet /\ SpeechMet
  BY <1>1, <1>3 DEF LogMeets
<1>6. /\ 1 \in Found(points, "engine_ready") /\ 2 \in Found(points, "conversation_preparation")
      /\ 3 \in Found(points, "conversation_ready")
  BY <1>4 DEF Found
<1>7. \A l \in Required : Found(points, l) # {}
  BY <1>4, <1>5, <1>6 DEF Required, GenerateMet, SpeechMet, Met, SpeechLabels
<1>8. Found(points, "engine_ready") = {1}
  BY <1>4, <1>6 DEF Found
<1>9. /\ FirstOf(points, "conversation_preparation") < FirstOf(points, "conversation_ready")
      /\ FirstOf(points, "conversation_ready") < FirstOf(points, "pre_generate")
  <2>1. \A i \in Found(points, "conversation_ready") : i \in Nat /\ i > 2
    BY <1>1, <1>4 DEF Found
  <2>2. \A i \in Found(points, "pre_generate") : i \in Nat /\ i > 3
    BY <1>1, <1>4 DEF Found
  <2>3. /\ FirstOf(points, "conversation_preparation") \in Nat
        /\ FirstOf(points, "conversation_preparation") <= 2
    BY <1>1, <1>6, FirstIs
  <2>4. /\ FirstOf(points, "conversation_ready") \in Found(points, "conversation_ready")
        /\ FirstOf(points, "conversation_ready") <= 3
    BY <1>1, <1>6, FirstIs
  <2>5. FirstOf(points, "pre_generate") \in Found(points, "pre_generate")
    <3>1. Found(points, "pre_generate") # {}
      BY <1>7 DEF Required
    <3>2. QED
      BY <1>1, <3>1, FirstIs
  <2>6. QED
    BY <2>1, <2>2, <2>3, <2>4, <2>5
<1>10. \A i \in 1..(Len(points) - 1) : points[i].index <= points[i + 1].index
  BY <1>1 DEF LogOrder, Ascending
<1>11. WindowsClosed(points)
  <2>1. ASSUME NEW i \in DOMAIN points PROVE WindowClosed(points, points[i].index)
    <3>4. points[i] \in Entries
      BY <1>1
    <3>1. points[i].index \in Nat
      BY <3>4 DEF Entries
    <3>2. Spoken(points, points[i].index)
      BY SMTT(60), <1>1, <1>3, <3>1 DEF LogOrder
    <3>3. QED
      BY <3>2, SpokenIsClosed
  <2>2. QED
    BY <2>1 DEF WindowsClosed
<1>12. ReplacementsPaired(points)
  BY <1>1 DEF LogOrder
<1>13. QED
  BY <1>4, <1>7, <1>8, <1>9, <1>10, <1>11, <1>12 DEF Accepted


-----------------------------------------------------------------------------
\* The wake paths of a product with nothing wrong.
\* What these proofs need of their plans.
HoldsBack(k) ==
    \A i \in 1..Len(Plan[k]) :
       /\ Plan[k][i] = "quiet" =>
             "ack" \notin DoneAt(k, i) \/ (k # "W01" /\ "release" \notin DoneAt(k, i))
       /\ Plan[k][i] = "ack" => "ack" \notin DoneAt(k, i)
       /\ Plan[k][i] = "native" => "idle" \notin DoneAt(k, i)
       /\ Plan[k][i] = "unjoined" => /\ k # "W01" /\ {"idle", "native"} \subseteq DoneAt(k, i)
                                     /\ {"ack", "release"} \cap DoneAt(k, i) = {}

LEMMA BackPlans == ASSUME NEW k \in WakePaths PROVE HoldsBack(k)
<1> USE DEF Plan, Five, WakePaths, HoldsBack, DoneAt
<1>1. CASE k = "W01"
  BY <1>1
<1>2. CASE k = "W02"
  BY <1>2
<1>3. CASE k = "W03"
  BY <1>3
<1>4. CASE k = "W04"
  BY SMTT(60), <1>4
<1>5. QED
  BY <1>1, <1>2, <1>3, <1>4

\* A sound product listens once both barriers were passed, and no stamp comes after that.
PathSound ==
    kind \in WakePaths /\ product.defect = "none" =>
        /\ ~product.overtaken
        /\ product.join => kind = "W01" \/ "release" \in Done
        /\ product.open = "joined" => product.join
        /\ product.ready => product.open = "joined"
        /\ product.active => product.ready /\ "ack" \in Done
        /\ product.acked /\ "ack" \notin Done => product.due
        /\ "native" \in Done => product.open \in {"native", "joined", "closed"}
        /\ "idle" \notin Done => product.open # "closed"
        /\ "idle" \in Done /\ "native" \in Done => product.open \in {"joined", "closed"}

\* At a step that could refuse a product, a sound one is not refused.
LEMMA NotRefused ==
    ASSUME SessionShape, PathSound, product.defect = "none", WatchWake, ~Notice
    PROVE  Advanced
<1>1. kind \in WakePaths /\ (Advanced \/ Broken)
  BY WatchMoves
<1>2. SUFFICES ASSUME Broken PROVE FALSE
  BY <1>1
<1>3. \/ Step = "quiet" /\ product.active
      \/ Step = "active" /\ product.active /\ product.overtaken
      \/ Step = "unjoined" /\ (product.open # "closed" \/ product.active)
  BY <1>2 DEF WatchWake, Trigger, SeesOpening, SeesNative, SeesJoined, Release, Acknowledged, Quiet,
              ActivePath, ToIdle, Unjoined, Harness, Refuses, Advance, Goto, Broken, Running
<1>4. HoldsBack(kind) /\ pc \in 1..Len(Plan[kind]) /\ Step = Plan[kind][pc]
  BY <1>1, <1>2, BackPlans, Position DEF Broken, Step
<1>5. CASE Step = "quiet"
  <2>1. "ack" \notin Done \/ (kind # "W01" /\ "release" \notin Done)
    BY <1>4, <1>5 DEF HoldsBack, Done
  <2>2. QED
    BY <1>1, <1>3, <1>5, <2>1 DEF PathSound
<1>6. CASE Step = "active"
  BY <1>1, <1>3, <1>6 DEF PathSound
<1>7. CASE Step = "unjoined"
  <2>1. /\ kind # "W01" /\ "idle" \in Done /\ "native" \in Done
        /\ "ack" \notin Done /\ "release" \notin Done
    BY <1>4, <1>7 DEF HoldsBack, Done
  <2>2. QED
    BY <1>1, <1>3, <1>7, <2>1 DEF PathSound
<1>8. QED
  BY <1>3, <1>5, <1>6, <1>7

\* The marks of a path that matter to it.
Turnings == {"ack", "release", "native", "idle"}

\* A product that stands, while none of them is passed.
LEMMA SoundStill ==
    ASSUME PathSound, UNCHANGED <<kind, product>>, NEW s, s \notin Turnings,
           Done' = Done \/ Done' = Done \cup {s}
    PROVE  PathSound'
  BY DEF PathSound, Turnings

\* A sound product keeps waiting for both.
LEMMA SoundKept ==
    ASSUME SessionShape, PathShape, PathSound, [Next]_vars
    PROVE  PathSound'
<1>0. SUFFICES ASSUME kind' \in WakePaths, product'.defect = "none" PROVE PathSound'
  BY DEF PathSound
<1>1. CASE UNCHANGED product /\ ~(UnderTest \/ WatchWake)
  <2>1. CASE Operate /\ ~Jumped
    <3>1. \/ Advanced /\ Step \notin Turnings
          \/ Broken
      <4>1. Owners \cap Turnings = {}
        BY DEF Owners, Five, Turnings
      <4>2. Advanced \/ Broken
        BY <2>1, TalkMoves, TurnMoves, HelperMoves, OwnerMoves DEF Operate
      <4>3. Advanced /\ ~Broken => Step \notin Turnings
        BY <2>1, <4>1, TalkMoves, TurnMoves, HelperMoves, OwnerMoves DEF Operate, Turnings
      <4>4. QED
        BY <4>2, <4>3
    <3>2. CASE Advanced /\ Step \notin Turnings
      BY <1>1, <3>2, DoneGrows, SoundStill DEF Advanced
    <3>3. CASE Broken
      <4>1. "none" \notin Turnings /\ Done' = Done
        BY <3>3, DoneKept DEF Turnings, Broken
      <4>2. QED
        BY <1>1, <3>3, <4>1, SoundStill DEF Broken
    <3>4. QED
      BY <3>1, <3>2, <3>3
  <2>2. CASE Jumped
    BY <1>1, <2>2 DEF Jumped, PathSound, WakePaths
  <2>3. CASE Disturb \/ CleanUp \/ UNCHANGED vars
    <3>1. UNCHANGED <<kind, pc>> /\ "none" \notin Turnings
      BY <2>3, DisturbMoves, CleanUpMoves DEF vars, session, Turnings
    <3>2. QED
      BY <1>1, <3>1, DoneKept, SoundStill
  <2>4. QED
    BY <1>1, <2>1, <2>2, <2>3 DEF Next
<1>2. CASE UnderTest \/ Notice
  <2>1. UNCHANGED <<kind, pc>> /\ Done' = Done /\ kind \in WakePaths
    BY <1>2, TestMoves, DoneKept DEF session
  <2>2. CASE OpenStarts
    BY <1>0, <2>1, <2>2 DEF OpenStarts, Moves, PathShape, PathSound
  <2>3. CASE OpenNative
    BY <1>0, <2>1, <2>3 DEF OpenNative, Stamped, Moves, PathShape, PathSound
  <2>4. CASE OpenJoins
    BY <1>0, <2>1, <2>4 DEF OpenJoins, Stamped, Moves, PathShape, PathSound
  <2>5. CASE ReadyHandled
    BY <1>0, <2>1, <2>5 DEF ReadyHandled, Moves, PathShape, PathSound
  <2>8. CASE AckHandled
    BY <1>0, <2>1, <2>8 DEF AckHandled, Moves, PathShape, PathSound
  <2>9. CASE Notice
    BY <1>0, <2>1, <2>9 DEF Notice, Moves, PathShape, PathSound
  <2>6. CASE Listens
    <3>1. /\ product' = [product EXCEPT !.active = TRUE,
                                        !.early = ~(product.acked /\ product.open = "joined")]
          /\ ~product.due
          /\ product.defect = "none" => product.acked /\ product.ready
      BY <2>6 DEF Listens, Moves
    <3>2. /\ product.defect = "none" /\ product'.active /\ product'.open = product.open
          /\ product'.overtaken = product.overtaken /\ product'.join = product.join
          /\ product'.ready = product.ready /\ product'.acked = product.acked
          /\ product'.due = product.due
      BY <1>0, <3>1 DEF PathShape
    <3>3. QED
      BY <2>1, <3>1, <3>2 DEF PathSound
  <2>7. QED
    BY <1>2, <2>2, <2>3, <2>4, <2>5, <2>6, <2>8, <2>9 DEF UnderTest
<1>3. CASE WatchWake /\ ~Notice /\ Advanced
  <2>1. /\ kind' = kind /\ kind \in WakePaths /\ Done' = Done \cup {Step} /\ Running
        /\ HoldsBack(kind) /\ pc \in 1..Len(Plan[kind])
    BY <1>3, WatchMoves, DoneGrows, BackPlans, Position DEF Advanced
  <2>2. CASE Trigger
    <3>1. Step = "trigger" /\ product' = [product EXCEPT !.state = "wake"]
      BY <2>2 DEF Trigger, Harness
    <3>2. QED
      BY <1>0, <2>1, <3>1 DEF PathShape, PathSound
  <2>3. CASE SeesOpening \/ Quiet \/ SeesJoined \/ ActivePath \/ Unjoined
    <3>1. Step \notin Turnings /\ product' = product
      BY <2>3 DEF SeesOpening, Quiet, SeesJoined, ActivePath, Unjoined, Harness, Refuses, aside,
                  Turnings
    <3>2. QED
      BY <2>1, <3>1, SoundStill
  <2>4. CASE SeesNative
    <3>1. Step = "native" /\ product' = product /\ product.open \in {"native", "joined"}
      BY <2>4 DEF SeesNative, Harness
    <3>2. "idle" \notin Done
      BY <2>1, <3>1 DEF HoldsBack, Done, Step
    <3>3. QED
      BY <1>0, <2>1, <3>1, <3>2 DEF PathSound
  <2>5. CASE Release
    <3>1. Step = "release" /\ product' = [product EXCEPT !.start = TRUE, !.join = TRUE]
      BY <2>5 DEF Release, Harness
    <3>2. QED
      BY <1>0, <2>1, <3>1 DEF PathShape, PathSound
  <2>6. CASE Acknowledged
    <3>1. /\ Step = "ack" /\ product.acked
          /\ product' = Stamped([product EXCEPT !.due = FALSE])
      BY <2>6 DEF Acknowledged, Harness
    <3>2. "ack" \notin Done
      BY <2>1, <3>1 DEF HoldsBack, Done, Step
    <3>3. QED
      BY <1>0, <2>1, <3>1, <3>2 DEF Stamped, PathShape, PathSound
  <2>7. CASE ToIdle
    <3>1. /\ Step = "idle"
          /\ product' = [product EXCEPT !.state = "idle",
                                        !.open = IF @ = "native" THEN "closed" ELSE @]
      BY <2>7 DEF ToIdle, Harness
    <3>2. /\ product'.open = (IF product.open = "native" THEN "closed" ELSE product.open)
          /\ product'.defect = product.defect
          /\ product'.overtaken = product.overtaken /\ product'.join = product.join
          /\ product'.ready = product.ready /\ product'.active = product.active
          /\ product'.acked = product.acked /\ product'.due = product.due
      BY <3>1 DEF PathShape
    <3>3. QED
      BY <1>0, <2>1, <3>1, <3>2 DEF PathSound
  <2>8. QED
    BY <1>3, <2>2, <2>3, <2>4, <2>5, <2>6, <2>7 DEF WatchWake
<1>4. CASE UNCHANGED product /\ WatchWake /\ ~Notice /\ ~Advanced
  <2>1. Broken /\ "none" \notin Turnings /\ Done' = Done
    BY <1>4, WatchMoves, DoneKept DEF Broken, Turnings
  <2>2. QED
    BY <1>4, <2>1, SoundStill DEF Broken
<1>5. QED
  BY <1>1, <1>2, <1>3, <1>4, ProductMoves, WatchMoves


-----------------------------------------------------------------------------
\* A session that meets no fault and no cancellation.
Undisturbed == spent.faults = 0 /\ spent.interrupts = 0
Sound == Undisturbed /\ product.defect = "none"

\* What the proofs need of the plans: every plan starts with the three adapters.
StartsAll(k) ==
    /\ \A i \in 1..Len(Plan[k]) :
          /\ Plan[k][i] \in Owners \/ Natives \subseteq DoneAt(k, i)
          /\ "force" \notin DoneAt(k, i)
          /\ Plan[k][i] \in {"hold", "force", "rebuild"} => "rebuild" \notin DoneAt(k, i)
    /\ Natives \subseteq DoneAt(k, Len(Plan[k]) + 1)
    /\ "force" \in DoneAt(k, Len(Plan[k]) + 1) => k = "forced"

LEMMA StartingPlans == ASSUME NEW k \in Kinds PROVE StartsAll(k)
<1> USE DEF Plan, Five, Owners, Natives, StartsAll, DoneAt
<1>1. CASE k \in {"semantic", "fixed", "lifecycle", "memory"}
  <2>1. CASE k = "semantic"
    BY SMTT(60), <2>1
  <2>2. CASE k = "fixed"
    BY SMTT(60), <2>2
  <2>3. CASE k = "lifecycle"
    BY SMTT(60), <2>3
  <2>4. CASE k = "memory"
    BY SMTT(60), <2>4
  <2>5. QED
    BY <1>1, <2>1, <2>2, <2>3, <2>4
<1>2. CASE k \in {"ready", "resource", "forced", "shutdown"}
  <2>1. CASE k = "ready"
    BY SMTT(60), <2>1, SubSeqProperties
  <2>2. CASE k = "resource"
    BY SMTT(60), <2>2
  <2>3. CASE k = "forced"
    BY SMTT(60), <2>3
  <2>4. CASE k = "shutdown"
    BY SMTT(60), <2>4
  <2>5. QED
    BY <1>2, <2>1, <2>2, <2>3, <2>4
<1>3. CASE k \in {"normal", "recovery", "native"}
  <2>1. CASE k = "normal"
    BY SMTT(60), <2>1
  <2>2. CASE k = "recovery"
    BY SMTT(60), <2>2
  <2>3. CASE k = "native"
    BY SMTT(60), <2>3
  <2>4. QED
    BY <1>3, <2>1, <2>2, <2>3
<1>4. CASE k \in WakePaths
  <2>1. CASE k = "W01"
    BY SMTT(60), <2>1
  <2>2. CASE k = "W02"
    BY SMTT(60), <2>2
  <2>3. CASE k = "W03"
    BY SMTT(60), <2>3
  <2>4. CASE k = "W04"
    BY SMTT(60), <2>4
  <2>5. QED
    BY <1>4, <2>1, <2>2, <2>3, <2>4 DEF WakePaths
<1>5. k \in DOMAIN Plan
  BY SessionKinds
<1>6. DOMAIN Plan = {"semantic", "fixed", "lifecycle", "memory", "ready", "resource",
                      "forced", "shutdown", "normal", "recovery", "native", "W01", "W02",
                      "W03", "W04"}
  BY DEF Plan
<1> HIDE DEF Plan, Five, Owners, Natives, StartsAll, DoneAt
<1>7. QED
  BY SMTT(60), <1>1, <1>2, <1>3, <1>4, <1>5, <1>6 DEF WakePaths

\* The children of a session that nothing disturbs: there from their owner's start.
Manned == \A n \in Natives \cap Done : Living(n) \/ (n = "llm" /\ "force" \in Done)

SoundInv ==
    Sound =>
        /\ spent.kills = 0 /\ clean /\ ~noise /\ helpers.manager # "stuck"
        /\ helpers.sampler # "failed" /\ first \in {"none", "dialogue"}
        /\ phase \in {"running", "leaving"} /\ first = "none" =>
              Manned /\ (kind \in HeldKinds /\ "hold" \in Done => {1, 2, 3} \subseteq held)
        /\ phase = "cleaning" /\ first = "none" => Enough
        /\ phase = "ended" /\ first = "none" => outcome = "result"

\* The counts only grow: a sound state was sound, and nothing was counted on the way.
LEMMA SoundBefore ==
    ASSUME OwnersShape, SessionShape, PathShape, [Next]_vars, Sound'
    PROVE  Sound /\ ~Fault /\ ~Interrupt /\ ~Unkilled /\ spent' = spent
<1>1. /\ spent.faults \in Nat /\ spent.interrupts \in Nat /\ spent.kills \in Nat
      /\ spent \in Counts
  BY DEF OwnersShape, Counts
<1>2. ~Fault /\ ~Interrupt /\ ~Unkilled
  <2>1. spent'.faults = 0 /\ spent'.interrupts = 0
    BY DEF Sound, Undisturbed
  <2>2. ASSUME Fault PROVE FALSE
    <3>1. spent'.faults = spent.faults + 1
      BY <1>1, <2>2 DEF Fault, Counts
    <3>2. QED
      BY <1>1, <2>1, <3>1
  <2>3. ASSUME Interrupt PROVE FALSE
    <3>1. spent'.interrupts = spent.interrupts + 1
      BY <1>1, <2>3 DEF Interrupt, Counts
    <3>2. QED
      BY <1>1, <2>1, <3>1
  <2>4. ASSUME Unkilled PROVE FALSE
    <3>1. spent'.faults = spent.faults + 1
      BY <1>1, <2>4 DEF Unkilled, Counts
    <3>2. QED
      BY <1>1, <2>1, <3>1
  <2>5. QED
    BY <2>2, <2>3, <2>4
<1>3. spent' = spent
  <2>1. ~Disturb
    BY <1>2, DisturbMoves
  <2>2. CASE CleanUp
    BY <1>2, <2>2 DEF CleanUp, Leave, JoinSampler, StopOwner, CleanupExpires, Finish
  <2>3. CASE Operate
    BY <1>2, <2>3, TalkMoves, TurnMoves, HelperMoves
       DEF Operate, StartOwner, OperationFails, Hold, ForcedCleanup, Rebuild, Keep, aside
  <2>4. CASE UnderTest \/ WatchWake \/ UNCHANGED vars
    BY <2>4, TestMoves, WatchMoves DEF vars
  <2>5. QED
    BY <2>1, <2>2, <2>3, <2>4 DEF Next
<1>4. product'.defect = product.defect
  <2>1. CASE UNCHANGED product
    BY <2>1
  <2>2. CASE UnderTest \/ Notice
    BY <2>2 DEF UnderTest, OpenStarts, OpenNative, OpenJoins, ReadyHandled, AckHandled, Listens,
                Notice, Moves, Stamped, PathShape
  <2>3. CASE WatchWake /\ ~Notice /\ Advanced
    <3>1. \/ product' = product
          \/ product' = [product EXCEPT !.state = "wake"]
          \/ product' = [product EXCEPT !.start = TRUE, !.join = TRUE]
          \/ product' = Stamped([product EXCEPT !.due = FALSE])
          \/ product' = [product EXCEPT !.state = "idle",
                                        !.open = IF @ = "native" THEN "closed" ELSE @]
      BY <2>3 DEF WatchWake, Trigger, SeesOpening, SeesNative, SeesJoined, Release, Acknowledged,
                  Quiet, ActivePath, ToIdle, Unjoined, Harness, Refuses, aside
    <3>2. QED
      BY <3>1 DEF Stamped, PathShape
  <2>4. QED
    BY <2>1, <2>2, <2>3, ProductMoves
<1>5. QED
  BY <1>2, <1>3, <1>4 DEF Sound, Undisturbed


\* What is there at a step of such a session.
LEMMA SoundStep ==
    ASSUME OwnersShape, SessionShape, ChildrenInv, SoundInv, Sound, Running
    PROVE  /\ Manned /\ ~noise /\ first = "none" /\ pc \in 1..Len(Plan[kind])
           /\ kind \in HeldKinds /\ "hold" \in Done => {1, 2, 3} \subseteq held
           /\ Step \notin Owners => \A n \in Natives : Living(n) /\ child[n] # 0
           /\ Step \in DOMAIN Needs => Works
           /\ Step \in {"hold", "force", "rebuild"} =>
                 child.asr = 1 /\ child.tts = 2 /\ child.llm = 3
<1>1. /\ pc \in 1..Len(Plan[kind]) /\ Step = Plan[kind][pc] /\ kind \in Kinds
      /\ phase = "running" /\ first = "none"
  BY Position DEF SessionShape, Running, Step
<1>2. Manned /\ ~noise /\ (kind \in HeldKinds /\ "hold" \in Done => {1, 2, 3} \subseteq held)
  BY <1>1 DEF SoundInv
<1>3. StartsAll(kind)
  BY <1>1, StartingPlans
<1>4. /\ Step \in Owners \/ Natives \subseteq Done
      /\ "force" \notin Done
      /\ Step \in {"hold", "force", "rebuild"} => "rebuild" \notin Done
  BY <1>1, <1>3 DEF StartsAll, Done
<1>5. ASSUME Step \notin Owners, NEW n \in Natives PROVE Living(n) /\ child[n] # 0
  <2>1. Living(n)
    BY <1>2, <1>4, <1>5 DEF Manned
  <2>2. QED
    BY <2>1 DEF Living, OwnersShape
<1>6. DOMAIN Needs \cap Owners = {} /\ \A s \in DOMAIN Needs : Needs[s] \subseteq Natives
  <2>1. \A s \in DOMAIN Needs : Needs[s] \subseteq Natives
    BY DEF Needs, Natives
  <2>2. DOMAIN Needs \cap Owners = {}
    <3>1. Owners = {"audio_input", "audio_output", "asr", "tts", "llm"}
      BY DEF Owners, Five
    <3>2. \A s \in Owners : s \notin DOMAIN Needs
      BY <3>1 DEF Needs
    <3>3. QED
      BY <3>2
  <2>3. QED
    BY <2>1, <2>2
<1>7. Step \in DOMAIN Needs => Works
  BY <1>5, <1>6 DEF Works
<1>8. ASSUME Step \in {"hold", "force", "rebuild"}
      PROVE  child.asr = 1 /\ child.tts = 2 /\ child.llm = 3
  <2>1. Step \notin Owners
    BY <1>8 DEF Owners, Five
  <2>2. \A n \in Natives : child[n] = Newest[n]
    BY <1>1, <1>4, <1>5, <1>8, <2>1 DEF ChildrenInv
  <2>3. QED
    BY <2>2 DEF Natives, Newest
<1>9. QED
  BY <1>1, <1>2, <1>5, <1>7, <1>8

\* Three children are three.
LEMMA ThreeChildren ==
    /\ Cardinality({1, 2, 3}) = 3
    /\ \A s \in SUBSET (0..4) : {1, 2, 3} \subseteq s => Cardinality(s) >= 3
<1>1. IsFiniteSet({1}) /\ Cardinality({1}) = 1
  BY FS_Singleton
<1>2. IsFiniteSet({1} \cup {2}) /\ Cardinality({1} \cup {2}) = 2
  BY <1>1, FS_AddElement
<1>3. Cardinality(({1} \cup {2}) \cup {3}) = 3
  BY <1>2, FS_AddElement
<1>6. ({1} \cup {2}) \cup {3} = {1, 2, 3}
  OBVIOUS
<1>7. Cardinality({1, 2, 3}) = 3
  BY <1>3, <1>6
<1>4. ASSUME NEW s \in SUBSET (0..4), {1, 2, 3} \subseteq s PROVE Cardinality(s) >= 3
  <2>1. IsFiniteSet(s)
    <3>1. s \in SUBSET Nat /\ \A c \in s : c <= 4
      BY <1>4
    <3>2. QED
      BY <3>1, FS_BoundedSetOfNaturals
  <2>2. Cardinality({1, 2, 3}) <= Cardinality(s)
    BY <1>4, <2>1, FS_Subset
  <2>3. Cardinality(s) \in Nat
    BY <2>1, FS_CardinalityType
  <2>4. QED
    BY <1>7, <2>2, <2>3
<1>5. QED
  BY <1>4, <1>7

\* A step of such a session leads on, or into a dialogue that is refused.
SoundMove ==
    /\ clean' = clean /\ ~noise' /\ helpers'.manager # "stuck" /\ helpers'.sampler # "failed"
    /\ phase' \in {"running", "leaving"} /\ first' \in {"none", "dialogue"}
    /\ first' = "none" => /\ Manned'
                          /\ kind' \in HeldKinds /\ "hold" \in Done' => {1, 2, 3} \subseteq held'

\* The steps that leave the children as they are.
LEMMA MannedStays ==
    ASSUME OwnersShape, SessionShape, ChildrenInv, SoundInv, Sound, Running, Step \notin Owners,
           UNCHANGED <<child, alive, held>>, Advanced \/ Jumped, Step # "hold"
    PROVE  /\ first' = "none" /\ phase' = "running" /\ Manned'
           /\ kind' \in HeldKinds /\ "hold" \in Done' => {1, 2, 3} \subseteq held'
<1>1. /\ \A n \in Natives : Living(n)
      /\ kind \in HeldKinds /\ "hold" \in Done => {1, 2, 3} \subseteq held
      /\ first = "none" /\ phase = "running"
  BY SoundStep DEF Running
<1>2. Manned'
  BY <1>1 DEF Manned, Living
<1>3. kind' = kind /\ first' = "none" /\ phase' = "running"
  BY <1>1 DEF Advanced, Jumped
<1>4. CASE Advanced
  BY <1>1, <1>2, <1>3, <1>4, DoneGrows
<1>5. CASE Jumped
  BY <1>2, <1>3, <1>5 DEF Jumped, HeldKinds, Sampled
<1>6. QED
  BY <1>4, <1>5

\* The steps of the plan.
LEMMA SoundOperates ==
    ASSUME OwnersShape, SessionShape, HelpersShape, ChildrenInv, SoundInv, Sound,
           ~Fault, ~Interrupt, ~Unkilled, Operate
    PROVE  SoundMove
<1>0. /\ Running
      /\ helpers.manager # "stuck" /\ helpers.sampler # "failed"
      /\ helpers \in [manager : {"off", "on", "stuck"}, sampler : {"off", "on", "failed"}]
  <2>1. Running
    BY TalkMoves, TurnMoves, HelperMoves, OwnerMoves DEF Operate, Advanced, Broken, Jumped
  <2>2. QED
    BY <2>1 DEF SoundInv, HelpersShape
<1>1. /\ Manned /\ ~noise /\ first = "none" /\ pc \in 1..Len(Plan[kind])
      /\ kind \in HeldKinds /\ "hold" \in Done => {1, 2, 3} \subseteq held
      /\ Step \notin Owners => \A n \in Natives : Living(n) /\ child[n] # 0
      /\ Step \in DOMAIN Needs => Works
      /\ Step \in {"hold", "force", "rebuild"} =>
            child.asr = 1 /\ child.tts = 2 /\ child.llm = 3
  BY <1>0, SoundStep
<1>11. phase = "running"
  BY <1>0 DEF Running
<1>2. CASE StartOwner
  <2>1. /\ Spawned(Step) /\ Advance /\ Step \in Owners
        /\ UNCHANGED <<held, clean, noise, helpers>>
    BY <1>0, <1>2 DEF StartOwner
  <2>2. Advanced /\ Done' = Done \cup {Step} /\ kind' = kind /\ first' = first /\ phase' = phase
    BY <1>0, <2>1, DoneGrows DEF Advanced, Advance, Goto
  <2>3. ASSUME NEW n \in Natives \cap Done'
        PROVE  Living(n)' \/ (n = "llm" /\ "force" \in Done')
    <3>1. CASE n = Step
      BY <2>1, <3>1 DEF Spawned, Living, OwnersShape
    <3>2. CASE n # Step
      <4>1. n \in Done /\ alive \subseteq alive' /\ child'[n] = child[n]
        BY <2>1, <2>2, <2>3, <3>2 DEF Spawned, OwnersShape
      <4>2. QED
        BY <1>1, <2>2, <2>3, <4>1 DEF Manned, Living
    <3>3. QED
      BY <3>1, <3>2
  <2>4. "hold" \notin Owners
    BY DEF Owners, Five
  <2>5. QED
    BY <1>0, <1>1, <1>11, <2>1, <2>2, <2>3, <2>4 DEF SoundMove, Manned
<1>3. CASE OperationFails
  BY <1>1, <1>3 DEF OperationFails
<1>4. CASE Open \/ Hear \/ Timing \/ Think \/ Speak \/ Close \/ ManagedSession
  <2>1. Advanced /\ Step \notin Owners /\ Step # "hold" /\ UNCHANGED <<owners, helpers>>
    BY <1>4, TalkMoves DEF Owners, Five
  <2>2. ~noise'
    BY <1>1, <1>4 DEF Open, Hear, Timing, Think, Speak, Close, ManagedSession, Talk, aside
  <2>3. QED
    BY <1>0, <2>1, <2>2, MannedStays DEF SoundMove, owners
<1>5. CASE Decide \/ Replace
  <2>1. /\ Jumped \/ Broken
        /\ UNCHANGED <<owners, helpers>> /\ Step \in {"decide", "replace"} /\ noise' = noise
    BY <1>5, TurnMoves DEF Decide, Replace, Works
  <2>2. Step \notin Owners /\ Step # "hold"
    BY <2>1 DEF Owners, Five
  <2>3. CASE Jumped
    BY <1>0, <1>1, <2>1, <2>2, <2>3, MannedStays DEF SoundMove, owners
  <2>4. CASE ~Jumped
    <3>1. Broken
      BY <2>1, <2>4
    <3>2. first' = "dialogue"
      BY <1>1, <1>5, <3>1 DEF Decide, Replace, Goto, Breaks, Broken
    <3>3. QED
      BY <1>0, <1>1, <2>1, <3>1, <3>2 DEF SoundMove, Broken, owners
  <2>5. QED
    BY <2>3, <2>4
<1>6. CASE Hold
  <2>1. /\ Step = "hold" /\ held' = Attached
        /\ IF Cardinality(Attached) = 3 THEN Advance ELSE Breaks("failed")
        /\ UNCHANGED <<noise, helpers, child, alive, clean>>
    BY <1>6 DEF Hold, aside
  <2>2. Attached = {1, 2, 3}
    BY <1>1, <2>1 DEF Attached, Natives
  <2>3. Cardinality({1, 2, 3}) = 3
    BY ThreeChildren
  <2>4. Advanced /\ Done' = Done \cup {Step} /\ kind' = kind /\ first' = first /\ phase' = phase
    BY <1>0, <2>1, <2>2, <2>3, DoneGrows DEF Advanced, Advance, Goto
  <2>5. Manned'
    <3>1. Step \notin Owners
      BY <2>1 DEF Owners, Five
    <3>2. QED
      BY <1>1, <2>1, <3>1 DEF Manned, Living
  <2>6. QED
    BY <1>0, <1>1, <1>11, <2>1, <2>2, <2>4, <2>5 DEF SoundMove
<1>7. CASE ForcedCleanup
  <2>1. /\ Step = "force" /\ child' = [child EXCEPT !.llm = 0] /\ alive' = alive \ {child.llm}
        /\ UNCHANGED <<held, clean, noise, helpers>> /\ Advance
    BY <1>7 DEF ForcedCleanup, stopping, aside
  <2>2. Advanced /\ Done' = Done \cup {Step} /\ kind' = kind /\ first' = first /\ phase' = phase
    BY <1>0, <2>1, DoneGrows DEF Advanced, Advance, Goto
  <2>3. Step \notin Owners
    BY <2>1 DEF Owners, Five
  <2>4. ASSUME NEW n \in Natives, n # "llm" PROVE Living(n)'
    <3>1. child'[n] = child[n] /\ child[n] # child.llm /\ child[n] \in alive
      BY <1>1, <2>1, <2>3, <2>4 DEF Natives, OwnersShape, Living
    <3>2. QED
      BY <2>1, <3>1 DEF Living
  <2>5. Manned'
    BY <2>1, <2>2, <2>4 DEF Manned
  <2>6. QED
    BY <1>0, <1>1, <1>11, <2>1, <2>2, <2>5 DEF SoundMove
<1>8. CASE StartSampler \/ StartManager \/ Quit
  <2>1. /\ Advanced /\ UNCHANGED owners /\ noise' = noise
        /\ Step \in {"sampler", "manager", "quit"}
        /\ \/ helpers' = [helpers EXCEPT !.sampler = "on"]
           \/ helpers' = [helpers EXCEPT !.manager = "on"]
           \/ helpers' = [helpers EXCEPT !.manager = "off"]
    BY <1>8, HelperMoves DEF StartSampler, StartManager, Quit
  <2>2. Step \notin Owners /\ Step # "hold"
    BY <2>1 DEF Owners, Five
  <2>3. helpers'.manager # "stuck" /\ helpers'.sampler # "failed"
    BY <1>0, <2>1
  <2>4. QED
    BY <1>0, <1>1, <2>1, <2>2, <2>3, MannedStays DEF SoundMove, owners
<1>9. CASE Rebuild
  <2>1. /\ Step = "rebuild" /\ child' = [child EXCEPT !.llm = 4]
        /\ alive' = (alive \ {child.llm}) \cup {4} /\ Advance
        /\ UNCHANGED <<held, clean, noise, helpers>>
    BY <1>9 DEF Rebuild, stopping, aside
  <2>2. Advanced /\ Done' = Done \cup {Step} /\ kind' = kind /\ first' = first /\ phase' = phase
    BY <1>0, <2>1, DoneGrows DEF Advanced, Advance, Goto
  <2>3. Step \notin Owners
    BY <2>1 DEF Owners, Five
  <2>4. ASSUME NEW n \in Natives PROVE Living(n)'
    <3>1. CASE n = "llm"
      BY <2>1, <3>1 DEF Living, OwnersShape, Natives
    <3>2. CASE n # "llm"
      <4>1. child'[n] = child[n] /\ child[n] # child.llm /\ child[n] \in alive
        BY <1>1, <2>1, <2>3, <2>4, <3>2 DEF Natives, OwnersShape, Living
      <4>2. QED
        BY <2>1, <4>1 DEF Living
    <3>3. QED
      BY <3>1, <3>2
  <2>5. Manned'
    BY <2>4 DEF Manned
  <2>6. QED
    BY <1>0, <1>1, <1>11, <2>1, <2>2, <2>5 DEF SoundMove
<1>10. CASE Keep
  <2>1. /\ Step = "keep" /\ held' = held \cup ({child.llm} \ {0})
        /\ IF child.llm # 0 THEN Advance ELSE Breaks("failed")
        /\ UNCHANGED <<noise, helpers, child, alive, clean>>
    BY <1>10 DEF Keep, aside
  <2>2. Step \notin Owners
    BY <2>1 DEF Owners, Five
  <2>3. (\A n \in Natives : Living(n)) /\ child.llm # 0
    BY <1>1, <2>2 DEF Natives
  <2>4. Advanced /\ Done' = Done \cup {Step} /\ kind' = kind /\ first' = first /\ phase' = phase
    BY <1>0, <2>1, <2>3, DoneGrows DEF Advanced, Advance, Goto
  <2>5. Manned'
    BY <2>1, <2>3 DEF Manned, Living
  <2>6. QED
    BY <1>0, <1>1, <1>11, <2>1, <2>4, <2>5 DEF SoundMove
<1>12. QED
  BY <1>2, <1>3, <1>4, <1>5, <1>6, <1>7, <1>8, <1>9, <1>10 DEF Operate

\* The steps of the product, and what the harness sees of them.
LEMMA SoundWatches ==
    ASSUME OwnersShape, SessionShape, HelpersShape, ChildrenInv, PathSound, SoundInv, Sound,
           UnderTest \/ WatchWake
    PROVE  SoundMove
<1>1. CASE UnderTest \/ Notice
  <2>1. UNCHANGED <<kind, pc, phase, first, child, alive, held, clean, helpers, noise>>
    BY <1>1, TestMoves DEF session, owners, UnderTest, OpenStarts, OpenNative, OpenJoins,
                           ReadyHandled, AckHandled, Listens, Notice, Moves
  <2>2. Done' = Done /\ phase = "running" /\ first = "none"
    BY <1>1, <2>1, DoneKept, TestMoves DEF SessionShape
  <2>3. QED
    BY <2>1, <2>2 DEF SoundInv, SoundMove, Manned, Living
<1>2. CASE WatchWake /\ ~Notice
  <2>1. Advanced /\ UNCHANGED <<owners, helpers, noise>> /\ Step \in WatchSteps
    <3>1. Advanced
      BY <1>2, NotRefused DEF Sound
    <3>2. noise' = noise
      BY <1>2 DEF WatchWake, Trigger, SeesOpening, SeesNative, SeesJoined, Release, Acknowledged,
                  Quiet, ActivePath, ToIdle, Unjoined, Harness, Refuses, aside
    <3>3. QED
      BY <1>2, <3>1, <3>2, WatchMoves
  <2>2. Step \notin Owners /\ Step # "hold" /\ Running
    BY <2>1 DEF Owners, Five, WatchSteps, Advanced
  <2>3. ~noise /\ helpers.manager # "stuck" /\ helpers.sampler # "failed"
    BY DEF SoundInv
  <2>4. QED
    BY <2>1, <2>2, <2>3, MannedStays DEF SoundMove, owners
<1>3. QED
  BY <1>1, <1>2

\* What the cleanup looks at is enough: every child was there.
LEMMA EnoughThere ==
    ASSUME OwnersShape, SessionShape, ChildrenInv, SoundInv, Sound,
           Complete \/ phase = "leaving", first = "none", held' = Handles, kind' = kind
    PROVE  Enough'
<1>1. /\ kind \in Kinds /\ Whole /\ phase \in {"running", "leaving"}
      /\ pc = Len(Plan[kind]) + 1
  <2>1. Whole /\ phase \in {"running", "leaving"}
    BY DEF SessionShape, Complete, Whole
  <2>2. kind \in Kinds /\ Len(Plan[kind]) \in Nat /\ pc \in 1..(Len(Plan[kind]) + 1)
    BY Plans DEF SessionShape
  <2>3. QED
    BY <2>1, <2>2 DEF Whole
<1>2. Manned /\ (kind \in HeldKinds /\ "hold" \in Done => {1, 2, 3} \subseteq held)
  BY <1>1 DEF SoundInv
<1>3. Natives \subseteq Done /\ ("force" \in Done => kind = "forced")
  <2>1. StartsAll(kind)
    BY <1>1, StartingPlans
  <2>2. QED
    BY <1>1, <2>1 DEF StartsAll, Done
<1>4. /\ Handles \subseteq 0..4
      /\ kind \in HeldKinds => Handles = held
      /\ kind \notin HeldKinds => Attached \subseteq Handles
  BY HandlesCover
<1>5. CASE kind \in HeldKinds
  <2>1. {1, 2, 3} \subseteq held' /\ held' \subseteq 0..4
    BY <1>1, <1>2, <1>4, <1>5, WholeIsHeld
  <2>2. Cardinality(held') >= 3 /\ held' # {}
    BY <2>1, ThreeChildren
  <2>3. kind # "semantic" /\ kind # "native" /\ kind' \in HeldKinds
    BY <1>5 DEF HeldKinds, Sampled
  <2>4. QED
    BY <2>2, <2>3 DEF Enough
<1>6. CASE kind \notin HeldKinds
  <2>1. kind # "forced" /\ kind \notin Sampled
    BY <1>6 DEF HeldKinds, Sampled
  <2>2. \A n \in Natives : child[n] # 0
    BY <1>2, <1>3, <2>1 DEF Manned, Living, OwnersShape
  <2>3. held' # {}
    BY <1>4, <1>6, <2>2 DEF Attached, Natives
  <2>4. kind = "native" => 0 \notin held'
    <3>1. kind = "native" => Handles = {child[n] : n \in Natives}
      BY DEF Handles, WakePaths
    <3>2. QED
      BY <2>2, <3>1
  <2>5. QED
    BY <2>1, <2>3, <2>4 DEF Enough
<1>7. QED
  BY <1>5, <1>6

\* Such a cleanup ends with its result.
LEMMA SoundVerdict ==
    ASSUME OwnersShape, SessionShape, StopsInv, ChildrenInv, LogInv, SoundInv, Sound,
           phase = "cleaning", left = <<>>, first = "none"
    PROVE  Verdict = "result"
<1>1. clean /\ Enough /\ helpers.sampler # "failed" /\ spent.kills = 0
  BY DEF SoundInv
<1>2. asked = StartedOwners
  <2>1. Items(left) = {}
    BY DEF Items
  <2>2. QED
    BY <2>1 DEF StopsInv
<1>3. \A n \in Natives : child[n] = 0
  BY <1>1, <1>2 DEF ChildrenInv
<1>4. alive = {}
  BY <1>1, <1>3 DEF ChildrenInv, Attached
<1>5. kind \in Measured => Accepted(points)
  <2>1. Whole /\ kind \in Kinds /\ Len(Plan[kind]) \in Nat /\ pc \in 1..(Len(Plan[kind]) + 1)
    BY Plans DEF SessionShape
  <2>2. pc = Len(Plan[kind]) + 1
    BY <2>1 DEF Whole
  <2>3. QED
    BY <2>2, LogAccepted
<1>6. QED
  BY <1>1, <1>4, <1>5 DEF Verdict, Proven

\* The cleanup of such a session.
LEMMA SoundCleans ==
    ASSUME OwnersShape, SessionShape, HelpersShape, StopsInv, ChildrenInv, LogInv, SoundInv,
           Sound, Sound', ~Fault, ~Interrupt, ~Unkilled, spent' = spent, CleanUp
    PROVE  SoundInv'
<1>0. /\ clean /\ ~noise /\ spent.kills = 0 /\ first \in {"none", "dialogue"}
      /\ helpers.manager # "stuck" /\ helpers.sampler # "failed"
      /\ helpers \in [manager : {"off", "on", "stuck"}, sampler : {"off", "on", "failed"}]
  BY DEF SoundInv, HelpersShape
<1>1. CASE Leave
  <2>1. /\ UNCHANGED <<kind, pc, first, child, alive, clean, noise>>
        /\ Complete \/ phase = "leaving"
        /\ held' = Handles
        /\ \/ phase' = "leaving" /\ helpers' = [helpers EXCEPT !.manager = "off"]
           \/ phase' = "cleaning" /\ helpers' = helpers
    BY <1>1 DEF Leave
  <2>2. helpers'.manager # "stuck" /\ helpers'.sampler # "failed"
    BY <1>0, <2>1
  <2>3. CASE first = "dialogue"
    BY <1>0, <2>1, <2>2, <2>3 DEF SoundInv
  <2>4. CASE first = "none" /\ phase' = "cleaning"
    BY <1>0, <2>1, <2>2, <2>4, EnoughThere DEF SoundInv
  <2>5. CASE first = "none" /\ phase' = "leaving"
    <3>1. /\ Manned /\ Done' = Done
          /\ kind \in HeldKinds /\ "hold" \in Done => {1, 2, 3} \subseteq held
      BY <2>1, <2>5, DoneKept DEF SoundInv, Complete
    <3>2. Manned' /\ (kind' \in HeldKinds /\ "hold" \in Done' => {1, 2, 3} \subseteq held')
      BY <2>1, <3>1, HandlesCover DEF Manned, Living
    <3>3. QED
      BY <1>0, <2>1, <2>2, <2>5, <3>2 DEF SoundInv
  <2>6. QED
    BY <1>0, <2>1, <2>3, <2>4, <2>5
<1>2. CASE JoinSampler
  <2>1. /\ UNCHANGED <<kind, pc, first, owners, noise>> /\ phase' = "leaving"
        /\ Complete \/ phase = "leaving"
        /\ helpers' = [helpers EXCEPT !.sampler = "off"]
    BY <1>2 DEF JoinSampler
  <2>2. helpers'.manager # "stuck" /\ helpers'.sampler # "failed"
    BY <1>0, <2>1
  <2>3. Done' = Done
    BY <2>1, DoneKept
  <2>4. first = "none" => /\ Manned
                          /\ kind \in HeldKinds /\ "hold" \in Done => {1, 2, 3} \subseteq held
    BY <2>1 DEF SoundInv, Complete
  <2>5. first = "none" => /\ Manned'
                          /\ kind' \in HeldKinds /\ "hold" \in Done' => {1, 2, 3} \subseteq held'
    BY <2>1, <2>3, <2>4 DEF Manned, Living, owners
  <2>6. QED
    BY <1>0, <2>1, <2>2, <2>5 DEF SoundInv, owners
<1>3. CASE StopOwner
  <2>1. /\ phase = "cleaning" /\ UNCHANGED <<session, clean, held, aside>>
    BY <1>3 DEF StopOwner
  <2>2. first = "none" => Enough
    BY <2>1 DEF SoundInv
  <2>3. first' = "none" => Enough'
    BY <2>1, <2>2 DEF Enough, session
  <2>4. QED
    BY <1>0, <2>1, <2>3 DEF SoundInv, session, aside
<1>4. CASE CleanupExpires
  BY <1>4 DEF CleanupExpires
<1>5. CASE Finish
  <2>1. /\ phase = "cleaning" /\ left = <<>> /\ phase' = "ended" /\ outcome' = Verdict
        /\ UNCHANGED <<first, clean, noise, helpers>>
    BY <1>5 DEF Finish, owners, aside
  <2>2. first = "none" => Verdict = "result"
    BY <2>1, SoundVerdict
  <2>3. QED
    BY <1>0, <2>1, <2>2 DEF SoundInv
<1>6. QED
  BY <1>1, <1>2, <1>3, <1>4, <1>5 DEF CleanUp

\* Every step of a session keeps it.
LEMMA SoundInvKept ==
    ASSUME OwnersShape, SessionShape, HelpersShape, StopsInv, ChildrenInv, PathShape, PathSound,
           LogInv, SoundInv, [Next]_vars
    PROVE  SoundInv'
<1>1. SUFFICES ASSUME Sound' PROVE SoundInv'
  BY DEF SoundInv
<1>2. Sound /\ ~Fault /\ ~Interrupt /\ ~Unkilled /\ spent' = spent
  BY <1>1, SoundBefore
<1>3. spent'.kills = 0
  BY <1>2 DEF SoundInv
<1>4. clean
  BY <1>2 DEF SoundInv
<1>5. CASE Operate \/ UnderTest \/ WatchWake
  <2>1. SoundMove
    BY <1>2, <1>5, SoundOperates, SoundWatches
  <2>2. QED
    BY <1>3, <1>4, <2>1 DEF SoundMove, SoundInv
<1>6. CASE Disturb
  BY <1>2, <1>6, DisturbMoves
<1>7. CASE CleanUp
  BY <1>1, <1>2, <1>7, SoundCleans
<1>8. CASE UNCHANGED vars
  <2>1. UNCHANGED <<kind, pc, phase, first, child, alive, held, clean, helpers, noise, outcome>>
    BY <1>8 DEF vars, session, owners, aside
  <2>2. Done' = Done /\ (Enough => Enough')
    BY <2>1, DoneKept DEF Enough
  <2>3. QED
    BY <1>2, <2>1, <2>2 DEF SoundInv, Manned, Living
<1>9. QED
  BY <1>5, <1>6, <1>7, <1>8 DEF Next

\* A log begins empty.
LEMMA LogStarts == ASSUME Init PROVE LogInv
<1>1. points = <<>> /\ turns = NoTurns /\ pc = 1
  BY DEF Init
<1>2. \A l : Found(points, l) = {}
  BY <1>1 DEF Found
<1>3. \A l, d : Window(points, l, d) = {}
  BY <1>2 DEF Window
<1>4. /\ points \in Seq(Entries) /\ Len(points) = 0 /\ turns \in Turns
      /\ ~Past(4, 5) /\ ~Past(5, 6) /\ ~Past(10, 12) /\ ~Past(6, 8) /\ ~Past(7, 9)
  BY <1>1 DEF NoTurns, Turns, Past
<1>5. LogEnds
  BY <1>1, <1>2, <1>4 DEF LogEnds
<1>6. ReplacementsPaired(points)
  BY <1>2 DEF ReplacementsPaired
<1>7. \A d : Spoken(points, d)
  BY <1>3 DEF Spoken, Blank
<1>8. LogOrder
  BY <1>1, <1>4, <1>6, <1>7 DEF LogOrder, Ascending, UpTo, MidTurn
<1>9. LogMeets
  BY <1>1, <1>4 DEF LogMeets, NoTurns
<1>10. QED
  BY <1>4, <1>5, <1>8, <1>9 DEF LogInv

\* A session that meets no fault, no cancellation, no defect of the product and no
\* dialogue it refuses gives its result: no step of its plan breaks off, its cleanup
\* finds every child it looks for and none alive, and the order of its points is the
\* one derive_thresholds accepts.
THEOREM SoundSessionIsAccepted == Spec => []SoundIsAccepted
<1> DEFINE Inv == IInv /\ LogInv /\ PathSound /\ SoundInv
<1>1. Init => LogInv /\ PathSound /\ SoundInv
  <2> SUFFICES ASSUME Init PROVE LogInv /\ PathSound /\ SoundInv
    OBVIOUS
  <2>1. kind \in Kinds /\ pc = 1 /\ phase = "running" /\ first = "none" /\ Done = {}
    BY DEF Init, Done, DoneAt
  <2>2. LogInv
    BY <2>1, LogStarts
  <2>3. PathSound
    <3>1. PICK d \in Defects : product = Product(d, kind)
      BY DEF Init, Defects
    <3>2. (kind \in {"W01", "W04"}) \in BOOLEAN /\ (kind = "W01") \in BOOLEAN
      OBVIOUS
    <3>3. QED
      BY <2>1, <3>1, <3>2 DEF Product, PathSound
  <2>4. SoundInv
    BY <2>1 DEF Init, SoundInv, Manned
  <2>5. QED
    BY <2>2, <2>3, <2>4
<1>2. IInv /\ LogInv /\ PathSound /\ SoundInv /\ [Next]_vars
         => (LogInv /\ PathSound /\ SoundInv)'
  BY LogKept, SoundKept, SoundInvKept DEF IInv
<1>3. IInv /\ SoundInv => SoundIsAccepted
  <2> SUFFICES ASSUME IInv, SoundInv, phase = "ended", first # "dialogue",
                      product.defect = "none", spent.faults = 0, spent.interrupts = 0
               PROVE  outcome = "result"
    BY DEF SoundIsAccepted
  <2>1. QED
    BY DEF SoundInv, Sound, Undisturbed
<1>4. QED
  BY <1>1, <1>2, <1>3, SessionInvariant, PTL DEF Spec

-----------------------------------------------------------------------------
(***************************************************************************)
(* The ledger of evidence: its files and their types.                      *)
(***************************************************************************)
Locator == Units \X (Nat \ {0})
CaseDigests == [file : Locator \cup {<<>>}, rows : {NoRows}, edited : Nat]
Row == [at : Locator, digest : CaseDigests]
Rows == {NoRows} \cup [WakeCases -> Row]
Digests == [file : Locator \cup {<<>>}, rows : Rows, edited : Nat]
CardNames == {"none", "capture", "result"}
Partitions == [unit : Units, card : CardNames, script : {"Pass", "Incomplete"},
               verdict : {"none", "Pass", "Fail"}, waits : BOOLEAN, rows : Rows,
               edited : Nat, capture : Nat, catalog : SUBSET (Locator \X Digests \X Nat)]
Sayings == {"Pass", "Fail"}

\* What a partition digests to while nobody has edited it.
Fresh(n) == [file |-> IF n[1] = Wake THEN <<>> ELSE n, rows |-> At(n).rows, edited |-> 0]

LedgerShape ==
    /\ runs \in [Units -> Seq(Partitions)]
    /\ designation \in [Units -> {None} \cup [at : Locator, card : CardNames, digest : Digests]]

\* An aggregate is made of partitions of its cases; nothing else has rows.
RowsOf(n) ==
    /\ At(n).rows = NoRows \/ n[1] = Wake
    /\ At(n).rows # NoRows =>
          \A c \in WakeCases : At(n).rows[c].at \in Locators /\ At(n).rows[c].at[1] = c
    /\ n[1] = Wake /\ At(n).card # "none" => At(n).rows # NoRows

\* What a catalog says of a part is what the part was when it was written.
CatalogOf(n) ==
    /\ IF n[1] \in Heard THEN At(n).catalog = {} ELSE ~At(n).waits
    /\ \A e \in At(n).catalog :
          /\ e[1] = n => e[2] = Fresh(n)
          /\ At(n).rows # NoRows =>
                \A c \in WakeCases : e[1] = At(n).rows[c].at => e[2] = At(n).rows[c].digest

\* A case of the semantic test is judged once, by what it captured; its card says so
\* until it is edited.
VerdictOf(n) ==
    /\ At(n).waits => At(n).script = "Pass"
    /\ At(n).card = "result" /\ At(n).script = "Pass" /\ At(n).edited = 0 =>
          /\ ~At(n).waits /\ At(n).verdict \in Sayings
          /\ [test |-> n[1], at |-> n, said |-> At(n).verdict, contents |-> {0}] \in heard

FilesInv ==
    /\ \A n \in Locators : RowsOf(n) /\ CatalogOf(n)
    /\ \A n \in Locators : n[1] \in Heard => VerdictOf(n)

\* What a person was shown is what the catalog lists, and was recorded.
WasReviewed(h) ==
    /\ At(h.at).edited = 0 => At(h.at).script = "Pass"
    /\ At(h.at).catalog # {} /\ h.contents = At(h.at).catalog
    /\ \E r \in reviews :
          /\ r.test = h.test /\ r.at = h.at /\ r.said = h.said
          /\ r.published /\ r.digest = Fresh(h.at)
Answered(h) ==
    /\ At(h.at).card = "result" /\ ~At(h.at).waits /\ h.contents = {0}
    /\ At(h.at).edited = 0 => At(h.at).script = "Pass" /\ At(h.at).verdict = h.said
HeardInv ==
    \A h \in heard :
       /\ h.test \in ReviewedTests \cup Heard
       /\ h.at \in Locators /\ h.at[1] = h.test
       /\ h.test \in Heard => Answered(h)
       /\ h.test \in ReviewedTests => WasReviewed(h)

\* A record of a review is of one file, one for each digest, and what it says was said.
ReviewsInv ==
    /\ \A r \in reviews :
          /\ r.test \in ReviewedTests /\ r.at \in Locators /\ r.at[1] = r.test
          /\ r.digest = Fresh(r.at) /\ r.said \in Sayings
          /\ r.published => [test |-> r.test, at |-> r.at, said |-> r.said,
                             contents |-> At(r.at).catalog] \in heard
    /\ \A r, s \in reviews : r.test = s.test /\ r.digest = s.digest => r = s

\* What was designated is still there.
DesignatedInv ==
    \A u \in Units : designation[u] # None =>
       /\ designation[u].at \in Locators /\ designation[u].at[1] = u
       /\ At(designation[u].at).card # "none"

LInv ==
    /\ LedgerShape /\ FilesInv /\ HeardInv /\ ReviewsInv /\ DesignatedInv

-----------------------------------------------------------------------------
(***************************************************************************)
(* How a step changes the files.                                           *)
(***************************************************************************)
\* What a locator is.
LEMMA LocatorIs ==
    ASSUME LedgerShape, NEW n \in Locators
    PROVE  /\ n \in Locator /\ n = <<n[1], n[2]>> /\ n[1] \in Units
           /\ n[2] \in 1..Len(runs[n[1]]) /\ At(n) \in Partitions
<1>1. PICK u \in Units : \E k \in DOMAIN runs[u] : n = <<u, k>>
  BY DEF Locators
<1>2. PICK k \in DOMAIN runs[u] : n = <<u, k>>
  BY <1>1
<1>3. runs[u] \in Seq(Partitions)
  BY <1>1 DEF LedgerShape
<1>4. DOMAIN runs[u] = 1..Len(runs[u]) /\ Len(runs[u]) \in Nat
  BY <1>3
<1>5. runs[u][k] \in Partitions
  BY <1>2, <1>3, <1>4
<1>6. n[1] = u /\ n[2] = k /\ k \in Nat \ {0}
  BY <1>2, <1>4
<1>7. QED
  BY <1>1, <1>2, <1>4, <1>5, <1>6 DEF Locator, At

\* And which there are.
LEMMA LocatorsAre ==
    ASSUME LedgerShape, NEW u \in Units, NEW k
    PROVE  <<u, k>> \in Locators <=> k \in 1..Len(runs[u])
<1>1. runs[u] \in Seq(Partitions)
  BY DEF LedgerShape
<1>2. DOMAIN runs[u] = 1..Len(runs[u])
  BY <1>1
<1>3. <<u, k>> \in Locators => k \in DOMAIN runs[u]
  <2>1. SUFFICES ASSUME <<u, k>> \in Locators PROVE k \in DOMAIN runs[u]
    OBVIOUS
  <2>2. PICK v \in Units : \E j \in DOMAIN runs[v] : <<u, k>> = <<v, j>>
    BY <2>1 DEF Locators
  <2>3. QED
    BY <2>2
<1>4. k \in DOMAIN runs[u] => <<u, k>> \in Locators
  BY DEF Locators
<1>5. QED
  BY <1>2, <1>3, <1>4

\* A partition more.
Appends(p, m) ==
    /\ p \in Partitions /\ m \in Locator \ Locators /\ m[1] = p.unit
    /\ runs' \in [Units -> Seq(Partitions)]
    /\ Locators' = Locators \cup {m} /\ At(m)' = p
    /\ \A n \in Locators : At(n)' = At(n)

\* One partition changes.
Rewrites(m, q) ==
    /\ m \in Locators /\ q \in Partitions
    /\ runs' \in [Units -> Seq(Partitions)]
    /\ Locators' = Locators /\ At(m)' = q
    /\ \A n \in Locators : n # m => At(n)' = At(n)

\* A command that adds a partition adds a locator.
LEMMA AppendIs ==
    ASSUME LedgerShape, NEW p \in Partitions,
           runs' = [runs EXCEPT ![p.unit] = Append(@, p)],
           NEW m, m = <<p.unit, Len(runs[p.unit]) + 1>>
    PROVE  Appends(p, m)
<1> DEFINE u == p.unit
<1>1. u \in Units /\ runs[u] \in Seq(Partitions) /\ runs \in [Units -> Seq(Partitions)]
  BY DEF LedgerShape, Partitions
<1>2. Len(runs[u]) \in Nat
  BY <1>1
<1>3. /\ Append(runs[u], p) \in Seq(Partitions) /\ Len(Append(runs[u], p)) = Len(runs[u]) + 1
      /\ \A i \in 1..Len(runs[u]) : Append(runs[u], p)[i] = runs[u][i]
      /\ Append(runs[u], p)[Len(runs[u]) + 1] = p
  BY <1>1, AppendProperties
<1>4. /\ runs' \in [Units -> Seq(Partitions)] /\ runs'[u] = Append(runs[u], p)
      /\ \A v \in Units : v # u => runs'[v] = runs[v]
  BY <1>1, <1>3
<1>5. DOMAIN runs[u] = 1..Len(runs[u]) /\ DOMAIN runs'[u] = 1..(Len(runs[u]) + 1)
  BY <1>1, <1>3, <1>4
<1>6. m \in Locator \ Locators /\ m[1] = u
  <2>1. m \in Locator /\ m[1] = u
    BY <1>1, <1>2 DEF Locator
  <2>2. m \notin Locators
    BY <1>1, <1>2, LocatorsAre
  <2>3. QED
    BY <2>1, <2>2
<1>7. Locators' = Locators \cup {m}
  <2>1. ASSUME NEW n \in Locators' PROVE n \in Locators \cup {m}
    <3>1. PICK v \in Units : \E k \in DOMAIN runs'[v] : n = <<v, k>>
      BY <2>1 DEF Locators
    <3>2. PICK k \in DOMAIN runs'[v] : n = <<v, k>>
      BY <3>1
    <3>3. CASE v # u
      BY <1>4, <3>2, <3>3 DEF Locators
    <3>4. CASE v = u
      <4>1. k \in DOMAIN runs[u] \/ k = Len(runs[u]) + 1
        BY <1>2, <1>5, <3>2, <3>4
      <4>2. QED
        BY <1>1, <3>2, <3>4, <4>1 DEF Locators
    <3>5. QED
      BY <3>3, <3>4
  <2>2. ASSUME NEW n \in Locators PROVE n \in Locators'
    <3>1. PICK v \in Units : \E k \in DOMAIN runs[v] : n = <<v, k>>
      BY <2>2 DEF Locators
    <3>2. DOMAIN runs[v] \subseteq DOMAIN runs'[v]
      BY <1>2, <1>4, <1>5, <3>1
    <3>3. QED
      BY <3>1, <3>2 DEF Locators
  <2>3. m \in Locators'
    <3>1. Len(runs[u]) + 1 \in DOMAIN runs'[u]
      BY <1>2, <1>5
    <3>2. QED
      BY <1>1, <3>1 DEF Locators
  <2>4. QED
    BY <2>1, <2>2, <2>3
<1>8. At(m)' = p
  BY <1>2, <1>3, <1>4 DEF At
<1>9. ASSUME NEW n \in Locators PROVE At(n)' = At(n)
  <2>1. n[1] \in Units /\ n[2] \in 1..Len(runs[n[1]])
    BY LocatorIs
  <2>2. CASE n[1] # u
    BY <1>4, <2>1, <2>2 DEF At
  <2>3. CASE n[1] = u
    BY <1>3, <1>4, <2>1, <2>3 DEF At
  <2>4. QED
    BY <2>2, <2>3
<1>10. QED
  BY <1>4, <1>6, <1>7, <1>8, <1>9 DEF Appends

\* A command that changes a partition keeps the locators.
LEMMA RewriteIs ==
    ASSUME LedgerShape, NEW m \in Locators, NEW q \in Partitions,
           runs' = [runs EXCEPT ![m[1]][m[2]] = q]
    PROVE  Rewrites(m, q)
<1> DEFINE u == m[1]
           k == m[2]
<1>1. u \in Units /\ k \in 1..Len(runs[u]) /\ m = <<u, k>>
  BY LocatorIs
<1>2. runs[u] \in Seq(Partitions) /\ runs \in [Units -> Seq(Partitions)]
  BY <1>1 DEF LedgerShape
<1>3. DOMAIN runs[u] = 1..Len(runs[u])
  BY <1>2
<1>4. /\ [runs[u] EXCEPT ![k] = q] \in Seq(Partitions)
      /\ DOMAIN [runs[u] EXCEPT ![k] = q] = DOMAIN runs[u]
      /\ [runs[u] EXCEPT ![k] = q][k] = q
      /\ \A i \in DOMAIN runs[u] : i # k => [runs[u] EXCEPT ![k] = q][i] = runs[u][i]
  BY <1>1, <1>2, <1>3, ExceptSeq
<1>5. /\ runs' \in [Units -> Seq(Partitions)] /\ runs'[u] = [runs[u] EXCEPT ![k] = q]
      /\ \A v \in Units : v # u => runs'[v] = runs[v]
  BY <1>1, <1>2, <1>4
<1>6. \A v \in Units : DOMAIN runs'[v] = DOMAIN runs[v]
  BY <1>4, <1>5
<1>7. Locators' = Locators
  BY <1>6 DEF Locators
<1>8. At(m)' = q
  BY <1>4, <1>5 DEF At
<1>9. ASSUME NEW n \in Locators, n # m PROVE At(n)' = At(n)
  <2>1. n[1] \in Units /\ n[2] \in 1..Len(runs[n[1]]) /\ n = <<n[1], n[2]>>
    BY LocatorIs
  <2>2. CASE n[1] # u
    BY <1>5, <2>1, <2>2 DEF At
  <2>3. CASE n[1] = u
    BY <1>1, <1>3, <1>4, <1>5, <1>9, <2>1, <2>3 DEF At
  <2>4. QED
    BY <2>2, <2>3
<1>10. QED
  BY <1>5, <1>7, <1>8, <1>9 DEF Rewrites

-----------------------------------------------------------------------------
(***************************************************************************)
(* What the commands write.                                                *)
(***************************************************************************)
\* The units are apart.
LEMMA UnitsApart ==
    /\ \A u \in Heard : u \notin ReviewedTests /\ u \notin WakeCases /\ u # Wake
    /\ \A u \in ReviewedTests : u \notin Heard /\ u \notin WakeCases
    /\ \A u \in WakeCases : u \notin Heard /\ u # Wake
    /\ WakeCases # {} /\ Wake \in ReviewedTests
    /\ ReviewedTests \cup Heard \cup WakeCases = Units
<1>1. WakeCases # {}
  BY LedgerBounds, FS_EmptySet
<1>2. QED
  BY <1>1, LedgerUnits DEF ReviewedTests, Units

\* The rows of an aggregate are not the rows of anything else.
LEMMA AggregateHasRows == NoRows \notin [WakeCases -> Row]
<1>1. DOMAIN NoRows = {}
  BY DEF NoRows
<1>2. QED
  BY <1>1, UnitsApart

\* A new file is about what is there.
RowsThere(rows, unit) ==
    \/ rows = NoRows
    \/ /\ unit = Wake /\ rows \in [WakeCases -> Row]
       /\ \A c \in WakeCases : rows[c].at \in Locators /\ rows[c].at[1] = c
NewFile(p, m) ==
    /\ RowsThere(p.rows, p.unit)
    /\ p.unit = Wake /\ p.card # "none" => p.rows # NoRows
    /\ p.unit \in Heard => /\ p.catalog = {} /\ p.capture = 0
                           /\ p.card = "result" => p.script # "Pass"
                           /\ p.waits => p.script = "Pass"
    /\ p.unit \notin Heard => ~p.waits
    /\ \A e \in p.catalog :
          /\ e[1] = m => e[2] = [file |-> IF m[1] = Wake THEN <<>> ELSE m,
                                 rows |-> p.rows, edited |-> 0]
          /\ p.rows # NoRows =>
                \A c \in WakeCases : e[1] = p.rows[c].at => e[2] = p.rows[c].digest

\* A partition without catalog.
LEMMA PartitionIs ==
    ASSUME NEW u \in Units, NEW card \in CardNames, NEW script \in {"Pass", "Incomplete"}
    PROVE  /\ Partition(u, card, script) \in Partitions
           /\ Partition(u, card, script).unit = u /\ Partition(u, card, script).card = card
           /\ Partition(u, card, script).script = script
           /\ Partition(u, card, script).rows = NoRows
           /\ Partition(u, card, script).catalog = {}
           /\ Partition(u, card, script).capture = 0
           /\ ~Partition(u, card, script).waits
  BY DEF Partition, Partitions, Rows

\* The catalog of a partition lists it and the parts it is made of.
LEMMA CatalogueIs ==
    ASSUME LedgerShape, NEW p \in Partitions, RowsThere(p.rows, p.unit),
           p.unit \notin Heard, p.unit = Wake => p.rows # NoRows, ~p.waits,
           NEW m, m = <<p.unit, Len(runs[p.unit]) + 1>>
    PROVE  Catalogue(p) \in Partitions /\ Catalogue(p).unit = p.unit /\ NewFile(Catalogue(p), m)
<1> DEFINE own == [file |-> IF p.unit = Wake THEN <<>> ELSE m, rows |-> p.rows, edited |-> 0]
           parts == {<<p.rows[c].at, p.rows[c].digest, At(p.rows[c].at).capture>> :
                        c \in DOMAIN p.rows}
           all == {<<m, own, 0>>} \cup parts
<1>1. p.unit \in Units /\ p.rows \in Rows
  BY DEF Partitions
<1>2. m \in Locator /\ m[1] = p.unit /\ m \notin Locators
  <2>1. runs[p.unit] \in Seq(Partitions)
    BY <1>1 DEF LedgerShape
  <2>2. Len(runs[p.unit]) \in Nat
    BY <2>1
  <2>3. m \in Locator /\ m[1] = p.unit
    BY <1>1, <2>2 DEF Locator
  <2>4. m \notin Locators
    BY <1>1, <2>2, LocatorsAre
  <2>5. QED
    BY <2>3, <2>4
<1>3. Catalogue(p) = [p EXCEPT !.catalog = all]
  BY DEF Catalogue
<1>4. own \in Digests
  BY <1>1, <1>2 DEF Digests
<1>5. CASE p.rows = NoRows
  <2>1. parts = {}
    BY <1>5 DEF NoRows
  <2>2. all = {<<m, own, 0>>}
    BY <2>1
  <2> HIDE DEF parts, all, own
  <2>3. all \in SUBSET (Locator \X Digests \X Nat)
    BY <1>2, <1>4, <2>2
  <2>4. Catalogue(p) \in Partitions /\ Catalogue(p).unit = p.unit
        /\ Catalogue(p).rows = p.rows /\ Catalogue(p).waits = p.waits
        /\ Catalogue(p).catalog = all
    BY <1>3, <2>3 DEF Partitions
  <2>5. \A e \in all : e[1] = m /\ e[2] = own
    BY <2>2
  <2>6. QED
    BY <1>2, <1>5, <2>4, <2>5 DEF NewFile, own
<1>6. CASE p.rows # NoRows
  <2>1. /\ p.unit = Wake /\ p.rows \in [WakeCases -> Row] /\ DOMAIN p.rows = WakeCases
        /\ \A c \in WakeCases : p.rows[c].at \in Locators /\ p.rows[c].at[1] = c
    BY <1>6 DEF RowsThere
  <2>2. \A c \in WakeCases : /\ p.rows[c].at \in Locator /\ p.rows[c].digest \in Digests
                             /\ At(p.rows[c].at).capture \in Nat
    <3>1. TAKE c \in WakeCases
    <3>2. At(p.rows[c].at) \in Partitions
      BY <2>1, LocatorIs
    <3>3. p.rows[c] \in Row
      BY <2>1
    <3>4. QED
      BY <3>2, <3>3 DEF Partitions, Row, CaseDigests, Digests, Rows
  <2>3. \A e \in parts : \E c \in WakeCases :
            e = <<p.rows[c].at, p.rows[c].digest, At(p.rows[c].at).capture>>
    BY <2>1
  <2> HIDE DEF parts, own
  <2>4. all \in SUBSET (Locator \X Digests \X Nat)
    BY <1>2, <1>4, <2>2, <2>3
  <2>5. ASSUME NEW e \in all
        PROVE  /\ e[1] = m => e[2] = own
               /\ \A c \in WakeCases : e[1] = p.rows[c].at => e[2] = p.rows[c].digest
    <3>1. CASE e = <<m, own, 0>>
      BY <1>2, <2>1, <3>1
    <3>2. CASE e \in parts
      <4>1. PICK d \in WakeCases :
                e = <<p.rows[d].at, p.rows[d].digest, At(p.rows[d].at).capture>>
        BY <2>3, <3>2
      <4>2. e[1] = p.rows[d].at /\ e[2] = p.rows[d].digest
        BY <4>1
      <4>3. e[1] # m
        BY <1>2, <2>1, <4>2
      <4>4. ASSUME NEW c \in WakeCases, e[1] = p.rows[c].at PROVE e[2] = p.rows[c].digest
        <5>1. p.rows[c].at[1] = c /\ p.rows[d].at[1] = d
          BY <2>1
        <5>2. c = d
          BY <4>2, <4>4, <5>1
        <5>3. QED
          BY <4>2, <5>2
      <4>5. QED
        BY <4>3, <4>4
    <3>3. QED
      BY <3>1, <3>2
  <2> HIDE DEF all
  <2>6. Catalogue(p) \in Partitions /\ Catalogue(p).unit = p.unit
        /\ Catalogue(p).rows = p.rows /\ Catalogue(p).waits = p.waits
        /\ Catalogue(p).catalog = all
    BY <1>3, <2>4 DEF Partitions
  <2>7. QED
    BY <1>2, <1>6, <2>1, <2>5, <2>6 DEF NewFile, own
<1>7. QED
  BY <1>5, <1>6

\* What a unit's result stands on is one of its cards.
LEMMA SelectedIs ==
    ASSUME LedgerShape, NEW u \in Units, NEW n \in Selected(u)
    PROVE  n \in Locators /\ n[1] = u /\ At(n).card # "none" /\ n \in Cards(u)
<1>1. n \in Cards(u)
  BY DEF Selected
<1>2. PICK k \in DOMAIN runs[u] : n = <<u, k>>
  BY <1>1 DEF Cards
<1>3. n \in Locators /\ n[1] = u
  BY <1>2 DEF Locators
<1>4. QED
  BY <1>1, <1>3 DEF Cards

\* A digest has a type; that of a case has no rows.
LEMMA DigestIs ==
    ASSUME LedgerShape, FilesInv, NEW n \in Locators
    PROVE  /\ Digest(n) \in Digests
           /\ n[1] \in WakeCases => Digest(n) \in CaseDigests
<1>1. n \in Locator /\ At(n) \in Partitions
  BY LocatorIs
<1>2. At(n).rows \in Rows /\ At(n).edited \in Nat
  BY <1>1 DEF Partitions
<1>3. n[1] \in WakeCases => At(n).rows = NoRows
  BY UnitsApart DEF FilesInv, RowsOf
<1>4. QED
  BY <1>1, <1>2, <1>3 DEF Digest, Digests, CaseDigests

\* The result of an aggregation.
AggregateRows == [c \in WakeCases |-> [at |-> Chosen(c), digest |-> Digest(Chosen(c))]]
LEMMA AggregateIs ==
    ASSUME LedgerShape, FilesInv, \A c \in WakeCases : Selected(c) # {}
    PROVE  RowsThere(AggregateRows, Wake) /\ AggregateRows \in [WakeCases -> Row]
<1>1. ASSUME NEW c \in WakeCases
      PROVE  /\ Chosen(c) \in Locators /\ Chosen(c)[1] = c
             /\ [at |-> Chosen(c), digest |-> Digest(Chosen(c))] \in Row
  <2>1. c \in Units
    BY UnitsApart
  <2>2. Chosen(c) \in Selected(c)
    BY DEF Chosen
  <2>3. Chosen(c) \in Locators /\ Chosen(c)[1] = c
    BY <2>1, <2>2, SelectedIs
  <2>4. Chosen(c) \in Locator /\ Digest(Chosen(c)) \in CaseDigests
    BY <2>3, DigestIs, LocatorIs
  <2>5. QED
    BY <2>3, <2>4 DEF Row
<1>2. AggregateRows \in [WakeCases -> Row]
  BY <1>1 DEF AggregateRows
<1>3. QED
  BY <1>1, <1>2 DEF RowsThere, AggregateRows

-----------------------------------------------------------------------------
(***************************************************************************)
(* How the commands move the ledger.                                       *)
(***************************************************************************)
\* Adding is appending.
LEMMA AddsIt ==
    ASSUME LedgerShape, NEW p \in Partitions, Add(p) \/ AddMishap(p),
           NEW m, m = <<p.unit, Len(runs[p.unit]) + 1>>, NewFile(p, m)
    PROVE  \E q, k : Appends(q, k) /\ NewFile(q, k)
<1>1. runs' = [runs EXCEPT ![p.unit] = Append(@, p)]
  BY DEF Add, AddMishap
<1>2. Appends(p, m)
  BY <1>1, AppendIs
<1>3. QED
  BY <1>2

\* A card, or none, without a catalog.
LEMMA AddsPlain ==
    ASSUME LedgerShape, NEW u \in Units, NEW card \in CardNames,
           NEW script \in {"Pass", "Incomplete"}, u = Wake => card = "none",
           u \in Heard /\ card = "result" => script # "Pass",
           NEW p, p = Partition(u, card, script), Add(p) \/ AddMishap(p)
    PROVE  \E q, k : Appends(q, k) /\ NewFile(q, k)
<1>1. /\ p \in Partitions /\ p.unit = u /\ p.card = card /\ p.script = script
      /\ p.rows = NoRows /\ p.catalog = {} /\ p.capture = 0 /\ ~p.waits
  BY PartitionIs
<1>2. NewFile(p, <<p.unit, Len(runs[p.unit]) + 1>>)
  BY <1>1 DEF NewFile, RowsThere
<1>3. QED
  BY <1>1, <1>2, AddsIt

\* A card with its catalog.
LEMMA AddsCatalogued ==
    ASSUME LedgerShape, NEW p \in Partitions, RowsThere(p.rows, p.unit),
           p.unit \notin Heard, p.unit = Wake => p.rows # NoRows, ~p.waits,
           Add(Catalogue(p))
    PROVE  \E q, k : Appends(q, k) /\ NewFile(q, k)
<1>1. PICK m : m = <<p.unit, Len(runs[p.unit]) + 1>>
  OBVIOUS
<1>2. PICK q : q = Catalogue(p)
  OBVIOUS
<1>3. q \in Partitions /\ q.unit = p.unit /\ NewFile(q, m)
  BY <1>1, <1>2, CatalogueIs
<1>4. QED
  BY <1>1, <1>2, <1>3, AddsIt

\* An aggregate without a catalog.
LEMMA AddsAggregate ==
    ASSUME LedgerShape, FilesInv, \A c \in WakeCases : Selected(c) # {},
           NEW p, p = [Partition(Wake, "result", "Pass") EXCEPT !.rows = AggregateRows],
           Add(Catalogue(p)) \/ AddMishap(p)
    PROVE  \E q, k : Appends(q, k) /\ NewFile(q, k)
<1>1. RowsThere(AggregateRows, Wake) /\ AggregateRows \in [WakeCases -> Row]
      /\ AggregateRows \in Rows /\ AggregateRows # NoRows
  BY AggregateIs, AggregateHasRows DEF Rows
<1>2. Wake \in Units /\ Wake \notin Heard
  BY UnitsApart
<1>3. Partition(Wake, "result", "Pass") \in Partitions
      /\ Partition(Wake, "result", "Pass").unit = Wake
      /\ Partition(Wake, "result", "Pass").catalog = {}
      /\ ~Partition(Wake, "result", "Pass").waits
  BY <1>2, PartitionIs DEF CardNames
<1>4. /\ p \in Partitions /\ p.unit = Wake /\ p.rows = AggregateRows /\ p.catalog = {}
      /\ ~p.waits
  BY <1>1, <1>3 DEF Partitions
<1>5. CASE Add(Catalogue(p))
  BY <1>1, <1>2, <1>4, <1>5, AddsCatalogued
<1>6. CASE AddMishap(p)
  <2>1. NewFile(p, <<p.unit, Len(runs[p.unit]) + 1>>)
    BY <1>1, <1>2, <1>4 DEF NewFile
  <2>2. QED
    BY <1>4, <1>6, <2>1, AddsIt
<1>7. QED
  BY <1>5, <1>6

\* The commands that produce evidence add one partition, or none.
LEMMA RunMoves ==
    ASSUME LedgerShape, FilesInv,
           \/ \E test \in Singles : RunSingle(test)
           \/ \E c \in WakeCases : RunWakeCase(c)
           \/ \E c \in Heard : RunSemanticCase(c)
           \/ Aggregate
    PROVE  /\ \E q, k : Appends(q, k) /\ NewFile(q, k)
           /\ UNCHANGED <<designation, reviews, heard, final>>
<1>1. CASE \E test \in Singles : RunSingle(test)
  <2>1. PICK test \in Singles : RunSingle(test)
    BY <1>1
  <2>2. test \in Units /\ test # Wake /\ test \notin Heard
    BY LedgerUnits DEF Units, ReviewedTests
  <2>3. CASE Completes(test)
    <3>1. PICK p : p = Partition(test, "result", "Pass")
      OBVIOUS
    <3>2. p \in Partitions /\ p.unit = test /\ p.rows = NoRows /\ ~p.waits
      BY <2>2, <3>1, PartitionIs DEF CardNames
    <3>3. Add(Catalogue(p))
      BY <2>3, <3>1 DEF Completes
    <3>4. QED
      BY <2>1, <2>2, <3>2, <3>3, AddsCatalogued DEF RowsThere, RunSingle
  <2>4. CASE Uncatalogued(test)
    BY <2>1, <2>2, <2>4, AddsPlain DEF RunSingle, Uncatalogued, CardNames
  <2>5. CASE Fails(test)
    BY <2>1, <2>2, <2>5, AddsPlain DEF RunSingle, Fails, CardNames
  <2>6. CASE Dies(test)
    BY <2>1, <2>2, <2>6, AddsPlain DEF RunSingle, Dies, CardNames
  <2>7. QED
    BY <2>1, <2>3, <2>4, <2>5, <2>6 DEF RunSingle
<1>2. CASE \E c \in WakeCases : RunWakeCase(c)
  <2>1. PICK c \in WakeCases : RunWakeCase(c)
    BY <1>2
  <2>2. c \in Units /\ c # Wake /\ c \notin Heard
    BY UnitsApart
  <2>3. CASE CaseCompletes(c)
    BY <2>1, <2>2, <2>3, AddsPlain DEF RunWakeCase, CaseCompletes, CardNames
  <2>4. CASE Fails(c)
    BY <2>1, <2>2, <2>4, AddsPlain DEF RunWakeCase, Fails, CardNames
  <2>5. CASE Dies(c)
    BY <2>1, <2>2, <2>5, AddsPlain DEF RunWakeCase, Dies, CardNames
  <2>6. QED
    BY <2>1, <2>3, <2>4, <2>5 DEF RunWakeCase
<1>3. CASE \E c \in Heard : RunSemanticCase(c)
  <2>1. PICK c \in Heard : RunSemanticCase(c)
    BY <1>3
  <2>2. c \in Units /\ c # Wake
    BY UnitsApart
  <2>3. PICK p : p = [Partition(c, "capture", "Pass") EXCEPT !.waits = TRUE]
    OBVIOUS
  <2>4. CASE Add(p)
    <3>1. Partition(c, "capture", "Pass") \in Partitions
      BY <2>2, PartitionIs DEF CardNames
    <3>2. /\ p \in Partitions /\ p.unit = c /\ p.card = "capture" /\ p.rows = NoRows
          /\ p.catalog = {} /\ p.capture = 0 /\ p.script = "Pass"
      BY <2>3, <3>1 DEF Partitions, Partition
    <3>3. NewFile(p, <<p.unit, Len(runs[p.unit]) + 1>>)
      BY <2>2, <3>2 DEF NewFile, RowsThere
    <3>4. QED
      BY <2>1, <2>4, <3>2, <3>3, AddsIt DEF RunSemanticCase
  <2>5. CASE Fails(c)
    BY <2>1, <2>2, <2>5, AddsPlain DEF RunSemanticCase, Fails, CardNames
  <2>6. CASE Dies(c)
    BY <2>1, <2>2, <2>6, AddsPlain DEF RunSemanticCase, Dies, CardNames
  <2>7. QED
    BY <2>1, <2>3, <2>4, <2>5, <2>6 DEF RunSemanticCase
<1>4. CASE Aggregate
  <2>1. PICK p : p = [Partition(Wake, "result", "Pass") EXCEPT !.rows = AggregateRows]
    OBVIOUS
  <2>2. \/ Add(Catalogue(p)) \/ AddMishap(p)
        \/ AddMishap(Partition(Wake, "none", "Incomplete"))
    BY <1>4, <2>1 DEF Aggregate, AggregateRows, Dies
  <2>3. CASE Add(Catalogue(p)) \/ AddMishap(p)
    BY <1>4, <2>1, <2>3, AddsAggregate DEF Aggregate
  <2>4. CASE AddMishap(Partition(Wake, "none", "Incomplete"))
    BY <1>4, <2>4, UnitsApart, AddsPlain DEF Aggregate, CardNames
  <2>5. QED
    BY <2>2, <2>3, <2>4
<1>5. QED
  BY <1>1, <1>2, <1>3, <1>4

\* The listener answers, does not answer, or the command dies while it waits.
LEMMA VerdictMoves ==
    ASSUME LedgerShape, NEW n \in Locators, HearVerdict(n)
    PROVE  /\ At(n).waits /\ UNCHANGED <<designation, reviews, final>>
           /\ \E q : /\ Rewrites(n, q) /\ ~q.waits
                     /\ q.rows = At(n).rows /\ q.catalog = At(n).catalog
                     /\ q.capture = At(n).capture
                     /\ \/ /\ q.card = "result" /\ q.verdict \in Sayings /\ q.script = At(n).script
                           /\ heard' = heard \cup {[test |-> n[1], at |-> n, said |-> q.verdict,
                                                    contents |-> {0}]}
                        \/ q.card = "result" /\ q.script = "Incomplete" /\ heard' = heard
                        \/ q.card = At(n).card /\ q.script = At(n).script /\ heard' = heard
                           /\ q.verdict = At(n).verdict /\ q.edited = At(n).edited
<1>1. At(n) \in Partitions /\ runs[n[1]][n[2]] = At(n)
  BY LocatorIs DEF At
<1>2. At(n).waits /\ UNCHANGED <<designation, reviews, final>>
  BY DEF HearVerdict
<1>3. ASSUME NEW said \in {"Pass", "Fail"},
             runs' = [runs EXCEPT ![n[1]][n[2]] =
                        [@ EXCEPT !.waits = FALSE, !.card = "result", !.verdict = said]],
             heard' = heard \cup {[test |-> n[1], at |-> n, said |-> said,
                                   contents |-> {0}]}
      PROVE  \E q : /\ Rewrites(n, q) /\ ~q.waits
                    /\ q.rows = At(n).rows /\ q.catalog = At(n).catalog
                    /\ q.capture = At(n).capture
                    /\ q.card = "result" /\ q.verdict = said /\ q.script = At(n).script
  <2>1. PICK q : q = [At(n) EXCEPT !.waits = FALSE, !.card = "result", !.verdict = said]
    OBVIOUS
  <2>2. q \in Partitions
    BY <1>1, <2>1 DEF Partitions, CardNames
  <2>3. runs' = [runs EXCEPT ![n[1]][n[2]] = q]
    BY <1>1, <1>3, <2>1
  <2>4. Rewrites(n, q)
    BY <2>2, <2>3, RewriteIs
  <2>5. /\ ~q.waits /\ q.rows = At(n).rows /\ q.catalog = At(n).catalog
        /\ q.capture = At(n).capture /\ q.card = "result" /\ q.verdict = said
        /\ q.script = At(n).script
    BY <1>1, <2>1 DEF Partitions
  <2>6. QED
    BY <2>4, <2>5
<1>4. ASSUME runs' = [runs EXCEPT ![n[1]][n[2]] =
                        [@ EXCEPT !.waits = FALSE, !.card = "result", !.script = "Incomplete"]]
      PROVE  \E q : /\ Rewrites(n, q) /\ ~q.waits
                    /\ q.rows = At(n).rows /\ q.catalog = At(n).catalog
                    /\ q.capture = At(n).capture /\ q.card = "result" /\ q.script = "Incomplete"
  <2>1. PICK q : q = [At(n) EXCEPT !.waits = FALSE, !.card = "result", !.script = "Incomplete"]
    OBVIOUS
  <2>2. q \in Partitions
    BY <1>1, <2>1 DEF Partitions, CardNames
  <2>3. runs' = [runs EXCEPT ![n[1]][n[2]] = q]
    BY <1>1, <1>4, <2>1
  <2>4. Rewrites(n, q)
    BY <2>2, <2>3, RewriteIs
  <2>5. /\ ~q.waits /\ q.rows = At(n).rows /\ q.catalog = At(n).catalog
        /\ q.capture = At(n).capture /\ q.card = "result" /\ q.script = "Incomplete"
    BY <1>1, <2>1 DEF Partitions
  <2>6. QED
    BY <2>4, <2>5
<1>5. ASSUME runs' = [runs EXCEPT ![n[1]][n[2]].waits = FALSE]
      PROVE  \E q : /\ Rewrites(n, q) /\ ~q.waits
                    /\ q.rows = At(n).rows /\ q.catalog = At(n).catalog
                    /\ q.capture = At(n).capture /\ q.card = At(n).card
                    /\ q.script = At(n).script /\ q.verdict = At(n).verdict
                    /\ q.edited = At(n).edited
  <2>1. PICK q : q = [At(n) EXCEPT !.waits = FALSE]
    OBVIOUS
  <2>2. q \in Partitions
    BY <1>1, <2>1 DEF Partitions
  <2>3. runs' = [runs EXCEPT ![n[1]][n[2]] = q]
    BY <1>1, <1>5, <2>1
  <2>4. Rewrites(n, q)
    BY <2>2, <2>3, RewriteIs
  <2>5. /\ ~q.waits /\ q.rows = At(n).rows /\ q.catalog = At(n).catalog
        /\ q.capture = At(n).capture /\ q.card = At(n).card
        /\ q.script = At(n).script /\ q.verdict = At(n).verdict /\ q.edited = At(n).edited
    BY <1>1, <2>1 DEF Partitions
  <2>6. QED
    BY <2>4, <2>5
<1>6. \/ \E said \in {"Pass", "Fail"} :
            /\ runs' = [runs EXCEPT ![n[1]][n[2]] =
                          [@ EXCEPT !.waits = FALSE, !.card = "result", !.verdict = said]]
            /\ heard' = heard \cup {[test |-> n[1], at |-> n, said |-> said,
                                     contents |-> {0}]}
      \/ /\ runs' = [runs EXCEPT ![n[1]][n[2]] =
                       [@ EXCEPT !.waits = FALSE, !.card = "result", !.script = "Incomplete"]]
         /\ heard' = heard
      \/ runs' = [runs EXCEPT ![n[1]][n[2]].waits = FALSE] /\ heard' = heard
  BY DEF HearVerdict
<1>7. QED
  BY SMTT(60), <1>2, <1>3, <1>4, <1>5, <1>6 DEF Sayings

\* A file changes on the disk: the capture, or the card and what it says.
EditsCard(n, q) == ~At(n).waits /\ q.edited # 0
LEMMA EditMoves ==
    ASSUME LedgerShape, NEW n \in Locators, Edit(n)
    PROVE  /\ UNCHANGED <<designation, reviews, heard, final>>
           /\ \E q : /\ Rewrites(n, q) /\ q.waits = At(n).waits
                     /\ q.rows = At(n).rows /\ q.catalog = At(n).catalog /\ q.card = At(n).card
                     /\ \/ EditsCard(n, q)
                        \/ /\ q.script = At(n).script /\ q.verdict = At(n).verdict
                           /\ q.edited = At(n).edited
<1>1. At(n) \in Partitions /\ runs[n[1]][n[2]] = At(n)
  BY LocatorIs DEF At
<1>2. UNCHANGED <<designation, reviews, heard, final>>
  BY DEF Edit
<1>3. CASE runs' = [runs EXCEPT ![n[1]][n[2]].capture = @ + 1]
  <2>1. PICK q : q = [At(n) EXCEPT !.capture = @ + 1]
    OBVIOUS
  <2>2. q \in Partitions /\ q.waits = At(n).waits
        /\ q.rows = At(n).rows /\ q.catalog = At(n).catalog /\ q.card = At(n).card
        /\ q.script = At(n).script /\ q.verdict = At(n).verdict /\ q.edited = At(n).edited
    BY <1>1, <2>1 DEF Partitions
  <2>3. runs' = [runs EXCEPT ![n[1]][n[2]] = q]
    BY <1>1, <1>3, <2>1
  <2>4. Rewrites(n, q)
    BY <2>2, <2>3, RewriteIs
  <2>5. QED
    BY <1>2, <2>2, <2>4
<1>4. ASSUME ~At(n).waits, NEW script \in {"Pass", "Incomplete"},
             NEW verdict \in {"none", "Pass", "Fail"},
             runs' = [runs EXCEPT ![n[1]][n[2]] =
                        [@ EXCEPT !.edited = At(n).edited + 1, !.script = script,
                                  !.verdict = verdict]]
      PROVE  \E q : /\ Rewrites(n, q) /\ q.waits = At(n).waits
                    /\ q.rows = At(n).rows /\ q.catalog = At(n).catalog /\ q.card = At(n).card
                    /\ EditsCard(n, q)
  <2>1. PICK q : q = [At(n) EXCEPT !.edited = At(n).edited + 1, !.script = script,
                                   !.verdict = verdict]
    OBVIOUS
  <2>2. q \in Partitions /\ q.waits = At(n).waits
        /\ q.rows = At(n).rows /\ q.catalog = At(n).catalog /\ q.card = At(n).card
        /\ q.edited # 0
    <3>1. At(n).edited \in Nat /\ At(n).edited + 1 \in Nat /\ At(n).edited + 1 # 0
      BY <1>1 DEF Partitions
    <3>2. q \in Partitions
      BY <1>1, <1>4, <2>1, <3>1 DEF Partitions
    <3>3. q.waits = At(n).waits /\ q.rows = At(n).rows /\ q.catalog = At(n).catalog
          /\ q.card = At(n).card /\ q.edited = At(n).edited + 1
      BY <1>1, <2>1 DEF Partitions
    <3>4. QED
      BY <3>1, <3>2, <3>3
  <2>3. runs' = [runs EXCEPT ![n[1]][n[2]] = q]
    BY <1>1, <1>4, <2>1
  <2>4. Rewrites(n, q)
    BY <2>2, <2>3, RewriteIs
  <2>5. QED
    BY <1>4, <2>2, <2>4 DEF EditsCard
<1>5. \/ runs' = [runs EXCEPT ![n[1]][n[2]].capture = @ + 1]
      \/ /\ ~At(n).waits
         /\ \E script \in {"Pass", "Incomplete"}, verdict \in {"none", "Pass", "Fail"} :
               runs' = [runs EXCEPT ![n[1]][n[2]] =
                          [@ EXCEPT !.edited = At(n).edited + 1, !.script = script,
                                    !.verdict = verdict]]
  <2>1. At(n).verdict \in {"none", "Pass", "Fail"}
    BY <1>1 DEF Partitions
  <2>2. QED
    BY <2>1 DEF Edit
<1>6. QED
  BY SMTT(60), <1>2, <1>3, <1>4, <1>5

\* A person's commands and finalize leave the files alone.
LEMMA FilesStand ==
    ASSUME UNCHANGED runs
    PROVE  Locators' = Locators /\ \A n : At(n)' = At(n) /\ Fresh(n)' = Fresh(n)
  BY DEF Locators, At, Fresh

\* The kinds of steps.
LEMMA LedgerSteps ==
    ASSUME LedgerShape, FilesInv, [LedgerNext]_ledger
    PROVE  \/ /\ \E q, k : Appends(q, k) /\ NewFile(q, k)
              /\ UNCHANGED <<designation, reviews, heard>>
           \/ \E n \in Locators : HearVerdict(n) \/ Edit(n) \/ Designate(n)
           \/ \E test \in ReviewedTests : Review(test)
           \/ UNCHANGED <<runs, designation, reviews, heard>>
<1>1. CASE Produce
  BY <1>1, RunMoves DEF Produce
<1>2. CASE Judge
  BY <1>2 DEF Judge, DesignateDies
<1>3. CASE Finalize \/ UNCHANGED ledger
  BY <1>3 DEF Finalize, ledger
<1>4. QED
  BY <1>1, <1>2, <1>3 DEF LedgerNext

\* What of a file never changes, and what does not change once nobody waits for it.
KeptFile(n) ==
    /\ At(n)'.rows = At(n).rows /\ At(n)'.catalog = At(n).catalog /\ Fresh(n)' = Fresh(n)
    /\ At(n).card # "none" => At(n)'.card # "none"
    /\ ~At(n).waits =>
          /\ At(n)'.card = At(n).card /\ ~At(n)'.waits
          /\ At(n)'.edited = 0 => /\ At(n).edited = 0 /\ At(n)'.script = At(n).script
                                 /\ At(n)'.verdict = At(n).verdict
LEMMA FilesStay ==
    ASSUME LedgerShape, FilesInv, [LedgerNext]_ledger
    PROVE  Locators \subseteq Locators' /\ \A n \in Locators : KeptFile(n)
<1>1. ASSUME NEW q, NEW k, Appends(q, k)
      PROVE  Locators \subseteq Locators' /\ \A n \in Locators : KeptFile(n)
  BY <1>1 DEF Appends, KeptFile, Fresh
<1>2. ASSUME NEW m, NEW q, Rewrites(m, q), q.rows = At(m).rows, q.catalog = At(m).catalog,
             At(m).card # "none" => q.card # "none",
             ~At(m).waits =>
                /\ q.card = At(m).card /\ ~q.waits
                /\ q.edited = 0 => /\ At(m).edited = 0 /\ q.script = At(m).script
                                  /\ q.verdict = At(m).verdict
      PROVE  Locators \subseteq Locators' /\ \A n \in Locators : KeptFile(n)
  <2>1. Locators' = Locators /\ At(m)' = q
    BY <1>2 DEF Rewrites
  <2>2. KeptFile(m)
    BY <1>2, <2>1 DEF KeptFile, Fresh
  <2>3. \A n \in Locators : n # m => KeptFile(n)
    BY <1>2 DEF Rewrites, KeptFile, Fresh
  <2>4. QED
    BY <2>1, <2>2, <2>3
<1>3. ASSUME NEW n \in Locators, HearVerdict(n)
      PROVE  Locators \subseteq Locators' /\ \A k \in Locators : KeptFile(k)
  <2>1. PICK q : /\ Rewrites(n, q) /\ q.rows = At(n).rows /\ q.catalog = At(n).catalog
                 /\ q.card \in {"result", At(n).card}
    BY <1>3, VerdictMoves
  <2>2. At(n).waits
    BY <1>3, VerdictMoves
  <2>3. QED
    BY <1>2, <2>1, <2>2
<1>4. ASSUME NEW n \in Locators, Edit(n)
      PROVE  Locators \subseteq Locators' /\ \A k \in Locators : KeptFile(k)
  <2>1. PICK q : /\ Rewrites(n, q) /\ q.rows = At(n).rows /\ q.catalog = At(n).catalog
                 /\ q.card = At(n).card /\ q.waits = At(n).waits
                 /\ \/ EditsCard(n, q)
                    \/ /\ q.script = At(n).script /\ q.verdict = At(n).verdict
                       /\ q.edited = At(n).edited
    BY <1>4, EditMoves
  <2>2. q.edited = 0 => /\ At(n).edited = 0 /\ q.script = At(n).script
                        /\ q.verdict = At(n).verdict
    BY <2>1 DEF EditsCard
  <2>3. QED
    BY <1>2, <2>1, <2>2
<1>5. ASSUME UNCHANGED runs
      PROVE  Locators \subseteq Locators' /\ \A n \in Locators : KeptFile(n)
  BY <1>5, FilesStand DEF KeptFile
<1>6. ASSUME NEW n \in Locators, Designate(n) PROVE UNCHANGED runs
  BY <1>6 DEF Designate
<1>7. ASSUME NEW test \in ReviewedTests, Review(test) PROVE UNCHANGED runs
  BY <1>7 DEF Review
<1>8. QED
  BY <1>1, <1>3, <1>4, <1>5, <1>6, <1>7, LedgerSteps

\* Verified evidence was never edited.
LEMMA VerifiedIsFresh ==
    ASSUME FilesInv, NEW n \in Locators, Verified(n)
    PROVE  Digest(n) = Fresh(n) /\ Contents(n) = At(n).catalog /\ At(n).catalog # {}
<1>1. Contents(n) = At(n).catalog /\ At(n).catalog # {}
  BY DEF Verified
<1>2. n \in Parts(n)
  BY DEF Parts
<1>3. <<n, Digest(n), At(n).capture>> \in At(n).catalog
  BY <1>1, <1>2 DEF Contents
<1>4. QED
  BY <1>1, <1>3 DEF FilesInv, CatalogOf

\* What a review is about.
LEMMA ReviewMoves ==
    ASSUME LedgerShape, FilesInv, NEW test \in ReviewedTests, Review(test)
    PROVE  \E n \in Locators, said \in Sayings, published \in BOOLEAN :
              /\ n[1] = test /\ At(n).script = "Pass" /\ At(n).catalog # {}
              /\ ~ \E r \in reviews : r.test = test /\ r.digest = Fresh(n)
              /\ reviews' = reviews \cup {[test |-> test, digest |-> Fresh(n), at |-> n,
                                           said |-> said, published |-> published]}
              /\ heard' = IF published
                          THEN heard \cup {[test |-> test, at |-> n, said |-> said,
                                            contents |-> At(n).catalog]}
                          ELSE heard
              /\ UNCHANGED <<runs, designation, final>>
<1> DEFINE n == Chosen(test)
<1>1. test \in Units
  BY UnitsApart
<1>2. n \in Selected(test)
  BY DEF Review, Chosen
<1>3. n \in Locators /\ n[1] = test
  BY <1>1, <1>2, SelectedIs
<1>4. Verified(n) /\ At(n).script = "Pass" /\ Recorded(test, n) = {}
  BY DEF Review
<1>5. Digest(n) = Fresh(n) /\ Contents(n) = At(n).catalog /\ At(n).catalog # {}
  BY <1>3, <1>4, VerifiedIsFresh
<1>6. ~ \E r \in reviews : r.test = test /\ r.digest = Fresh(n)
  BY <1>4, <1>5 DEF Recorded
<1>7. PICK said \in {"Pass", "Fail"}, published \in BOOLEAN :
          /\ reviews' = reviews \cup {[test |-> test, digest |-> Digest(n), at |-> n,
                                       said |-> said, published |-> published]}
          /\ heard' = IF published
                      THEN heard \cup {[test |-> test, at |-> n, said |-> said,
                                        contents |-> Contents(n)]}
                      ELSE heard
          /\ UNCHANGED <<runs, designation, final>>
  BY SMTT(60) DEF Review
<1> HIDE DEF n
<1>8. QED
  BY <1>3, <1>4, <1>5, <1>6, <1>7 DEF Sayings

\* What people said and what was recorded is never taken back.
LEMMA SaidGrows ==
    ASSUME LedgerShape, FilesInv, [LedgerNext]_ledger
    PROVE  heard \subseteq heard' /\ reviews \subseteq reviews'
<1>1. ASSUME NEW n \in Locators, HearVerdict(n)
      PROVE  heard \subseteq heard' /\ reviews \subseteq reviews'
  BY <1>1, VerdictMoves
<1>2. ASSUME NEW n \in Locators, Edit(n) \/ Designate(n)
      PROVE  heard \subseteq heard' /\ reviews \subseteq reviews'
  BY <1>2 DEF Edit, Designate
<1>3. ASSUME NEW test \in ReviewedTests, Review(test)
      PROVE  heard \subseteq heard' /\ reviews \subseteq reviews'
  BY <1>3, ReviewMoves
<1>4. QED
  BY <1>1, <1>2, <1>3, LedgerSteps

-----------------------------------------------------------------------------
(***************************************************************************)
(* The invariant of the ledger is inductive.                               *)
(***************************************************************************)
\* The types of the files and of the designations.
LEMMA LedgerShapeKept ==
    ASSUME LedgerShape, FilesInv, [LedgerNext]_ledger PROVE LedgerShape'
<1>1. ASSUME NEW q, NEW k, Appends(q, k), UNCHANGED designation PROVE LedgerShape'
  BY <1>1 DEF Appends, LedgerShape
<1>2. ASSUME NEW n \in Locators, HearVerdict(n) PROVE LedgerShape'
  BY <1>2, VerdictMoves DEF Rewrites, LedgerShape
<1>3. ASSUME NEW n \in Locators, Edit(n) PROVE LedgerShape'
  BY <1>3, EditMoves DEF Rewrites, LedgerShape
<1>4. ASSUME NEW n \in Locators, Designate(n) PROVE LedgerShape'
  <2>1. At(n) \in Partitions /\ Digest(n) \in Digests /\ n \in Locator
    BY LocatorIs, DigestIs
  <2>2. PICK d : d = [at |-> n, card |-> At(n).card, digest |-> Digest(n)]
    OBVIOUS
  <2>3. d \in [at : Locator, card : CardNames, digest : Digests]
    BY <2>1, <2>2 DEF Partitions
  <2>4. designation' = [designation EXCEPT ![n[1]] = d] /\ UNCHANGED runs
    BY <1>4, <2>2 DEF Designate
  <2>5. QED
    BY <2>3, <2>4 DEF LedgerShape
<1>5. ASSUME UNCHANGED <<runs, designation>> PROVE LedgerShape'
  BY <1>5 DEF LedgerShape
<1>6. ASSUME NEW test \in ReviewedTests, Review(test) PROVE LedgerShape'
  BY <1>5, <1>6 DEF Review
<1>7. QED
  BY <1>1, <1>2, <1>3, <1>4, <1>5, <1>6, LedgerSteps

\* A new file is as every file is.
LEMMA NewFileFits ==
    ASSUME LedgerShape, FilesInv, NEW p, NEW m, Appends(p, m), NewFile(p, m)
    PROVE  RowsOf(m)' /\ CatalogOf(m)' /\ (m[1] \in Heard => VerdictOf(m)')
<1>1. At(m)' = p /\ m[1] = p.unit /\ Locators \subseteq Locators'
  BY DEF Appends
<1>2. RowsOf(m)'
  BY <1>1 DEF RowsOf, NewFile, RowsThere
<1>3. Fresh(m)' = [file |-> IF m[1] = Wake THEN <<>> ELSE m, rows |-> p.rows, edited |-> 0]
  BY <1>1 DEF Fresh
<1>4. CatalogOf(m)'
  BY <1>1, <1>3 DEF CatalogOf, NewFile
<1>5. m[1] \in Heard => VerdictOf(m)'
  BY <1>1 DEF VerdictOf, NewFile
<1>6. QED
  BY <1>2, <1>4, <1>5

\* The files.
LEMMA FilesKept ==
    ASSUME LedgerShape, FilesInv, [LedgerNext]_ledger PROVE FilesInv'
<1>1. Locators \subseteq Locators' /\ \A n \in Locators : KeptFile(n)
  BY FilesStay
<1>2. heard \subseteq heard'
  BY SaidGrows
<1>3. ASSUME NEW n \in Locators PROVE RowsOf(n)' /\ CatalogOf(n)'
  <2>1. KeptFile(n) /\ RowsOf(n) /\ CatalogOf(n)
    BY <1>1 DEF FilesInv
  <2>2. RowsOf(n)'
    BY <1>1, <2>1, UnitsApart DEF KeptFile, RowsOf, CatalogOf
  <2>3. CatalogOf(n)'
    BY <2>1 DEF KeptFile, CatalogOf
  <2>4. QED
    BY <2>2, <2>3
<1>4. ASSUME NEW n \in Locators, n[1] \in Heard, At(n)' = At(n) PROVE VerdictOf(n)'
  BY <1>2, <1>4 DEF VerdictOf, FilesInv
<1>5. ASSUME NEW k \in Locators, HearVerdict(k), NEW n \in Locators, n[1] \in Heard
      PROVE  VerdictOf(n)'
  <2>1. CASE n # k
    BY <1>4, <1>5, <2>1, VerdictMoves DEF Rewrites
  <2>2. CASE n = k
    <3>1. VerdictOf(n) /\ At(n).waits
      BY <1>5, <2>2, VerdictMoves DEF FilesInv
    <3>2. PICK q : /\ Rewrites(n, q) /\ ~q.waits
                   /\ \/ /\ q.card = "result" /\ q.verdict \in Sayings
                         /\ heard' = heard \cup {[test |-> n[1], at |-> n, said |-> q.verdict,
                                                  contents |-> {0}]}
                      \/ q.script = "Incomplete"
                      \/ q.card = At(n).card /\ q.script = At(n).script
                         /\ q.edited = At(n).edited
      BY <1>5, <2>2, VerdictMoves
    <3>3. At(n)' = q
      BY <3>2 DEF Rewrites
    <3>4. At(n)'.waits => At(n)'.script = "Pass"
      BY <3>2, <3>3
    <3>5. ASSUME At(n)'.card = "result", At(n)'.script = "Pass", At(n)'.edited = 0
          PROVE  /\ ~At(n)'.waits /\ At(n)'.verdict \in Sayings
                 /\ [test |-> n[1], at |-> n, said |-> At(n)'.verdict,
                     contents |-> {0}] \in heard'
      <4>1. ~(q.card = At(n).card /\ q.script = At(n).script /\ q.edited = At(n).edited)
        BY <3>1, <3>3, <3>5 DEF VerdictOf
      <4>2. q.script # "Incomplete"
        BY <3>3, <3>5
      <4>3. QED
        BY <3>2, <3>3, <4>1, <4>2
    <3>6. QED
      BY <3>4, <3>5 DEF VerdictOf
  <2>3. QED
    BY <2>1, <2>2
<1>6. ASSUME NEW k \in Locators, Edit(k), NEW n \in Locators, n[1] \in Heard
      PROVE  VerdictOf(n)'
  <2>1. CASE n # k
    BY <1>4, <1>6, <2>1, EditMoves DEF Rewrites
  <2>2. CASE n = k
    <3>1. VerdictOf(n) /\ UNCHANGED heard
      BY <1>6, EditMoves DEF FilesInv
    <3>2. PICK q : /\ Rewrites(n, q) /\ q.waits = At(n).waits /\ q.card = At(n).card
                   /\ \/ EditsCard(n, q)
                      \/ /\ q.script = At(n).script /\ q.verdict = At(n).verdict
                         /\ q.edited = At(n).edited
      BY <1>6, <2>2, EditMoves
    <3>3. At(n)' = q
      BY <3>2 DEF Rewrites
    <3>4. QED
      BY <3>1, <3>2, <3>3 DEF VerdictOf, EditsCard
  <2>3. QED
    BY <2>1, <2>2
<1>7. ASSUME NEW p, NEW m, Appends(p, m), NewFile(p, m) PROVE FilesInv'
  <2>1. Locators' = Locators \cup {m} /\ \A n \in Locators : At(n)' = At(n)
    BY <1>7 DEF Appends
  <2>2. RowsOf(m)' /\ CatalogOf(m)' /\ (m[1] \in Heard => VerdictOf(m)')
    BY <1>7, NewFileFits
  <2>3. QED
    BY <1>3, <1>4, <2>1, <2>2 DEF FilesInv
<1>8. ASSUME NEW k \in Locators, HearVerdict(k) \/ Edit(k) PROVE FilesInv'
  <2>1. Locators' = Locators
    BY <1>8, VerdictMoves, EditMoves DEF Rewrites
  <2>2. QED
    BY <1>3, <1>5, <1>6, <1>8, <2>1 DEF FilesInv
<1>9. ASSUME UNCHANGED runs PROVE FilesInv'
  BY <1>3, <1>4, <1>9, FilesStand DEF FilesInv
<1>10. QED
  <2>1. ASSUME NEW n \in Locators, Designate(n) PROVE UNCHANGED runs
    BY <2>1 DEF Designate
  <2>2. ASSUME NEW test \in ReviewedTests, Review(test) PROVE UNCHANGED runs
    BY <2>2 DEF Review
  <2>3. QED
    BY <1>7, <1>8, <1>9, <2>1, <2>2, LedgerSteps

\* What was heard stays true.
LEMMA HeardStays ==
    ASSUME LedgerShape, FilesInv, HeardInv, [LedgerNext]_ledger, NEW h \in heard
    PROVE  /\ h.test \in ReviewedTests \cup Heard /\ h.at \in Locators' /\ h.at[1] = h.test
           /\ h.test \in Heard => Answered(h)'
           /\ h.test \in ReviewedTests => WasReviewed(h)'
<1>1. h.at \in Locators /\ h.at[1] = h.test /\ h.test \in ReviewedTests \cup Heard
  BY DEF HeardInv
<1>2. h.at \in Locators' /\ KeptFile(h.at) /\ CatalogOf(h.at)
  BY <1>1, FilesStay DEF FilesInv
<1>3. h.test \in Heard => Answered(h)'
  <2>1. SUFFICES ASSUME h.test \in Heard PROVE Answered(h)'
    OBVIOUS
  <2>2. Answered(h)
    BY <2>1 DEF HeardInv
  <2>3. QED
    BY <1>2, <2>2 DEF Answered, KeptFile
<1>4. h.test \in ReviewedTests => WasReviewed(h)'
  <2>1. SUFFICES ASSUME h.test \in ReviewedTests PROVE WasReviewed(h)'
    OBVIOUS
  <2>2. WasReviewed(h) /\ ~At(h.at).waits
    BY <1>1, <1>2, <2>1, UnitsApart DEF HeardInv, CatalogOf
  <2>3. reviews \subseteq reviews'
    BY SaidGrows
  <2>4. QED
    BY <1>2, <2>2, <2>3 DEF WasReviewed, KeptFile
<1>5. QED
  BY <1>1, <1>2, <1>3, <1>4

\* What people said.
LEMMA HeardKept ==
    ASSUME LedgerShape, FilesInv, HeardInv, [LedgerNext]_ledger PROVE HeardInv'
<1> DEFINE Fits(h) ==
        /\ h.test \in ReviewedTests \cup Heard /\ h.at \in Locators' /\ h.at[1] = h.test
        /\ h.test \in Heard => Answered(h)'
        /\ h.test \in ReviewedTests => WasReviewed(h)'
<1>1. \A h \in heard : Fits(h)
  BY HeardStays
<1>2. ASSUME NEW n \in Locators, HearVerdict(n) PROVE \A h \in heard' : Fits(h)
  <2>1. n[1] \in Heard /\ VerdictOf(n) /\ At(n).waits
    <3>1. At(n).waits
      BY <1>2, VerdictMoves
    <3>2. n[1] \in Heard
      BY <3>1 DEF FilesInv, CatalogOf
    <3>3. QED
      BY <3>1, <3>2 DEF FilesInv
  <2>2. PICK q : /\ Rewrites(n, q) /\ ~q.waits
                 /\ \/ /\ q.card = "result" /\ q.verdict \in Sayings /\ q.script = At(n).script
                       /\ heard' = heard \cup {[test |-> n[1], at |-> n, said |-> q.verdict,
                                                contents |-> {0}]}
                    \/ heard' = heard
    BY <1>2, VerdictMoves
  <2>3. At(n)' = q /\ n \in Locators'
    BY <2>2 DEF Rewrites
  <2>4. CASE heard' = heard
    BY <1>1, <2>4
  <2>5. CASE q.card = "result" /\ q.script = At(n).script
             /\ heard' = heard \cup {[test |-> n[1], at |-> n, said |-> q.verdict,
                                      contents |-> {0}]}
    <3>1. PICK h : h = [test |-> n[1], at |-> n, said |-> q.verdict,
                        contents |-> {0}]
      OBVIOUS
    <3>2. At(n).script = "Pass"
      BY <2>1 DEF VerdictOf
    <3>3. h.at = n /\ h.test = n[1] /\ h.said = q.verdict /\ h.contents = {0}
      BY <3>1
    <3>4. Answered(h)'
      BY <2>2, <2>3, <2>5, <3>2, <3>3 DEF Answered
    <3>5. Fits(h)
      BY <2>1, <2>3, <3>3, <3>4, UnitsApart
    <3> HIDE DEF Fits
    <3>6. QED
      BY <1>1, <2>5, <3>1, <3>5
  <2>6. QED
    BY <2>2, <2>4, <2>5
<1>3. ASSUME NEW test \in ReviewedTests, Review(test) PROVE \A h \in heard' : Fits(h)
  <2>1. PICK n \in Locators, said \in Sayings, published \in BOOLEAN :
              /\ n[1] = test /\ At(n).script = "Pass" /\ At(n).catalog # {}
              /\ reviews' = reviews \cup {[test |-> test, digest |-> Fresh(n), at |-> n,
                                           said |-> said, published |-> published]}
              /\ heard' = IF published
                          THEN heard \cup {[test |-> test, at |-> n, said |-> said,
                                            contents |-> At(n).catalog]}
                          ELSE heard
              /\ UNCHANGED runs
    BY <1>3, ReviewMoves
  <2>2. n \in Locators' /\ At(n)' = At(n) /\ Fresh(n)' = Fresh(n)
    BY <2>1, FilesStand
  <2>3. CASE ~published
    BY <1>1, <2>1, <2>3
  <2>4. CASE published
    <3>1. PICK h : h = [test |-> test, at |-> n, said |-> said, contents |-> At(n).catalog]
      OBVIOUS
    <3>2. PICK r : r = [test |-> test, digest |-> Fresh(n), at |-> n, said |-> said,
                        published |-> published]
      OBVIOUS
    <3>3. h.at = n /\ h.test = test /\ h.said = said /\ h.contents = At(n).catalog
      BY <3>1
    <3>4. r.test = test /\ r.digest = Fresh(n) /\ r.at = n /\ r.said = said
          /\ r.published /\ r \in reviews'
      BY <2>1, <2>4, <3>2
    <3>5. WasReviewed(h)'
      BY <2>1, <2>2, <3>3, <3>4 DEF WasReviewed
    <3>6. Fits(h)
      BY <2>1, <2>2, <3>3, <3>5, UnitsApart
    <3> HIDE DEF Fits
    <3>7. QED
      BY <1>1, <2>1, <2>4, <3>1, <3>6
  <2>5. QED
    BY <2>3, <2>4
<1>4. ASSUME UNCHANGED heard PROVE \A h \in heard' : Fits(h)
  BY SMTT(60), <1>1, <1>4
<1>5. ASSUME NEW n \in Locators, Edit(n) \/ Designate(n) PROVE UNCHANGED heard
  BY <1>5 DEF Edit, Designate
<1> HIDE DEF Fits
<1>6. \A h \in heard' : Fits(h)
  BY <1>2, <1>3, <1>4, <1>5, LedgerSteps
<1>7. QED
  BY <1>6 DEF Fits, HeardInv

\* The records of reviews.
LEMMA ReviewsKept ==
    ASSUME LedgerShape, FilesInv, ReviewsInv, [LedgerNext]_ledger PROVE ReviewsInv'
<1>1. ASSUME NEW r \in reviews
      PROVE  /\ r.test \in ReviewedTests /\ r.at \in Locators' /\ r.at[1] = r.test
             /\ r.digest = Fresh(r.at)' /\ r.said \in Sayings
             /\ r.published => [test |-> r.test, at |-> r.at, said |-> r.said,
                                contents |-> At(r.at).catalog]' \in heard'
  <2>1. /\ r.test \in ReviewedTests /\ r.at \in Locators /\ r.at[1] = r.test
        /\ r.digest = Fresh(r.at) /\ r.said \in Sayings
        /\ r.published => [test |-> r.test, at |-> r.at, said |-> r.said,
                           contents |-> At(r.at).catalog] \in heard
    BY DEF ReviewsInv
  <2>2. KeptFile(r.at) /\ r.at \in Locators'
    BY <2>1, FilesStay
  <2>3. heard \subseteq heard'
    BY SaidGrows
  <2>4. QED
    BY <2>1, <2>2, <2>3 DEF KeptFile
<1>2. ASSUME UNCHANGED reviews PROVE ReviewsInv'
  BY <1>1, <1>2 DEF ReviewsInv
<1>3. ASSUME NEW test \in ReviewedTests, Review(test) PROVE ReviewsInv'
  <2>1. PICK n \in Locators, said \in Sayings, published \in BOOLEAN :
              /\ n[1] = test
              /\ ~ \E r \in reviews : r.test = test /\ r.digest = Fresh(n)
              /\ reviews' = reviews \cup {[test |-> test, digest |-> Fresh(n), at |-> n,
                                           said |-> said, published |-> published]}
              /\ heard' = IF published
                          THEN heard \cup {[test |-> test, at |-> n, said |-> said,
                                            contents |-> At(n).catalog]}
                          ELSE heard
              /\ UNCHANGED runs
    BY <1>3, ReviewMoves
  <2>2. n \in Locators' /\ At(n)' = At(n) /\ Fresh(n)' = Fresh(n)
    BY <2>1, FilesStand
  <2>3. PICK r : r = [test |-> test, digest |-> Fresh(n), at |-> n, said |-> said,
                      published |-> published]
    OBVIOUS
  <2>4. r.test = test /\ r.digest = Fresh(n) /\ r.at = n /\ r.said = said
        /\ r.published = published /\ reviews' = reviews \cup {r}
    BY <2>1, <2>3
  <2>5. /\ r.test \in ReviewedTests /\ r.at \in Locators' /\ r.at[1] = r.test
        /\ r.digest = Fresh(r.at)' /\ r.said \in Sayings
        /\ r.published => [test |-> r.test, at |-> r.at, said |-> r.said,
                           contents |-> At(r.at).catalog]' \in heard'
    BY <2>1, <2>2, <2>4
  <2>6. \A s \in reviews : ~(r.test = s.test /\ r.digest = s.digest)
    BY <2>1, <2>4
  <2>7. \A s, t \in reviews : s.test = t.test /\ s.digest = t.digest => s = t
    BY SMTT(60) DEF ReviewsInv
  <2>8. QED
    BY <1>1, <2>4, <2>5, <2>6, <2>7 DEF ReviewsInv
<1>4. ASSUME NEW n \in Locators, HearVerdict(n) \/ Edit(n) \/ Designate(n)
      PROVE  UNCHANGED reviews
  BY <1>4 DEF HearVerdict, Edit, Designate
<1>5. QED
  BY <1>2, <1>3, <1>4, LedgerSteps

\* What was designated.
LEMMA DesignatedKept ==
    ASSUME LedgerShape, FilesInv, DesignatedInv, [LedgerNext]_ledger PROVE DesignatedInv'
<1> DEFINE Fits(d, u) == /\ d.at \in Locators' /\ d.at[1] = u /\ At(d.at)'.card # "none"
<1>1. ASSUME NEW u \in Units, NEW d, d = designation[u], d # None PROVE Fits(d, u)
  <2>1. d.at \in Locators /\ d.at[1] = u /\ At(d.at).card # "none"
    BY <1>1 DEF DesignatedInv
  <2>2. d.at \in Locators' /\ KeptFile(d.at)
    BY <2>1, FilesStay
  <2>3. QED
    BY <2>1, <2>2 DEF KeptFile
<1> HIDE DEF Fits
<1>2. (\A u \in Units : \A d : d = designation'[u] /\ d # None => Fits(d, u)) => DesignatedInv'
  <2>1. SUFFICES ASSUME \A u \in Units : \A d : d = designation'[u] /\ d # None => Fits(d, u)
                 PROVE  DesignatedInv'
    OBVIOUS
  <2>2. ASSUME NEW u \in Units, designation'[u] # None
        PROVE  /\ designation'[u].at \in Locators' /\ designation'[u].at[1] = u
               /\ At(designation[u].at)'.card # "none"
    <3>1. PICK d : d = designation'[u]
      OBVIOUS
    <3>2. d.at \in Locators' /\ d.at[1] = u /\ At(d.at)'.card # "none"
      BY <2>1, <2>2, <3>1 DEF Fits
    <3>3. At(d.at)' = runs'[d.at[1]][d.at[2]]
      BY DEF At
    <3>4. At(designation[u].at)' = runs'[designation'[u].at[1]][designation'[u].at[2]]
      BY DEF At
    <3>5. QED
      BY <3>1, <3>2, <3>3, <3>4
  <2>3. QED
    BY <2>2 DEF DesignatedInv
<1>3. ASSUME UNCHANGED designation PROVE DesignatedInv'
  BY <1>1, <1>2, <1>3
<1>4. ASSUME NEW n \in Locators, Designate(n) PROVE DesignatedInv'
  <2>1. /\ At(n).card # "none" /\ UNCHANGED runs
        /\ designation' = [designation EXCEPT ![n[1]] =
                             [at |-> n, card |-> At(n).card, digest |-> Digest(n)]]
    BY <1>4 DEF Designate
  <2>2. PICK d : d = [at |-> n, card |-> At(n).card, digest |-> Digest(n)]
    OBVIOUS
  <2>3. d.at = n /\ designation' = [designation EXCEPT ![n[1]] = d]
    BY <2>1, <2>2
  <2>4. At(n)' = At(n) /\ n \in Locators'
    BY <2>1, FilesStand
  <2>5. Fits(d, n[1])
    BY <2>1, <2>3, <2>4 DEF Fits
  <2>6. n[1] \in Units /\ DOMAIN designation = Units
    BY LocatorIs DEF LedgerShape
  <2>7. designation'[n[1]] = d /\ \A u \in Units : u # n[1] => designation'[u] = designation[u]
    BY SMTT(60), <2>3, <2>6
  <2>8. QED
    BY <1>1, <1>2, <2>5, <2>7
<1>5. ASSUME NEW n \in Locators, HearVerdict(n) \/ Edit(n) PROVE UNCHANGED designation
  BY <1>5 DEF HearVerdict, Edit
<1>6. ASSUME NEW test \in ReviewedTests, Review(test) PROVE UNCHANGED designation
  BY <1>6 DEF Review
<1>7. QED
  BY <1>3, <1>4, <1>5, <1>6, LedgerSteps

\* The invariant of the ledger, for every set of tests and cases and any number of
\* reruns, designations, mishaps and final verdicts.
THEOREM LedgerInvariant == LedgerSpec => []LInv
<1>1. LedgerInit => LInv
  <2>1. SUFFICES ASSUME LedgerInit PROVE LInv
    OBVIOUS
  <2>2. Locators = {} /\ heard = {} /\ reviews = {}
    BY <2>1 DEF LedgerInit, Locators
  <2>3. LedgerShape
    BY <2>1 DEF LedgerInit, LedgerShape
  <2>4. DesignatedInv
    BY <2>1 DEF LedgerInit, DesignatedInv
  <2>5. QED
    BY <2>2, <2>3, <2>4 DEF LInv, FilesInv, HeardInv, ReviewsInv
<1>2. LInv /\ [LedgerNext]_ledger => LInv'
  BY LedgerShapeKept, FilesKept, HeardKept, ReviewsKept, DesignatedKept DEF LInv
<1>3. QED
  BY <1>1, <1>2, PTL DEF LedgerSpec

-----------------------------------------------------------------------------
(***************************************************************************)
(* The loop over the cases of the semantic test.                           *)
(***************************************************************************)
\* Induction over the natural numbers, for a set of them: the finite subsets of a set
\* are well-founded under strict inclusion.
LEMMA SetInduction ==
    ASSUME NEW S \in SUBSET Nat, 0 \in S, \A n \in S : n + 1 \in S
    PROVE  S = Nat
<1> DEFINE Below(n) == {m \in Nat : m < n}
           Bad == {Below(n) : n \in Nat \ S}
<1>1. SUFFICES ASSUME S # Nat PROVE FALSE
  OBVIOUS
<1>2. \A n \in Nat : Below(n) \in FiniteSubsetsOf(Nat)
  <2>1. TAKE n \in Nat
  <2>2. Below(n) \in SUBSET Nat /\ \A m \in Below(n) : m <= n
    OBVIOUS
  <2> HIDE DEF Below
  <2>3. IsFiniteSet(Below(n))
    BY <2>2, FS_BoundedSetOfNaturals
  <2>4. QED
    BY <2>2, <2>3 DEF FiniteSubsetsOf
<1>3. Bad \subseteq FiniteSubsetsOf(Nat) /\ Bad # {}
  BY <1>1, <1>2
<1>4. PICK X \in Bad : \A Y \in Bad : ~(<<Y, X>> \in StrictSubsetOrdering(Nat))
  <2> HIDE DEF Bad
  <2>1. QED
    BY <1>3, FS_StrictSubsetOrderingWellFounded, WFMin
<1>5. PICK n \in Nat \ S : X = Below(n)
  OBVIOUS
<1>6. n # 0 /\ n - 1 \in Nat \ S
  OBVIOUS
<1>7. <<Below(n - 1), Below(n)>> \in StrictSubsetOrdering(Nat)
  <2>1. Below(n - 1) \subseteq Below(n) /\ n - 1 \in Below(n) /\ n - 1 \notin Below(n - 1)
    BY <1>6
  <2>2. QED
    BY <2>1 DEF StrictSubsetOrdering
<1>8. QED
  BY <1>4, <1>5, <1>6, <1>7

\* The largest of some positions.
LEMMA MaxIs ==
    ASSUME NEW n \in Nat, NEW X \in SUBSET Nat, X # {}, \A x \in X : x <= n
    PROVE  Max(X) \in X /\ \A y \in X : Max(X) >= y
<1> DEFINE K == {m \in Nat : \E x \in X : x >= m}
<1>1. 0 \in K /\ n + 1 \notin K
  <2>1. PICK x \in X : TRUE
    OBVIOUS
  <2>2. x >= 0
    OBVIOUS
  <2>3. QED
    BY <2>2
<1>2. PICK m \in K : m + 1 \notin K
  <2>1. K \in SUBSET Nat
    OBVIOUS
  <2> HIDE DEF K
  <2>3. n + 1 \in Nat
    OBVIOUS
  <2>4. K # Nat
    BY <1>1, <2>3
  <2>2. QED
    BY <1>1, <2>1, <2>4, SetInduction
<1>3. PICK x \in X : x >= m
  OBVIOUS
<1>4. \A y \in X : ~(y >= m + 1)
  BY <1>2
<1>5. \A y \in X : x >= y
  BY <1>3, <1>4
<1>6. QED
  BY <1>5 DEF Max

\* Whoever has the last position has it as its largest.
LEMMA LastIs ==
    ASSUME NEW n \in Nat, NEW X \in SUBSET (1..(n + 1)), n + 1 \in X
    PROVE  Max(X) = n + 1
<1>1. X \in SUBSET Nat /\ X # {} /\ n + 1 \in Nat /\ \A x \in X : x <= n + 1
  OBVIOUS
<1>2. Max(X) \in X /\ \A y \in X : Max(X) >= y
  BY <1>1, MaxIs
<1>3. Max(X) >= n + 1 /\ Max(X) <= n + 1 /\ Max(X) \in Nat
  BY <1>1, <1>2
<1>4. QED
  BY <1>3

CaseStates == {"Pass", "Fail", "Incomplete", "NeedsHumanReview"}
\* A case that leaves the state alone; every other spoils a Pass.
Clears(c) ==
    /\ At(Chosen(c)).card = "result" /\ Bound(c)
    /\ At(Chosen(c)).verdict \notin {"none", "Fail"}

\* One more case.
LEMMA AfterCaseIs ==
    ASSUME NEW c
    PROVE  /\ \A v \in CaseStates : AfterCase(v, c) \in CaseStates
           /\ \A v : AfterCase(v, c) = "Pass" <=> v = "Pass" /\ Clears(c)
  BY DEF AfterCase, CaseStates, Clears

\* The fold over a sequence of cases is a function that takes its steps.
IsFold(g, s, n) ==
    g = [X \in SUBSET (1..n) |->
            IF X = {} THEN "Pass" ELSE AfterCase(g[X \ {Max(X)}], s[Max(X)])]

\* There is one for every sequence.
LEMMA FoldExists ==
    ASSUME NEW s, NEW N \in Nat
    PROVE  \E g : IsFold(g, s, N)
<1> DEFINE Good(g, n) == IsFold(g, s, n) /\ \A X \in SUBSET (1..n) : g[X] \in CaseStates
           K == {n \in Nat : \E g : Good(g, n)}
<1>1. 0 \in K
  <2>1. Good([X \in SUBSET (1..0) |-> "Pass"], 0)
    BY DEF IsFold, CaseStates
  <2>2. QED
    BY <2>1
<1>2. ASSUME NEW n \in Nat, NEW g, Good(g, n)
      PROVE  \E h : Good(h, n + 1)
  <2> DEFINE h == [X \in SUBSET (1..(n + 1)) |->
                      IF n + 1 \in X THEN AfterCase(g[X \ {n + 1}], s[n + 1]) ELSE g[X]]
  <2>1. ASSUME NEW X \in SUBSET (1..(n + 1)), n + 1 \in X
        PROVE  h[X] = AfterCase(h[X \ {Max(X)}], s[Max(X)]) /\ h[X] \in CaseStates
    <3>1. Max(X) = n + 1
      BY <2>1, LastIs
    <3>2. X \ {n + 1} \in SUBSET (1..n) /\ X \ {n + 1} \in SUBSET (1..(n + 1))
      <4> HIDE DEF h
      <4>1. QED
        OBVIOUS
    <3>3. h[X] = AfterCase(g[X \ {n + 1}], s[n + 1]) /\ h[X \ {n + 1}] = g[X \ {n + 1}]
      BY <2>1, <3>2
    <3>4. g[X \ {n + 1}] \in CaseStates
      BY <1>2, <3>2
    <3>5. QED
      BY <3>1, <3>3, <3>4, AfterCaseIs
  <2>2. ASSUME NEW X \in SUBSET (1..(n + 1)), n + 1 \notin X
        PROVE  /\ h[X] = IF X = {} THEN "Pass" ELSE AfterCase(h[X \ {Max(X)}], s[Max(X)])
               /\ h[X] \in CaseStates
    <3>1. PICK Y : Y = X \ {Max(X)}
      OBVIOUS
    <3>2. X \in SUBSET (1..n) /\ Y \in SUBSET (1..n)
      <4> HIDE DEF h
      <4>1. X \in SUBSET (1..n)
        BY <2>2
      <4>2. QED
        BY <3>1, <4>1
    <3>3. n + 1 \notin Y /\ Y \in SUBSET (1..(n + 1))
      <4> HIDE DEF h
      <4>1. QED
        BY <3>2
    <3>4. h[X] = g[X] /\ h[Y] = g[Y]
      BY <2>2, <3>3
    <3>5. g[X] = IF X = {} THEN "Pass" ELSE AfterCase(g[Y], s[Max(X)])
      BY <1>2, <3>1, <3>2 DEF IsFold
    <3>6. g[X] \in CaseStates
      BY <1>2, <3>2
    <3> HIDE DEF h
    <3>7. QED
      BY <3>1, <3>4, <3>5, <3>6
  <2>3. \A X \in SUBSET (1..(n + 1)) :
            /\ h[X] = IF X = {} THEN "Pass" ELSE AfterCase(h[X \ {Max(X)}], s[Max(X)])
            /\ h[X] \in CaseStates
    <3>1. TAKE X \in SUBSET (1..(n + 1))
    <3>2. CASE n + 1 \in X
      BY <2>1, <3>2
    <3>3. CASE n + 1 \notin X
      BY <2>2, <3>3
    <3>4. QED
      BY <3>2, <3>3
  <2>4. h = [X \in SUBSET (1..(n + 1)) |-> h[X]]
    OBVIOUS
  <2> HIDE DEF h
  <2>5. Good(h, n + 1)
    BY <2>3, <2>4 DEF IsFold
  <2>6. QED
    BY <2>5
<1> HIDE DEF Good
<1>3. \A n \in K : n + 1 \in K
  <2>1. TAKE n \in K
  <2>2. PICK g : Good(g, n)
    OBVIOUS
  <2>3. PICK h : Good(h, n + 1)
    BY <1>2, <2>2
  <2>4. QED
    BY <2>3
<1>4. K \in SUBSET Nat
  OBVIOUS
<1>5. K = Nat
  <2> HIDE DEF K
  <2>1. QED
    BY <1>1, <1>3, <1>4, SetInduction
<1>6. N \in K
  BY <1>5
<1>7. QED
  BY <1>6 DEF Good

\* The fold of a sequence is Pass if and only if every case of it clears.
LEMMA FoldPasses ==
    ASSUME NEW s \in Seq(Heard)
    PROVE  /\ FoldLeft(AfterCase, "Pass", s) \in CaseStates
           /\ FoldLeft(AfterCase, "Pass", s) = "Pass" <=> \A i \in 1..Len(s) : Clears(s[i])
<1>1. DOMAIN s = 1..Len(s) /\ Len(s) \in Nat
  OBVIOUS
<1> DEFINE iter == CHOOSE g : IsFold(g, s, Len(s))
<1>2. IsFold(iter, s, Len(s))
  BY <1>1, FoldExists
<1>3. FoldLeft(AfterCase, "Pass", s) = iter[1..Len(s)]
  BY <1>1 DEF FoldLeft, MapThenFoldSet, IsFold
<1> HIDE DEF iter
<1>4. ASSUME NEW n \in Nat, n + 1 <= Len(s), iter[1..n] \in CaseStates,
             iter[1..n] = "Pass" <=> \A i \in 1..n : Clears(s[i])
      PROVE  /\ iter[1..(n + 1)] \in CaseStates
             /\ iter[1..(n + 1)] = "Pass" <=> \A i \in 1..(n + 1) : Clears(s[i])
  <2>1. PICK X : X = 1..(n + 1)
    OBVIOUS
  <2>2. X \in SUBSET (1..Len(s)) /\ n + 1 \in X /\ X # {} /\ X \in SUBSET (1..(n + 1))
        /\ X \ {n + 1} = 1..n
    <3>1. n + 1 \in Nat /\ n + 1 <= Len(s) /\ Len(s) \in Nat
      BY <1>1, <1>4
    <3>2. \A m \in Int : m \in X <=> 1 <= m /\ m <= n + 1
      BY <2>1
    <3>3. QED
      BY <2>1, <3>1, <3>2
  <2>3. Max(X) = n + 1
    BY <2>2, LastIs
  <2>4. iter[X] = AfterCase(iter[X \ {Max(X)}], s[Max(X)])
    BY <1>2, <2>2 DEF IsFold
  <2>5. iter[X] = AfterCase(iter[1..n], s[n + 1])
    BY <2>2, <2>3, <2>4
  <2>6. /\ iter[X] \in CaseStates
        /\ iter[X] = "Pass" <=> iter[1..n] = "Pass" /\ Clears(s[n + 1])
    <3>1. PICK v \in CaseStates : v = iter[1..n]
      BY <1>4
    <3>2. iter[X] = AfterCase(v, s[n + 1])
      BY <2>5, <3>1
    <3>3. QED
      BY <3>1, <3>2, AfterCaseIs
  <2>7. (\A i \in 1..(n + 1) : Clears(s[i])) <=> (\A i \in 1..n : Clears(s[i])) /\ Clears(s[n + 1])
    OBVIOUS
  <2>8. QED
    BY <1>4, <2>1, <2>6, <2>7
<1> DEFINE K == {n \in Nat : n <= Len(s) =>
                    /\ iter[1..n] \in CaseStates
                    /\ iter[1..n] = "Pass" <=> \A i \in 1..n : Clears(s[i])}
<1>5. 0 \in K
  <2>1. 1..0 = {} /\ {} \in SUBSET (1..Len(s))
    OBVIOUS
  <2>2. iter[{}] = "Pass"
    BY <1>2, <2>1 DEF IsFold
  <2>3. QED
    BY <2>1, <2>2 DEF CaseStates
<1>6. \A n \in K : n + 1 \in K
  BY <1>1, <1>4
<1>7. K \in SUBSET Nat
  OBVIOUS
<1>8. K = Nat
  <2> HIDE DEF K
  <2>1. QED
    BY <1>5, <1>6, <1>7, SetInduction
<1>9. QED
  BY <1>1, <1>3, <1>8

\* The order of the cases names each of them.
LEMMA OrderOfCases ==
    /\ SetToSeq(Heard) \in Seq(Heard)
    /\ \A c \in Heard : \E i \in 1..Len(SetToSeq(Heard)) : SetToSeq(Heard)[i] = c
<1> DEFINE N == Cardinality(Heard)
           order == SetToSeq(Heard)
<1>1. N \in Nat /\ ExistsBijection(1..N, Heard) /\ IsFiniteSet(Heard)
  BY LedgerBounds, FS_CardinalityType
<1>2. \E f \in [1..N -> Heard] : IsInjective(f)
  BY <1>1 DEF ExistsBijection, Bijection, Injection
<1>3. order \in [1..N -> Heard] /\ IsInjective(order)
  BY <1>2 DEF SetToSeq
<1> HIDE DEF order
<1>4. order \in Injection(1..N, Heard)
  BY <1>3 DEF Injection
<1>5. IsFiniteSet(1..N) /\ Cardinality(1..N) = N
  BY <1>1, FS_Interval
<1>6. order \in Surjection(1..N, Heard)
  BY <1>1, <1>4, <1>5, FS_Injection
<1>7. order \in Seq(Heard) /\ Len(order) = N
  BY <1>1, <1>3
<1>8. QED
  BY <1>6, <1>7 DEF Surjection, order

\* The semantic test passes if and only if every case does.
LEMMA ListenedIs ==
    /\ Listened \in CaseStates
    /\ Listened = "Pass" <=>
          \A c \in Heard : Selected(c) # {} /\ At(Chosen(c)).script = "Pass" /\ Clears(c)
<1>1. /\ FoldLeft(AfterCase, "Pass", SetToSeq(Heard)) \in CaseStates
      /\ FoldLeft(AfterCase, "Pass", SetToSeq(Heard)) = "Pass" <=> \A c \in Heard : Clears(c)
  <2>1. PICK s : s = SetToSeq(Heard)
    OBVIOUS
  <2>2. s \in Seq(Heard) /\ \A c \in Heard : \E i \in 1..Len(s) : s[i] = c
    BY <2>1, OrderOfCases
  <2>3. \A i \in 1..Len(s) : s[i] \in Heard
    BY <2>2
  <2>4. /\ FoldLeft(AfterCase, "Pass", s) \in CaseStates
        /\ FoldLeft(AfterCase, "Pass", s) = "Pass" <=> \A i \in 1..Len(s) : Clears(s[i])
    BY <2>2, FoldPasses
  <2>5. QED
    BY <2>1, <2>2, <2>3, <2>4
<1>2. QED
  BY <1>1 DEF Listened, CaseStates

-----------------------------------------------------------------------------
(***************************************************************************)
(* The verdicts.                                                           *)
(***************************************************************************)
\* What is selected is what stands.
LEMMA SelectedStands ==
    ASSUME LInv, NEW u \in Units, Selected(u) # {}
    PROVE  Standing(u) = {Chosen(u)} /\ Chosen(u) \in Locators /\ Chosen(u)[1] = u
           /\ At(Chosen(u)).card # "none"
<1>1. LedgerShape /\ Chosen(u) \in Selected(u)
  BY DEF LInv, Chosen
<1>2. Chosen(u) \in Locators /\ Chosen(u)[1] = u /\ At(Chosen(u)).card # "none"
      /\ Chosen(u) \in Cards(u)
  BY <1>1, SelectedIs
<1>3. CASE designation[u] = None
  <2>1. Selected(u) = Cards(u) /\ Cardinality(Cards(u)) = 1
    BY <1>1, <1>3 DEF Selected
  <2>2. runs[u] \in Seq(Partitions)
    BY <1>1 DEF LedgerShape
  <2>3. DOMAIN runs[u] = 1..Len(runs[u]) /\ Len(runs[u]) \in Nat
    BY <2>2
  <2>4. IsFiniteSet({u} \X (1..Len(runs[u])))
    <3>1. PICK last \in Int : last = Len(runs[u])
      BY <2>3
    <3>2. 1 \in Int
      OBVIOUS
    <3>3. IsFiniteSet(1..last)
      BY ONLY <3>2, <3>1, FS_Interval
    <3>4. IsFiniteSet({u})
      BY FS_Singleton
    <3>5. QED
      BY <3>1, <3>3, <3>4, FS_Product
  <2>5. Cards(u) \in SUBSET ({u} \X (1..Len(runs[u])))
    BY <2>3 DEF Cards
  <2>6. IsFiniteSet(Cards(u))
    BY <2>4, <2>5, FS_Subset
  <2>7. \E n : Cards(u) = {n}
    BY <2>1, <2>6, FS_Singleton
  <2>8. QED
    BY <1>2, <1>3, <2>7 DEF Standing
<1>4. CASE designation[u] # None
  <2>1. designation[u] = [at |-> Chosen(u), card |-> At(Chosen(u)).card,
                          digest |-> Digest(Chosen(u))]
    BY <1>1, <1>4 DEF Selected
  <2>2. designation[u].at = Chosen(u)
    BY <2>1
  <2>3. QED
    BY <1>2, <1>4, <2>2 DEF Standing
<1>5. QED
  BY <1>3, <1>4

\* What stands alone and unchanged is selected.
LEMMA StandingIsSelected ==
    ASSUME LInv, NEW u \in Units, NEW n, Standing(u) = {n}, Stands(u)
    PROVE  Selected(u) = {n} /\ Chosen(u) = n /\ n \in Locators /\ n[1] = u
<1>1. LedgerShape /\ Legible(u) /\ Unchanged(u)
  BY DEF LInv, Stands
<1>2. Selected(u) = {n}
  <2>1. CASE designation[u] = None
    <3>1. Cards(u) = {n}
      BY <2>1 DEF Standing
    <3>2. Cardinality(Cards(u)) = 1
      BY <3>1, FS_Singleton
    <3>3. QED
      BY <1>1, <2>1, <3>1, <3>2 DEF Selected
  <2>2. CASE designation[u] # None
    <3>1. PICK d : d = designation[u]
      OBVIOUS
    <3>2. d.at = n
      BY <2>2, <3>1 DEF Standing
    <3>3. n \in Locators /\ n[1] = u /\ At(n).card # "none"
      BY <2>2, <3>1, <3>2 DEF LInv, DesignatedInv
    <3>4. n = <<u, n[2]>> /\ n[2] \in DOMAIN runs[u]
      <4>1. n = <<n[1], n[2]>> /\ n[2] \in 1..Len(runs[n[1]])
        BY <1>1, <3>3, LocatorIs
      <4>2. runs[u] \in Seq(Partitions)
        BY <1>1 DEF LedgerShape
      <4>3. QED
        BY <3>3, <4>1, <4>2
    <3>5. n \in Cards(u)
      BY <3>3, <3>4 DEF Cards
    <3>6. d = [at |-> n, card |-> At(n).card, digest |-> Digest(n)]
      BY <1>1, <2>2, <3>1 DEF Unchanged, Standing
    <3>7. \A k : d = [at |-> k, card |-> At(k).card, digest |-> Digest(k)] => k = n
      BY <3>2
    <3>8. QED
      BY <1>1, <2>2, <3>1, <3>5, <3>6, <3>7 DEF Selected
  <2>3. QED
    BY <2>1, <2>2
<1>3. Chosen(u) = n
  BY <1>2 DEF Chosen
<1>4. QED
  BY <1>1, <1>2, <1>3, SelectedIs

\* When the cases stand, every capture of a case is whole.
LEMMA CasesAreThere == (\A c \in WakeCases : Stands(c)) => Torn("wake") = {}
<1>1. SUFFICES ASSUME \A c \in WakeCases : Stands(c) PROVE Torn("wake") = {}
  OBVIOUS
<1>2. PICK c \in WakeCases : Stands(c)
  BY <1>1, UnitsApart
<1>3. Captures(c) = {"wake"}
  BY UnitsApart DEF Captures
<1>4. QED
  BY <1>2, <1>3 DEF Stands

\* A reviewed result that stands on what was shown is verified, and its review is the one
\* that was recorded.
LEMMA JudgedTest ==
    ASSUME LInv, NEW test \in ReviewedTests, NEW said, SaidOf(test, said), Stands(test),
           test = Wake => Torn("wake") = {}
    PROVE  /\ Selected(test) # {} /\ Verified(Chosen(test))
           /\ Standing(test) = {Chosen(test)}
           /\ Chosen(test) \in Locators /\ Chosen(test)[1] = test
           /\ (test = Wake => AggregateIsCurrent) => Reviewed(test) = said
<1>1. LedgerShape /\ FilesInv /\ HeardInv /\ ReviewsInv /\ test \in Units /\ test \notin Heard
  BY UnitsApart DEF LInv
<1>2. PICK h \in heard : /\ h.test = test /\ h.said = said /\ Standing(test) = {h.at}
                         /\ h.contents = Contents(h.at)
  BY <1>1 DEF SaidOf
<1>3. PICK n : n = h.at
  OBVIOUS
<1>4. Selected(test) = {n} /\ Chosen(test) = n /\ n \in Locators /\ n[1] = test
  BY <1>1, <1>2, <1>3, StandingIsSelected
<1>5. /\ At(n).edited = 0 => At(n).script = "Pass"
      /\ At(n).catalog # {} /\ Contents(n) = At(n).catalog
  BY <1>1, <1>2, <1>3 DEF HeardInv, WasReviewed
<1>6. PICK r \in reviews : r.test = test /\ r.at = n /\ r.said = said
                           /\ r.published /\ r.digest = Fresh(n)
  BY <1>1, <1>2, <1>3 DEF HeardInv, WasReviewed
<1>7. \A c \in DOMAIN At(n).rows : Digest(At(n).rows[c].at) = At(n).rows[c].digest
  <2>1. SUFFICES ASSUME NEW c \in DOMAIN At(n).rows
                 PROVE  Digest(At(n).rows[c].at) = At(n).rows[c].digest
    OBVIOUS
  <2>2. At(n).rows \in Rows
    BY <1>1, <1>4, LocatorIs DEF Partitions
  <2>3. At(n).rows # NoRows /\ c \in WakeCases
    BY <2>1, <2>2 DEF Rows, NoRows
  <2>4. PICK k : k = At(n).rows[c].at
    OBVIOUS
  <2>5. k \in Parts(n)
    BY <2>1, <2>4 DEF Parts
  <2>6. <<k, Digest(k), At(k).capture>> \in At(n).catalog
    BY <1>5, <2>5 DEF Contents
  <2>7. \A e \in At(n).catalog : e[1] = k => e[2] = At(n).rows[c].digest
    BY <1>1, <1>4, <2>3, <2>4 DEF FilesInv, CatalogOf
  <2>8. QED
    BY <2>4, <2>6, <2>7
<1>8. Verified(n)
  BY <1>4, <1>5, <1>7 DEF Verified
<1>9. Digest(n) = Fresh(n) /\ At(n).script = "Pass"
  <2>1. Digest(n) = Fresh(n)
    BY <1>1, <1>4, <1>8, VerifiedIsFresh
  <2>2. At(n).edited = 0
    BY <2>1 DEF Digest, Fresh
  <2>3. QED
    BY <1>5, <2>1, <2>2
<1>10. Recorded(test, n) = {r}
  BY <1>1, <1>6, <1>9 DEF Recorded, ReviewsInv
<1>11. ASSUME test = Wake => AggregateIsCurrent PROVE Reviewed(test) = said
  <2>1. (CHOOSE x \in Recorded(test, n) : TRUE) = r
    BY <1>10
  <2>2. QED
    BY <1>4, <1>6, <1>8, <1>9, <1>10, <1>11, <2>1 DEF Reviewed
<1>12. QED
  BY <1>2, <1>3, <1>4, <1>8, <1>11

\* An aggregate that stands on the cases that stand is current.
LEMMA WholeIsCurrent ==
    ASSUME LInv, NEW said, SaidOf(Wake, said), Stands(Wake), WakeIsWhole,
           \A c \in WakeCases : Stands(c)
    PROVE  AggregateIsCurrent
<1>1. LedgerShape /\ Wake \in ReviewedTests /\ Torn("wake") = {}
  BY UnitsApart, CasesAreThere DEF LInv
<1>2. PICK n : n = Chosen(Wake)
  OBVIOUS
<1>3. Selected(Wake) # {} /\ Verified(n) /\ Standing(Wake) = {n} /\ n \in Locators
  BY <1>1, <1>2, JudgedTest
<1>4. ASSUME NEW c \in WakeCases
      PROVE  Selected(c) # {}
             /\ At(n).rows[c] = [at |-> Chosen(c), digest |-> Digest(Chosen(c))]
  <2>1. c \in DOMAIN At(n).rows /\ Standing(c) = {At(n).rows[c].at}
    BY <1>3 DEF WakeIsWhole
  <2>2. PICK row : row = At(n).rows[c]
    OBVIOUS
  <2>3. row \in Row
    <3>1. At(n).rows \in Rows
      BY <1>1, <1>3, LocatorIs DEF Partitions
    <3>2. QED
      BY <2>1, <2>2, <3>1 DEF Rows, NoRows
  <2>4. Selected(c) = {row.at} /\ Chosen(c) = row.at
    <3>1. c \in Units /\ Stands(c)
      BY UnitsApart
    <3>2. QED
      BY <2>1, <2>2, <3>1, StandingIsSelected
  <2>5. Digest(row.at) = row.digest
    BY <1>3, <2>1, <2>2 DEF Verified
  <2>6. row = [at |-> row.at, digest |-> row.digest]
    BY <2>3 DEF Row
  <2>7. QED
    BY <2>2, <2>4, <2>5, <2>6
<1>5. QED
  BY <1>2, <1>3, <1>4 DEF AggregateIsCurrent

\* A case that stands on what was heard, a Pass, clears.
LEMMA JudgedCase ==
    ASSUME LInv, NEW c \in Heard, SaidOf(c, "Pass"), Stands(c), ~TakenAsWritten(c)
    PROVE  Selected(c) # {} /\ At(Chosen(c)).script = "Pass" /\ Clears(c)
<1>1. HeardInv /\ c \in Units
  BY UnitsApart DEF LInv
<1>2. PICK h \in heard : /\ h.test = c /\ h.said = "Pass" /\ Standing(c) = {h.at}
                         /\ h.contents = {At(h.at).capture}
  BY DEF SaidOf
<1>3. Selected(c) = {h.at} /\ Chosen(c) = h.at
  BY <1>1, <1>2, StandingIsSelected
<1>4. /\ At(h.at).card = "result" /\ h.contents = {0}
      /\ At(h.at).edited = 0 => At(h.at).script = "Pass" /\ At(h.at).verdict = "Pass"
  BY <1>1, <1>2 DEF HeardInv, Answered
<1>5. At(h.at).capture = 0
  BY <1>2, <1>4
<1>6. At(h.at).edited = 0
  <2>1. ~(At(h.at).edited > 0)
    BY <1>2, <1>5 DEF TakenAsWritten
  <2>2. At(h.at).edited \in Nat
    <3>1. LedgerShape /\ h.at \in Locators
      BY <1>1, <1>2 DEF LInv, HeardInv
    <3>2. At(h.at) \in Partitions
      BY <3>1, LocatorIs
    <3>3. QED
      BY <3>2 DEF Partitions
  <2>3. QED
    BY <2>1, <2>2
<1>7. Torn("semantic") = {}
  BY DEF Stands, Captures
<1>8. QED
  BY <1>3, <1>4, <1>5, <1>6, <1>7 DEF Clears, Bound

\* The verdict of a judged test is what was said, for every set of tests and cases: what is
\* selected is what stands, its catalog is what the person was shown, and it is read again.
THEOREM JudgedVerdictStands == LedgerSpec => []JudgedIsFinal
<1>1. LInv => JudgedIsFinal
  <2>1. SUFFICES ASSUME LInv PROVE JudgedIsFinal
    OBVIOUS
  <2>2. ASSUME NEW test \in ReviewedTests, NEW said \in {"Pass", "Fail"},
               SaidOf(test, said), Stands(test),
               test = Wake => WakeIsWhole /\ \A c \in WakeCases : Stands(c)
        PROVE  Reviewed(test) = said
    <3>1. test = Wake => AggregateIsCurrent
      BY <2>1, <2>2, WholeIsCurrent
    <3>2. QED
      BY <2>1, <2>2, <3>1, CasesAreThere, JudgedTest
  <2>3. ASSUME \A c \in Heard : SaidOf(c, "Pass") /\ Stands(c) /\ ~TakenAsWritten(c)
        PROVE  Listened = "Pass"
    BY <2>1, <2>3, JudgedCase, ListenedIs
  <2>4. QED
    BY <2>2, <2>3 DEF JudgedIsFinal
<1>2. QED
  BY <1>1, LedgerInvariant, PTL

\* What Reviewed can say, and what it takes to say Pass.
LEMMA ReviewedIs ==
    ASSUME LInv, NEW test \in ReviewedTests
    PROVE  /\ Reviewed(test) \in {"Pass", "Fail", "Incomplete", "NeedsDeveloperReview"}
           /\ Reviewed(test) = "Pass" =>
                 SaidOf(test, "Pass") /\ (test = Wake => AggregateIsCurrent)
<1>1. LedgerShape /\ FilesInv /\ ReviewsInv /\ test \in Units /\ test \notin Heard
  BY UnitsApart DEF LInv
<1>2. CASE Selected(test) = {} \/ (test = Wake /\ ~AggregateIsCurrent)
  BY <1>2 DEF Reviewed
<1>3. CASE Selected(test) # {} /\ (test = Wake => AggregateIsCurrent)
  <2>1. PICK n : n = Chosen(test)
    OBVIOUS
  <2>2. Standing(test) = {n} /\ n \in Locators /\ n[1] = test
    BY <1>1, <1>3, <2>1, SelectedStands
  <2>3. At(n).script \in {"Pass", "Incomplete"}
    BY <1>1, <2>2, LocatorIs DEF Partitions
  <2>4. CASE At(n).script # "Pass" \/ Recorded(test, n) = {}
    BY <1>3, <2>1, <2>3, <2>4 DEF Reviewed
  <2>5. CASE At(n).script = "Pass" /\ Recorded(test, n) # {}
    <3>1. PICK r : r = CHOOSE x \in Recorded(test, n) : TRUE
      OBVIOUS
    <3>2. r \in reviews /\ r.test = test
      BY <2>5, <3>1 DEF Recorded
    <3>3. r.said \in Sayings
      BY <1>1, <3>2 DEF ReviewsInv
    <3>4. Reviewed(test) = IF r.at = n /\ Verified(n) /\ r.published THEN r.said
                           ELSE "Incomplete"
      BY <1>3, <2>1, <2>5, <3>1 DEF Reviewed
    <3>5. ASSUME r.at = n, Verified(n), r.published, r.said = "Pass"
          PROVE  SaidOf(test, "Pass")
      <4>1. PICK h : h = [test |-> test, at |-> n, said |-> "Pass",
                          contents |-> At(n).catalog]
        OBVIOUS
      <4>2. h \in heard
        BY <1>1, <3>2, <3>5, <4>1 DEF ReviewsInv
      <4>3. h.contents = Contents(n) /\ h.test = test /\ h.at = n /\ h.said = "Pass"
        BY <1>1, <2>2, <3>5, <4>1, VerifiedIsFresh
      <4>4. QED
        BY <1>1, <2>2, <4>2, <4>3 DEF SaidOf
    <3>6. QED
      BY <1>3, <3>3, <3>4, <3>5 DEF Sayings
  <2>6. QED
    BY <2>4, <2>5
<1>4. QED
  BY <1>2, <1>3

\* The aggregate that is current is made of the cases that stand.
LEMMA CurrentIsWhole ==
    ASSUME LInv, AggregateIsCurrent PROVE WakeIsWhole
<1>1. LedgerShape /\ FilesInv /\ Wake \in Units /\ Selected(Wake) # {}
  BY UnitsApart DEF LInv, AggregateIsCurrent
<1>2. PICK n : n = Chosen(Wake)
  OBVIOUS
<1>3. Standing(Wake) = {n} /\ n \in Locators /\ n[1] = Wake /\ At(n).card # "none"
  BY <1>1, <1>2, SelectedStands
<1>4. DOMAIN At(n).rows = WakeCases
  <2>1. At(n).rows \in Rows
    BY <1>1, <1>3, LocatorIs DEF Partitions
  <2>2. At(n).rows # NoRows
    BY <1>1, <1>3 DEF FilesInv, RowsOf
  <2>3. QED
    BY <2>1, <2>2 DEF Rows
<1>5. ASSUME NEW c \in WakeCases PROVE Standing(c) = {At(n).rows[c].at}
  <2>1. Selected(c) # {}
        /\ At(n).rows[c] = [at |-> Chosen(c), digest |-> Digest(Chosen(c))]
    BY <1>2 DEF AggregateIsCurrent
  <2>2. Standing(c) = {Chosen(c)}
    BY <2>1, UnitsApart, SelectedStands
  <2>3. At(n).rows[c].at = Chosen(c)
    BY <2>1
  <2>4. QED
    BY <2>2, <2>3
<1>6. QED
  BY <1>3, <1>4, <1>5 DEF WakeIsWhole

\* A case that clears was passed by ear, or its card was edited.
LEMMA ClearedCase ==
    ASSUME LInv, NEW c \in Heard, Selected(c) # {}, At(Chosen(c)).script = "Pass", Clears(c)
    PROVE  SaidOf(c, "Pass") \/ TakenAsWritten(c)
<1>1. LedgerShape /\ FilesInv /\ c \in Units
  BY UnitsApart DEF LInv
<1>2. PICK n : n = Chosen(c)
  OBVIOUS
<1>3. Standing(c) = {n} /\ n \in Locators /\ n[1] = c
  BY <1>1, <1>2, SelectedStands
<1>4. /\ At(n).card = "result" /\ At(n).capture = 0 /\ At(n).verdict # "Fail"
      /\ At(n).script = "Pass"
  BY <1>2 DEF Clears, Bound
<1>5. At(n).edited \in Nat
  BY <1>1, <1>3, LocatorIs DEF Partitions
<1>6. CASE At(n).edited > 0
  BY <1>3, <1>4, <1>6 DEF TakenAsWritten
<1>7. CASE At(n).edited = 0
  <2>1. At(n).verdict \in Sayings
        /\ [test |-> n[1], at |-> n, said |-> At(n).verdict, contents |-> {0}] \in heard
    BY <1>1, <1>3, <1>4, <1>7 DEF FilesInv, VerdictOf
  <2>2. PICK h : h = [test |-> c, at |-> n, said |-> "Pass", contents |-> {0}]
    OBVIOUS
  <2>3. At(n).verdict = "Pass"
    BY <1>4, <2>1 DEF Sayings
  <2>4. h \in heard
    BY <1>3, <2>1, <2>2, <2>3
  <2>5. h.test = c /\ h.at = n /\ h.said = "Pass" /\ h.contents = {At(n).capture}
    BY <1>4, <2>2
  <2>6. QED
    BY <1>3, <2>4, <2>5 DEF SaidOf
<1>8. QED
  BY <1>5, <1>6, <1>7

\* The worst state is Pass only if every state is.
LEMMA StatusIs ==
    ASSUME LInv, Status = "Pass" PROVE \A s \in States : s = "Pass"
<1> DEFINE Names == {"Fail", "Incomplete", "NeedsHumanReview", "NeedsDeveloperReview", "Pass"}
           First(i) == Worst[i] \in States /\ \A j \in 1..(i - 1) : Worst[j] \notin States
<1>1. States \subseteq Names /\ Listened \in States
  BY ReviewedIs, ListenedIs DEF States, CaseStates
<1>2. DOMAIN Worst = 1..5 /\ Worst[1] = "Fail" /\ Worst[2] = "Incomplete"
      /\ Worst[3] = "NeedsHumanReview" /\ Worst[4] = "NeedsDeveloperReview"
      /\ Worst[5] = "Pass"
  BY DEF Worst
<1>3. \E i \in 1..5 : First(i)
  <2> HIDE DEF First
  <2>1. CASE Worst[1] \in States
    BY <2>1 DEF First
  <2>2. CASE Worst[1] \notin States /\ Worst[2] \in States
    BY <2>2 DEF First
  <2>3. CASE Worst[1] \notin States /\ Worst[2] \notin States /\ Worst[3] \in States
    BY <2>3 DEF First
  <2>4. CASE Worst[1] \notin States /\ Worst[2] \notin States /\ Worst[3] \notin States
             /\ Worst[4] \in States
    BY <2>4 DEF First
  <2>5. CASE Worst[1] \notin States /\ Worst[2] \notin States /\ Worst[3] \notin States
             /\ Worst[4] \notin States
    <3>1. Worst[5] \in States
      BY <1>1, <1>2, <2>5
    <3>2. QED
      BY <2>5, <3>1 DEF First
  <2>6. QED
    BY <2>1, <2>2, <2>3, <2>4, <2>5
<1>4. PICK i : i = CHOOSE k \in DOMAIN Worst : First(k)
  OBVIOUS
<1>5. i \in 1..5 /\ First(i)
  BY <1>2, <1>3, <1>4
<1>6. Worst[i] = "Pass"
  BY <1>4 DEF Status
<1>7. i = 5
  BY <1>2, <1>5, <1>6
<1>8. Worst[1] \notin States /\ Worst[2] \notin States /\ Worst[3] \notin States
      /\ Worst[4] \notin States
  BY <1>5, <1>7
<1>9. QED
  BY <1>1, <1>2, <1>8

\* A final Pass is earned, for every set of tests and cases and whatever happened before:
\* only finalize changes the verdict, and what it reads is what a person passed, but for
\* the verdict in a semantic case's card that was edited.
THEOREM PassIsEarned == LedgerSpec => FinalPassIsEarned
<1> DEFINE Earned == /\ \A test \in ReviewedTests : SaidOf(test, "Pass")
                     /\ \A c \in Heard : SaidOf(c, "Pass") \/ TakenAsWritten(c)
                     /\ WakeIsWhole
<1>1. ASSUME LInv, Status = "Pass" PROVE Earned
  <2>1. \A test \in ReviewedTests : Reviewed(test) = "Pass"
    BY <1>1, StatusIs DEF States
  <2>2. Listened = "Pass"
    BY <1>1, StatusIs DEF States
  <2>3. \A test \in ReviewedTests : SaidOf(test, "Pass")
    BY <1>1, <2>1, ReviewedIs
  <2>4. \A c \in Heard : SaidOf(c, "Pass") \/ TakenAsWritten(c)
    BY <1>1, <2>2, ListenedIs, ClearedCase
  <2>5. WakeIsWhole
    BY <1>1, <2>1, UnitsApart, ReviewedIs, CurrentIsWhole
  <2>6. QED
    BY <2>3, <2>4, <2>5
<1>2. ASSUME [LedgerNext]_ledger, final' # final PROVE Finalize
  <2>1. ~Produce
    BY ZenonT(60), <1>2 DEF Produce, RunSingle, RunWakeCase, RunSemanticCase, HearVerdict, Aggregate
  <2>2. ~Judge
    BY <1>2 DEF Judge, Designate, DesignateDies, Edit, Review
  <2>3. QED
    BY SMTT(60), <1>2, <2>1, <2>2 DEF LedgerNext, ledger
<1>3. ASSUME Finalize, final'.status = "Pass" PROVE Status = "Pass"
  BY <1>3 DEF Finalize
<1> HIDE DEF Earned
<1>4. LInv /\ [LedgerNext]_ledger => [final' # final /\ final'.status = "Pass" => Earned]_ledger
  BY <1>1, <1>2, <1>3
<1>5. LedgerSpec => [][final' # final /\ final'.status = "Pass" => Earned]_ledger
  BY <1>4, LedgerInvariant, PTL DEF LedgerSpec
<1>6. QED
  BY <1>5 DEF FinalPassIsEarned, Earned

=============================================================================
