--------------------------- MODULE Process_proofs ---------------------------
(***************************************************************************)
(* Proofs about the process around the State Manager.  Its supervision, for*)
(* every graph of resources, every number of failures and every overlap of *)
(* start, recovery, shutdown and stop.  And its front panel: that an event *)
(* of the button stands for one physical press, and that the panel shows   *)
(* the state manager as it stands, for every clock, threshold, number of   *)
(* presses and errors, and every buffer of the kernel.                     *)
(***************************************************************************)
EXTENDS Supervision, FrontPanel, TLAPS

-----------------------------------------------------------------------------
(* The started order is a stack.                                           *)

\* What Append leaves and adds.
LEMMA Pushed ==
    ASSUME NEW S, NEW s \in Seq(S), NEW e \in S
    PROVE  /\ Append(s, e) \in Seq(S) /\ Append(s, e) # <<>>
           /\ DOMAIN Append(s, e) = 1 .. (Len(s) + 1)
           /\ Append(s, e)[Len(s) + 1] = e
           /\ \A i \in DOMAIN s : i \in DOMAIN Append(s, e) /\ Append(s, e)[i] = s[i]
           /\ {Append(s, e)[i] : i \in DOMAIN Append(s, e)} = {s[i] : i \in DOMAIN s} \cup {e}
  <1>1. DOMAIN Append(s, e) = 1 .. (Len(s) + 1) /\ DOMAIN s = 1 .. Len(s) /\ Len(s) \in Nat
    OBVIOUS
  <1>2. \A i \in 1 .. (Len(s) + 1) : Append(s, e)[i] = IF i <= Len(s) THEN s[i] ELSE e
    OBVIOUS
  <1>3. QED
    BY <1>1, <1>2

\* What stays when the last one goes.
LEMMA Popped ==
    ASSUME NEW S, NEW s \in Seq(S), s # <<>>
    PROVE  LET front == SubSeq(s, 1, Len(s) - 1) IN
           /\ front \in Seq(S) /\ DOMAIN front = 1 .. (Len(s) - 1) /\ Len(s) \in DOMAIN s
           /\ \A i \in DOMAIN front : i \in DOMAIN s /\ front[i] = s[i]
           /\ {s[i] : i \in DOMAIN s} = {front[i] : i \in DOMAIN front} \cup {s[Len(s)]}
  <1> DEFINE front == SubSeq(s, 1, Len(s) - 1)
  <1>1. Len(s) \in Nat /\ Len(s) > 0 /\ DOMAIN s = 1 .. Len(s)
    OBVIOUS
  <1>2. front \in Seq(S) /\ Len(front) = Len(s) - 1
        /\ \A i \in 1 .. (Len(s) - 1) : front[i] = s[i]
    BY <1>1
  <1>3. DOMAIN front = 1 .. (Len(s) - 1)
    BY <1>1, <1>2
  <1> HIDE DEF front
  <1>4. \A i \in DOMAIN s : i \in DOMAIN front \/ i = Len(s)
    BY <1>1, <1>3
  <1>5. \A i \in DOMAIN front : i \in DOMAIN s /\ front[i] = s[i]
    BY <1>1, <1>2, <1>3
  <1>6. {s[i] : i \in DOMAIN s} = {front[i] : i \in DOMAIN front} \cup {s[Len(s)]}
    BY <1>1, <1>4, <1>5
  <1>7. QED
    BY SMTT(60), <1>1, <1>2, <1>3, <1>5, <1>6 DEF front

\* What is left of a list of things to do.
LEMMA Rest ==
    ASSUME NEW S, NEW s \in Seq(S), s # <<>>
    PROVE  /\ Head(s) \in S /\ Tail(s) \in Seq(S)
           /\ \A i \in DOMAIN Tail(s) : \E j \in DOMAIN s : Tail(s)[i] = s[j]
           /\ 1 \in DOMAIN s /\ Head(s) = s[1]
  <1>1. Len(s) \in Nat /\ Len(s) > 0 /\ DOMAIN s = 1 .. Len(s)
    OBVIOUS
  <1>2. Tail(s) \in Seq(S) /\ DOMAIN Tail(s) = 1 .. (Len(s) - 1)
    BY <1>1
  <1>3. \A i \in DOMAIN Tail(s) : Tail(s)[i] = s[i + 1] /\ i + 1 \in DOMAIN s
    BY <1>1, <1>2
  <1>4. QED
    BY <1>1, <1>2, <1>3

-----------------------------------------------------------------------------
(* The inductive invariant, by what it is about.                           *)

\* The workers that an armed source asks for.
Wants(s) == {FirstWorker[s], "reasoner", "rest"}

\* They are announced and were started below the n-th.
Served(s, n) ==
    Wants(s) \subseteq catalog /\ \A w \in Wants(s) : \E j \in 1 .. (n - 1) : started[j] = w

\* Nothing is stopped while it starts, so what the gate found in the catalog
\* is still there when a source is armed above it.
StartInOrder ==
    /\ rm.at \in {"starting", "inputs", "arming"} =>
          main.at = "starting" /\ catalog \subseteq Started
    /\ rm.at \in {"inputs", "arming"} =>
          /\ {"reasoner", "rest"} \subseteq catalog
          /\ \A i \in DOMAIN rm.todo :
                rm.todo[i] \in disabled \/ FirstWorker[rm.todo[i]] \in catalog
    /\ rm.at = "arming" =>
          /\ rm.todo # <<>> /\ started # <<>> /\ Last(started) = Head(rm.todo)
          /\ Served(Head(rm.todo), Len(started))

\* A source is armed above its workers; the stack keeps it so.
ArmedAbove ==
    \A s \in armed : \E i \in DOMAIN started : started[i] = s /\ Served(s, i)

\* The batch: what the barrier says of it, and that it runs only over a
\* complete start and never under a shutdown.
BatchInStep ==
    /\ recovery.ready <=> recovery.at \in {"none", "done"}
    /\ recovery.at \in {"none", "done"} => recovery.todo = {}
    /\ recovery.at = "running" =>
          rm.at = "ready" /\ recovery.todo \subseteq Recoverable \cap Started
    /\ recovery.shutting => recovery.at # "running"
    /\ main.at \in {"stopping_sm", "stopping"} => recovery.shutting

\* What is destroyed and not rebuilt is in the batch, or not reported yet.
MissingIsInBatch ==
    (/\ sm.at = "running" /\ main.at \in {"starting", "waiting"}
     /\ rm.at \in {"starting", "inputs", "arming", "ready"}
     /\ recovery.at \in {"none", "running", "done"})
        => (Recoverable \cap Started) \ running \subseteq recovery.todo \cup dead \cup sm.destroyed

\* The state manager waits for a batch until it is done.
WaitsForBatch ==
    sm.at = "running" /\ main.at \in {"starting", "waiting"}
        => recovery.at \in {"none", "done"} \/ sm.waits

\* What runs is on the stack, or a stop has failed to end it.
RunningIsKnown == running \subseteq Started \cup stuck

\* Only a drained state manager leads to exit code 0, only an empty stack to
\* an orderly exit.
CodeIsEarned ==
    /\ main.at \in {"starting", "waiting"} => main.code = 0
    /\ main.at \in {"preparing", "stopping_sm", "stopping"} =>
          /\ main.code \in {0, 3}
          /\ main.code = 0 => sm.at = "stopped"
    /\ main.at = "exit" /\ main.code # 4 =>
          started = <<>> /\ (main.code = 0 => sm.at = "stopped" /\ ~main.proof)

IInv ==
    /\ TypeOK /\ HeldBelow /\ StartInOrder /\ ArmedAbove
    /\ BatchInStep /\ MissingIsInBatch /\ WaitsForBatch /\ RunningIsKnown
    /\ CodeIsEarned
-----------------------------------------------------------------------------
(* What a step does to the stack: nothing, one push or one pop.            *)

\* A start pushes one key, as the real instance or as the null one.
PushOf(key, kind) ==
    /\ CanStart(key) \/ Spec[key].null
    /\ started' = Append(started, key) /\ running' = running \cup {key}
    /\ instance' = [instance EXCEPT ![key] = kind]
    /\ catalog \subseteq catalog' /\ catalog' \subseteq catalog \cup {key}
    /\ UNCHANGED <<armed, stuck, dead>>

\* A start of one key leaves the records alone or pushes the key.
LEMMA StartsOne ==
    ASSUME NEW key, Started1(key) \/ FallsBack(key), UNCHANGED armed
    PROVE  \E kind \in {"real", "null"} : PushOf(key, kind)
  <1>1. CASE Started1(key)
    <2>1. PushOf(key, "real")
      BY <1>1 DEF Started1, Adopt, PushOf
    <2>2. QED
      BY <2>1
  <1>2. CASE FallsBack(key)
    <2>1. PushOf(key, "null")
      BY <1>2 DEF FallsBack, Adopt, PushOf
    <2>2. QED
      BY <2>1
  <1>3. QED
    BY <1>1, <1>2

\* No step changes the graph, and so none its keys.
LEMMA PlanStays ==
    ASSUME Next
    PROVE  plan' = plan /\ Spec' = Spec /\ Keys' = Keys /\ Recoverable' = Recoverable
  <1>1. plan' = plan
    BY DEF Next, Startup, Stopping, StateManager, SmShutdown, Batch, Main, StartOne, Gate,
           StartInput, Arm, Complete, StopOne, RolledBack, SessionBegins, SessionEnds,
           BackendDies, ForceAborts, BeginRecovery, ShutdownBegins, ShutdownExpires, SmRaises,
           PublishRaises,
           ShutdownPrepared, SmStops, RecoveryAwaited, RebuildOne, RebuildCancelled,
           RebuildFails, BusTrips, MainWakes, MainPrepares, MainStopsSm, MainExits
  <1>2. QED
    BY <1>1 DEF Spec, Keys, Recoverable
-----------------------------------------------------------------------------
(* Types.                                                                  *)

\* A push keeps the records typed.
LEMMA PushTyped ==
    ASSUME TypeOK, NEW key \in Keys, NEW kind \in {"real", "null"}, PushOf(key, kind),
           disabled' = disabled, Keys' = Keys
    PROVE  RecordsOK'
  <1>1. started' \in Seq(Keys)
    BY Pushed DEF PushOf, TypeOK, RecordsOK
  <1>2. QED
    BY <1>1 DEF PushOf, TypeOK, RecordsOK

\* So does a step that starts a key, skips it or breaks on it.
LEMMA StartTyped ==
    ASSUME TypeOK, NEW key \in Keys, UNCHANGED wiring, Keys' = Keys,
           Started1(key) \/ FallsBack(key) \/ Skipped(key) \/ Breaks(key)
    PROVE  RecordsOK' /\ faults' \in Nat
  <1>1. faults' \in Nat
    BY DEF TypeOK, Started1, FallsBack, Skipped, Breaks, Fails, Failing
  <1>2. CASE Started1(key) \/ FallsBack(key)
    BY <1>1, <1>2, StartsOne, PushTyped DEF wiring
  <1>3. CASE Skipped(key) \/ Breaks(key)
    BY <1>1, <1>3 DEF Skipped, Breaks, records, wiring, TypeOK, RecordsOK
  <1>4. QED
    BY <1>2, <1>3

\* So do the steps of the list of what is still to be started.
LEMMA ListTyped ==
    ASSUME TypeOK
    PROVE  /\ Rollback => rm' \in Starts
           /\ rm.todo # <<>> /\ NextStart => rm' \in Starts
           /\ rm' = [rm EXCEPT !.at = "arming"] => rm' \in Starts
           /\ \A todo \in Seq(Keys) : rm' = [at |-> "inputs", todo |-> todo] => rm' \in Starts
  <1>1. <<>> \in Seq(Keys)
    OBVIOUS
  <1>2. ASSUME Rollback PROVE rm' \in Starts
    BY <1>1, <1>2 DEF Rollback, Starts
  <1>3. ASSUME rm.todo # <<>>, NextStart PROVE rm' \in Starts
    <2>1. Tail(rm.todo) \in Seq(Keys)
      BY <1>3, Rest DEF TypeOK, Starts
    <2>2. QED
      BY <1>3, <2>1 DEF NextStart, TypeOK, Starts
  <1>4. ASSUME rm' = [rm EXCEPT !.at = "arming"] PROVE rm' \in Starts
    BY <1>4 DEF TypeOK, Starts
  <1>5. ASSUME NEW todo \in Seq(Keys), rm' = [at |-> "inputs", todo |-> todo]
        PROVE  rm' \in Starts
    BY <1>5 DEF Starts
  <1>6. QED
    BY <1>2, <1>3, <1>4, <1>5

\* Every step of the startup keeps the types.
LEMMA TypeStartup ==
    ASSUME TypeOK, StartInOrder, Startup, Next
    PROVE  TypeOK'
  <1>1. plan' = plan /\ Spec' = Spec /\ Keys' = Keys
    BY PlanStays
  <1>2. Starts' = Starts /\ StateManagers' = StateManagers /\ Batches' = Batches /\ Mains' = Mains
    BY <1>1 DEF Starts, StateManagers, Batches, Mains
  <1>3. CASE StartOne
    <2>1. Head(rm.todo) \in Keys /\ Tail(rm.todo) \in Seq(Keys)
      BY <1>3, Rest DEF StartOne, TypeOK, Starts
    <2>2. RecordsOK' /\ faults' \in Nat
      BY <1>1, <1>3, <2>1, StartTyped DEF StartOne
    <2>3. rm' \in Starts
      BY <1>3, ListTyped DEF StartOne
    <2>4. QED
      BY <1>1, <1>2, <1>3, <2>2, <2>3 DEF StartOne, TypeOK
  <1>4. CASE Gate
    <2>1. plan.inputs \in Seq(Keys)
      BY SupervisionBounds DEF TypeOK, Keys, Spec
    <2>2. Enabled \subseteq Keys
      BY <2>1 DEF Enabled
    <2>3. RecordsOK'
      BY <1>1, <1>4, <2>2 DEF Gate, TypeOK, records, RecordsOK, Orphans
    <2>4. rm' \in Starts
      BY <1>4, <2>1, ListTyped DEF Gate
    <2>5. QED
      BY <1>1, <1>2, <1>4, <2>3, <2>4 DEF Gate, TypeOK
  <1>5. CASE StartInput
    <2>1. Head(rm.todo) \in Keys /\ Tail(rm.todo) \in Seq(Keys)
      BY <1>5, Rest DEF StartInput, TypeOK, Starts
    <2>2. RecordsOK' /\ faults' \in Nat
      <3>1. CASE Head(rm.todo) \in disabled
        BY <1>1, <1>5, <3>1 DEF StartInput, records, wiring, TypeOK, RecordsOK
      <3>2. CASE Head(rm.todo) \notin disabled
        BY <1>1, <1>5, <2>1, <3>2, StartTyped DEF StartInput
      <3>3. QED
        BY <3>1, <3>2
    <2>3. rm' \in Starts
      BY <1>5, ListTyped DEF StartInput
    <2>4. QED
      BY <1>1, <1>2, <1>5, <2>2, <2>3 DEF StartInput, TypeOK
  <1>6. CASE Arm
    <2>1. rm.todo # <<>>
      BY <1>6 DEF Arm, StartInOrder
    <2>2. Head(rm.todo) \in Keys /\ Tail(rm.todo) \in Seq(Keys)
      BY <2>1, Rest DEF TypeOK, Starts
    <2>3. RecordsOK'
      BY <1>1, <1>6, <2>2 DEF Arm, TypeOK, records, RecordsOK
    <2>4. rm' \in Starts
      BY <1>6, <2>2, ListTyped DEF Arm
    <2>5. faults' \in Nat
      BY <1>6 DEF Arm, Failing, TypeOK
    <2>6. QED
      BY <1>1, <1>2, <1>6, <2>3, <2>4, <2>5 DEF Arm, TypeOK
  <1>7. CASE Complete
    <2>1. rm' \in Starts /\ main' \in Mains
      BY <1>7 DEF Complete, TypeOK, Starts, Mains
    <2>2. QED
      BY <1>1, <1>2, <1>7, <2>1 DEF Complete, TypeOK, RecordsOK, records, wiring
  <1>8. QED
    BY <1>3, <1>4, <1>5, <1>6, <1>7 DEF Startup

\* The steps that leave the records and the startup's list alone are those of
\* the state manager, of a batch that ends, of the bus and of the process.
Beside ==
    \/ SessionBegins \/ SessionEnds \/ ShutdownBegins \/ ShutdownExpires \/ SmRaises
    \/ PublishRaises \/ SmShutdown \/ RebuildCancelled \/ RebuildFails \/ BusTrips \/ Main

\* A backend goes and is handed to the resource manager.
Destroys == BackendDies \/ ForceAborts \/ BeginRecovery

\* The others leave them alone.
LEMMA BesideFrame ==
    ASSUME Beside
    PROVE  UNCHANGED <<records, wiring, rm>>
  BY DEF Beside, SmShutdown, Main, SessionBegins, SessionEnds, ShutdownBegins, ShutdownExpires,
         SmRaises, PublishRaises, ShutdownPrepared, SmStops, RecoveryAwaited, RebuildCancelled,
         RebuildFails, BusTrips, MainWakes, MainPrepares, MainStopsSm, MainExits

\* What one of them changes of the others keeps its type.
LEMMA TypeBeside ==
    ASSUME TypeOK, Beside
    PROVE  sm' \in StateManagers /\ recovery' \in Batches /\ main' \in Mains
           /\ busFatal' \in BOOLEAN /\ faults' \in Nat
  <1>1. faults' \in Nat
    BY DEF TypeOK, Failing, Beside, SmShutdown, Main, SessionBegins, SessionEnds,
           ShutdownBegins, ShutdownExpires, SmRaises, PublishRaises, ShutdownPrepared, SmStops,
           RecoveryAwaited, RebuildCancelled, RebuildFails, BusTrips, MainWakes, MainPrepares,
           MainStopsSm, MainExits
  <1>2. busFatal' = busFatal \/ busFatal' = TRUE
    BY DEF Beside, SmShutdown, Main, SessionBegins, SessionEnds,
           ShutdownBegins, ShutdownExpires, SmRaises, PublishRaises, ShutdownPrepared, SmStops,
           RecoveryAwaited, RebuildCancelled, RebuildFails, BusTrips, MainWakes, MainPrepares,
           MainStopsSm, MainExits
  <1>3. sm' \in StateManagers
    BY DEF TypeOK, StateManagers, SmFails, Beside, SmShutdown, Main, SessionBegins,
           SessionEnds, ShutdownBegins, ShutdownExpires, SmRaises, PublishRaises,
           ShutdownPrepared, SmStops, RecoveryAwaited, RebuildCancelled, RebuildFails, BusTrips,
           MainWakes, MainPrepares, MainStopsSm, MainExits
  <1>4. recovery' \in Batches
    BY DEF TypeOK, Batches, PrepareShutdown, Beside, SmShutdown, Main, SessionBegins,
           SessionEnds, ShutdownBegins, ShutdownExpires, SmRaises, PublishRaises,
           ShutdownPrepared, SmStops, RecoveryAwaited, RebuildCancelled, RebuildFails, BusTrips,
           MainWakes, MainPrepares, MainStopsSm, MainExits
  <1>5. main' \in Mains
    BY DEF TypeOK, Mains, Beside, SmShutdown, Main, SessionBegins,
           SessionEnds, ShutdownBegins, ShutdownExpires, SmRaises, PublishRaises,
           ShutdownPrepared, SmStops, RecoveryAwaited, RebuildCancelled, RebuildFails, BusTrips,
           MainWakes, MainPrepares, MainStopsSm, MainExits
  <1>6. QED
    BY <1>1, <1>2, <1>3, <1>4, <1>5 DEF TypeOK

\* What a stop takes from the stack is one of the keys, and so is what it serves.
LEMMA StopTyped ==
    ASSUME TypeOK, started # <<>>
    PROVE  Last(started) \in Keys /\ Spec[Last(started)].serves \subseteq Keys
           /\ SubSeq(started, 1, Len(started) - 1) \in Seq(Keys)
  <1>1. Last(started) \in Keys /\ SubSeq(started, 1, Len(started) - 1) \in Seq(Keys)
    BY Popped DEF TypeOK, RecordsOK, Last
  <1>2. QED
    BY <1>1, SupervisionBounds DEF TypeOK, Keys, Spec

\* Every step keeps the types.
LEMMA TypeStep ==
    ASSUME TypeOK, StartInOrder, Next
    PROVE  TypeOK'
  <1>1. plan' = plan /\ Spec' = Spec /\ Keys' = Keys
    BY PlanStays
  <1>2. Starts' = Starts /\ StateManagers' = StateManagers /\ Batches' = Batches /\ Mains' = Mains
    BY <1>1 DEF Starts, StateManagers, Batches, Mains
  <1>3. CASE Startup
    BY <1>3, TypeStartup
  <1>4. CASE Beside
    <2>1. RecordsOK' /\ rm' = rm
      BY <1>1, <1>4, BesideFrame DEF records, wiring, TypeOK, RecordsOK
    <2>2. QED
      BY <1>1, <1>2, <1>4, <2>1, TypeBeside DEF TypeOK
  <1>5. CASE StopOne
    <2>1. RecordsOK'
      BY <1>1, <1>5, StopTyped DEF StopOne, StopLast, StopOk, StopFails, TypeOK, RecordsOK
    <2>2. faults' \in Nat
      BY <1>5 DEF StopOne, StopOk, StopFails, Failing, TypeOK
    <2>3. main' \in Mains
      <3>1. CASE StopOk
        BY <3>1 DEF StopOk, TypeOK
      <3>2. CASE StopFails
        BY <3>2 DEF StopFails, TypeOK, Mains
      <3>3. QED
        BY <1>5, <3>1, <3>2 DEF StopOne
    <2>4. QED
      BY <1>1, <1>2, <1>5, <2>1, <2>2, <2>3 DEF StopOne, TypeOK
  <1>6. CASE RolledBack
    <2>1. rm' \in Starts
      BY <1>6 DEF RolledBack, TypeOK, Starts
    <2>2. main' \in Mains
      BY <1>6 DEF RolledBack, TypeOK, Mains
    <2>3. QED
      BY <1>1, <1>2, <1>6, <2>1, <2>2 DEF RolledBack, TypeOK, RecordsOK, records, wiring
  <1>7. CASE BackendDies
    <2>1. PICK key \in Recoverable : running' = running \ {key} /\ dead' = dead \cup {key}
      BY <1>7 DEF BackendDies
    <2>2. key \in Keys
      BY <2>1 DEF Recoverable, Keys
    <2>3. RecordsOK' /\ faults' \in Nat
      BY <1>1, <1>7, <2>1, <2>2 DEF BackendDies, Failing, TypeOK, RecordsOK, wiring
    <2>4. QED
      BY <1>1, <1>2, <1>7, <2>3 DEF BackendDies, TypeOK
  <1>8. CASE ForceAborts
    <2>1. PICK keys \in (SUBSET (Recoverable \cap (running \cup dead))) \cup {{"gpio"}} :
             /\ running' = running \ (keys \cap Recoverable) /\ dead' = dead \ keys
             /\ sm' = [sm EXCEPT !.destroyed = keys]
      BY <1>8 DEF ForceAborts
    <2>2. keys \subseteq Keys \cup {"gpio"}
      BY <2>1 DEF Recoverable, Keys
    <2>3. sm' \in StateManagers
      BY <2>1, <2>2 DEF TypeOK, StateManagers
    <2>4. RecordsOK' /\ faults' \in Nat
      BY <1>1, <1>8, <2>1 DEF ForceAborts, Failing, TypeOK, RecordsOK, wiring
    <2>5. QED
      BY <1>1, <1>2, <1>8, <2>3, <2>4 DEF ForceAborts, TypeOK
  <1>9. CASE BeginRecovery
    <2>1. sm' \in StateManagers
      BY <1>9 DEF BeginRecovery, SmFails, TypeOK, StateManagers
    <2>2. recovery' \in Batches
      BY <1>9 DEF BeginRecovery, MayRecover, Recoverable, Keys, TypeOK, Batches
    <2>3. RecordsOK'
      BY <1>1, <1>9 DEF BeginRecovery, records, wiring, TypeOK, RecordsOK
    <2>4. QED
      BY <1>1, <1>2, <1>9, <2>1, <2>2, <2>3 DEF BeginRecovery, TypeOK
  <1>10. CASE RebuildOne
    <2>1. PICK key \in recovery.todo : running' = running \cup {key} /\ recovery' = Rebuilt(key)
      BY <1>10 DEF RebuildOne
    <2>2. key \in Keys /\ recovery' \in Batches
      BY <2>1 DEF TypeOK, Batches, Rebuilt
    <2>3. RecordsOK'
      BY <1>1, <1>10, <2>1, <2>2 DEF RebuildOne, TypeOK, RecordsOK, wiring
    <2>4. QED
      BY <1>1, <1>2, <1>10, <2>2, <2>3 DEF RebuildOne, TypeOK
  <1>11. QED
    BY <1>3, <1>4, <1>5, <1>6, <1>7, <1>8, <1>9, <1>10 DEF Next, Beside, Stopping, StateManager, Batch

-----------------------------------------------------------------------------
(* The stack: one step lemma per part of the invariant that is about it.   *)

\* The last record is stopped.
PopOf ==
    /\ started # <<>> /\ started' = SubSeq(started, 1, Len(started) - 1)
    /\ armed' = armed \ {Last(started)}
    /\ UNCHANGED <<instance, caps, catalog>>

\* A step leaves the stack alone, pushes one key or pops one.
LEMMA StackMoves ==
    ASSUME TypeOK, Next
    PROVE  \/ started' = started /\ catalog' = catalog /\ (armed' = armed \/ Arm)
           \/ /\ rm.at \in {"starting", "inputs"} /\ armed' = armed
              /\ \E key \in Keys, kind \in {"real", "null"} : PushOf(key, kind)
           \/ StopOne /\ PopOf
  <1>1. CASE Beside
    BY <1>1, BesideFrame DEF records, wiring
  <1>2. CASE StopOne
    BY <1>2 DEF StopOne, StopLast, PopOf
  <1>3. CASE RolledBack \/ RebuildOne \/ Gate \/ Arm \/ Complete \/ Destroys
    BY <1>3 DEF RolledBack, Destroys, BackendDies, ForceAborts, BeginRecovery, RebuildOne, Gate,
                Arm, Complete, records, wiring
  <1>4. CASE StartOne \/ StartInput
    <2>1. rm.at \in {"starting", "inputs"} /\ Head(rm.todo) \in Keys
      BY <1>4, Rest DEF StartOne, StartInput, TypeOK, Starts
    <2>2. CASE Started1(Head(rm.todo)) \/ FallsBack(Head(rm.todo))
      BY <1>4, <2>1, <2>2, StartsOne DEF StartOne, StartInput, wiring
    <2>3. CASE ~(Started1(Head(rm.todo)) \/ FallsBack(Head(rm.todo)))
      BY <1>4, <2>3 DEF StartOne, StartInput, Skipped, Breaks, records, wiring
    <2>4. QED
      BY <2>2, <2>3
  <1>5. QED
    BY <1>1, <1>2, <1>3, <1>4 DEF Next, Beside, Destroys, Startup, Stopping, StateManager, Batch

\* What a push leaves of the stack.
LEMMA PushKeeps ==
    ASSUME TypeOK, NEW key \in Keys, NEW kind \in {"real", "null"}, PushOf(key, kind)
    PROVE  /\ started' \in Seq(Keys) /\ Started' = Started \cup {key}
           /\ Len(started) \in Nat /\ DOMAIN started = 1 .. Len(started)
           /\ DOMAIN started' = 1 .. (Len(started) + 1) /\ started'[Len(started) + 1] = key
           /\ \A i \in 1 .. Len(started) : started'[i] = started[i]
  BY Pushed DEF TypeOK, RecordsOK, PushOf, Started

\* What a pop leaves of it.
LEMMA PopKeeps ==
    ASSUME TypeOK, PopOf
    PROVE  /\ Len(started) \in Nat \ {0} /\ DOMAIN started = 1 .. Len(started)
           /\ DOMAIN started' = 1 .. (Len(started) - 1)
           /\ \A i \in 1 .. (Len(started) - 1) : started'[i] = started[i]
           /\ Started = Started' \cup {Last(started)}
  <1> DEFINE front == SubSeq(started, 1, Len(started) - 1)
  <1>1. started \in Seq(Keys) /\ started # <<>> /\ started' = front
    BY DEF TypeOK, RecordsOK, PopOf
  <1>2. /\ DOMAIN front = 1 .. (Len(started) - 1)
        /\ \A i \in DOMAIN front : front[i] = started[i]
        /\ {started[i] : i \in DOMAIN started}
               = {front[i] : i \in DOMAIN front} \cup {started[Len(started)]}
    BY <1>1, Popped
  <1> HIDE DEF front
  <1>3. Len(started) \in Nat \ {0} /\ DOMAIN started = 1 .. Len(started)
    BY <1>1
  <1>4. QED
    BY <1>1, <1>2, <1>3 DEF Started, Last

\* What a factory took through its resolver stays below it.
LEMMA HeldStep ==
    ASSUME TypeOK, HeldBelow, Next
    PROVE  HeldBelow'
  <1>1. Spec' = Spec
    BY PlanStays
  <1>2. CASE started' = started
    BY <1>1, <1>2 DEF HeldBelow
  <1>3. ASSUME NEW key \in Keys, NEW kind \in {"real", "null"}, PushOf(key, kind)
        PROVE  HeldBelow'
    <2>1. Spec[key].requires \subseteq Started
      <3>1. CASE CanStart(key)
        BY <3>1 DEF CanStart
      <3>2. CASE Spec[key].null
        BY <3>2, SupervisionBounds DEF TypeOK, Keys, Spec
      <3>3. QED
        BY <1>3, <3>1, <3>2 DEF PushOf
    <2>2. SUFFICES ASSUME NEW i \in DOMAIN started', NEW r \in Spec[started'[i]].requires
                   PROVE  \E j \in 1 .. (i - 1) : started'[j] = r
      BY <1>1 DEF HeldBelow
    <2>3. CASE i = Len(started) + 1
      <3>1. PICK j \in DOMAIN started : started[j] = r
        BY <1>3, <2>1, <2>3, PushKeeps DEF Started
      <3>2. QED
        BY <1>3, <2>3, <3>1, PushKeeps
    <2>4. CASE i # Len(started) + 1
      <3>1. i \in DOMAIN started /\ started'[i] = started[i]
        BY <1>3, <2>4, PushKeeps
      <3>2. PICK j \in 1 .. (i - 1) : started[j] = r
        BY <3>1 DEF HeldBelow
      <3>3. QED
        BY <1>3, <3>1, <3>2, PushKeeps
    <2>5. QED
      BY <2>3, <2>4
  <1>4. ASSUME PopOf PROVE HeldBelow'
    <2>1. SUFFICES ASSUME NEW i \in DOMAIN started', NEW r \in Spec[started'[i]].requires
                   PROVE  \E j \in 1 .. (i - 1) : started'[j] = r
      BY <1>1 DEF HeldBelow
    <2>2. i \in DOMAIN started /\ started'[i] = started[i]
      BY <1>4, PopKeeps
    <2>3. PICK j \in 1 .. (i - 1) : started[j] = r
      BY <2>2 DEF HeldBelow
    <2>4. QED
      BY <1>4, <2>2, <2>3, PopKeeps
  <1>5. QED
    BY <1>2, <1>3, <1>4, StackMoves

\* A source that is armed stays above its workers.
LEMMA ArmedStep ==
    ASSUME TypeOK, StartInOrder, ArmedAbove, Next
    PROVE  ArmedAbove'
  <1>1. CASE started' = started /\ catalog' = catalog /\ armed' = armed
    BY <1>1 DEF ArmedAbove, Served, Wants
  <1>2. CASE started' = started /\ catalog' = catalog /\ Arm
    <2>1. armed' \subseteq armed \cup {Head(rm.todo)}
      BY <1>2 DEF Arm
    <2>2. started # <<>> /\ Last(started) = Head(rm.todo) /\ Served(Head(rm.todo), Len(started))
      BY <1>2 DEF Arm, StartInOrder
    <2>3. Len(started) \in DOMAIN started /\ started[Len(started)] = Head(rm.todo)
      BY <2>2, Popped DEF Last, TypeOK, RecordsOK
    <2>4. \A s \in armed' : \E i \in DOMAIN started : started[i] = s /\ Served(s, i)
      BY <2>1, <2>2, <2>3 DEF ArmedAbove
    <2>5. QED
      BY <1>2, <2>4 DEF ArmedAbove, Served, Wants
  <1>3. ASSUME NEW key \in Keys, NEW kind \in {"real", "null"}, PushOf(key, kind)
        PROVE  ArmedAbove'
    <2>1. armed' = armed /\ catalog \subseteq catalog'
      BY <1>3 DEF PushOf
    <2>2. SUFFICES ASSUME NEW s \in armed
                   PROVE  \E i \in DOMAIN started' : started'[i] = s /\ Served(s, i)'
      BY <2>1 DEF ArmedAbove
    <2>3. PICK i \in DOMAIN started : started[i] = s /\ Served(s, i)
      BY DEF ArmedAbove
    <2>4. i \in DOMAIN started' /\ started'[i] = s
      BY <1>3, <2>3, PushKeeps
    <2>5. \A j \in 1 .. (i - 1) : started'[j] = started[j]
      BY <1>3, <2>3, PushKeeps
    <2>6. Served(s, i)'
      BY <2>1, <2>3, <2>5 DEF Served, Wants
    <2>7. QED
      BY <2>4, <2>6
  <1>4. ASSUME PopOf PROVE ArmedAbove'
    <2>1. armed' = armed \ {Last(started)} /\ catalog' = catalog
      BY <1>4 DEF PopOf
    <2>2. SUFFICES ASSUME NEW s \in armed, s # Last(started)
                   PROVE  \E i \in DOMAIN started' : started'[i] = s /\ Served(s, i)'
      BY <2>1 DEF ArmedAbove
    <2>3. PICK i \in DOMAIN started : started[i] = s /\ Served(s, i)
      BY DEF ArmedAbove
    <2>4. i \in DOMAIN started' /\ started'[i] = s
      BY <1>4, <2>2, <2>3, PopKeeps DEF Last
    <2>5. \A j \in 1 .. (i - 1) : started'[j] = started[j]
      BY <1>4, <2>4, PopKeeps
    <2>6. Served(s, i)'
      BY <2>1, <2>3, <2>5 DEF Served, Wants
    <2>7. QED
      BY <2>4, <2>6
  <1>5. QED
    BY <1>1, <1>2, <1>3, <1>4, StackMoves

\* What runs is known.
LEMMA RunningStep ==
    ASSUME TypeOK, BatchInStep, RunningIsKnown, Next
    PROVE  RunningIsKnown'
  <1>1. CASE Beside
    BY <1>1, BesideFrame DEF records, RunningIsKnown, Started
  <1>2. CASE RolledBack \/ Gate \/ Arm \/ Complete
    BY <1>2 DEF RolledBack, Gate, Arm, Complete, records, RunningIsKnown, Started
  <1>3. CASE StopOne
    <2>1. Started = Started' \cup {Last(started)}
      BY <1>3, PopKeeps DEF StopOne, StopLast, PopOf
    <2>2. QED
      BY <1>3, <2>1 DEF StopOne, StopOk, StopFails, RunningIsKnown
  <1>4. CASE StartOne \/ StartInput
    <2>1. Head(rm.todo) \in Keys
      BY <1>4, Rest DEF StartOne, StartInput, TypeOK, Starts
    <2>2. CASE Started1(Head(rm.todo)) \/ FallsBack(Head(rm.todo))
      <3>1. PICK kind \in {"real", "null"} : PushOf(Head(rm.todo), kind)
        BY <1>4, <2>2, StartsOne DEF StartOne, StartInput, wiring
      <3>2. Started' = Started \cup {Head(rm.todo)}
        BY <2>1, <3>1, PushKeeps
      <3>3. QED
        BY <3>1, <3>2 DEF PushOf, RunningIsKnown
    <2>3. CASE ~(Started1(Head(rm.todo)) \/ FallsBack(Head(rm.todo)))
      BY <1>4, <2>3 DEF StartOne, StartInput, Skipped, Breaks, records, RunningIsKnown, Started
    <2>4. QED
      BY <2>2, <2>3
  <1>5. CASE Destroys
    BY <1>5 DEF Destroys, BackendDies, ForceAborts, BeginRecovery, records, RunningIsKnown, Started
  <1>6. CASE RebuildOne
    BY <1>6 DEF RebuildOne, BatchInStep, RunningIsKnown, Started
  <1>7. QED
    BY <1>1, <1>2, <1>3, <1>4, <1>5, <1>6
       DEF Next, Beside, Destroys, Startup, Stopping, StateManager, Batch

-----------------------------------------------------------------------------
(* The start.                                                              *)

\* What the gate found stays until the sources are armed.
LEMMA StartStep ==
    ASSUME TypeOK, StartInOrder, Next
    PROVE  StartInOrder'
  <1>1. CASE Beside
    <2>1. UNCHANGED <<started, catalog, disabled, rm>>
      BY <1>1, BesideFrame DEF records, wiring
    <2>2. main.at = "starting" => main'.at = "starting"
      BY <1>1 DEF Beside, SmShutdown, Main, SessionBegins, SessionEnds, ShutdownBegins,
                  ShutdownExpires, SmRaises, PublishRaises, ShutdownPrepared, SmStops,
                  RecoveryAwaited, RebuildCancelled, RebuildFails, BusTrips, MainWakes,
                  MainPrepares, MainStopsSm, MainExits
    <2>3. QED
      BY <2>1, <2>2 DEF StartInOrder, Started, Served, Wants
  <1>2. CASE Destroys \/ RebuildOne
    BY <1>2 DEF Destroys, BackendDies, ForceAborts, BeginRecovery, RebuildOne, records, wiring,
                StartInOrder, Started, Served, Wants
  <1>3. CASE StopOne
    BY <1>3 DEF StopOne, StartInOrder
  <1>4. CASE RolledBack \/ Complete
    BY <1>4 DEF RolledBack, Complete, StartInOrder, TypeOK, Starts
  <1>5. CASE Gate
    <2>1. CASE rm' = [at |-> "inputs", todo |-> plan.inputs] /\ Coherent
      <3>1. \A i \in DOMAIN plan.inputs :
               plan.inputs[i] \in Orphans \/ FirstWorker[plan.inputs[i]] \in catalog
        BY DEF Orphans, Enabled
      <3>2. {"reasoner", "rest"} \subseteq catalog
        BY <2>1 DEF Coherent, AlwaysRequired
      <3>3. QED
        BY <1>5, <2>1, <3>1, <3>2 DEF Gate, records, StartInOrder, Started
    <2>2. CASE Rollback
      BY <2>2 DEF Rollback, StartInOrder
    <2>3. QED
      BY <1>5, <2>1, <2>2 DEF Gate
  <1>6. CASE Arm
    <2>1. CASE Rollback
      BY <2>1 DEF Rollback, StartInOrder
    <2>2. CASE rm' = [at |-> "inputs", todo |-> Tail(rm.todo)]
      <3>1. rm.todo \in Seq(Keys) /\ rm.todo # <<>>
        BY <1>6 DEF Arm, TypeOK, Starts, StartInOrder
      <3>2. \A i \in DOMAIN Tail(rm.todo) : \E j \in DOMAIN rm.todo : Tail(rm.todo)[i] = rm.todo[j]
        BY <3>1, Rest
      <3>3. QED
        BY <1>6, <2>2, <3>2 DEF Arm, records, StartInOrder, Started
    <2>3. QED
      BY <1>6, <2>1, <2>2 DEF Arm
  <1>7. CASE StartOne \/ StartInput
    <2>1. /\ rm.todo \in Seq(Keys) /\ rm.todo # <<>> /\ Head(rm.todo) \in Keys
          /\ rm.at \in {"starting", "inputs"}
          /\ main' = main /\ disabled' = disabled /\ catalog \subseteq Started
          /\ main.at = "starting"
      BY <1>7, Rest DEF StartOne, StartInput, TypeOK, Starts, StartInOrder, wiring
    <2>2. catalog \subseteq catalog' /\ catalog' \subseteq Started'
      <3>1. CASE started' = started /\ catalog' = catalog
        BY <2>1, <3>1 DEF Started
      <3>2. CASE \E key \in Keys, kind \in {"real", "null"} : PushOf(key, kind)
        BY <2>1, <3>2, PushKeeps DEF PushOf
      <3>3. CASE StopOne
        BY <2>1, <3>3 DEF StopOne
      <3>4. QED
        BY <3>1, <3>2, <3>3, StackMoves
    <2>3. CASE Rollback
      BY <2>3 DEF Rollback, StartInOrder
    <2>4. CASE NextStart
      <3>1. rm'.at = rm.at /\ rm'.todo = Tail(rm.todo)
        BY <2>4 DEF NextStart, TypeOK, Starts
      <3>2. \A i \in DOMAIN Tail(rm.todo) : \E j \in DOMAIN rm.todo : Tail(rm.todo)[i] = rm.todo[j]
        BY <2>1, Rest
      <3>3. QED
        BY <2>1, <2>2, <3>1, <3>2 DEF StartInOrder
    <2>5. CASE StartInput /\ Started1(Head(rm.todo)) /\ rm' = [rm EXCEPT !.at = "arming"]
                /\ Head(rm.todo) \notin disabled
      <3>1. PICK kind \in {"real", "null"} : PushOf(Head(rm.todo), kind)
        BY <2>5, StartsOne DEF StartInput, wiring
      <3>2. /\ started' \in Seq(Keys) /\ Len(started) \in Nat
            /\ DOMAIN started' = 1 .. (Len(started) + 1)
            /\ started'[Len(started) + 1] = Head(rm.todo)
            /\ \A i \in 1 .. Len(started) : started'[i] = started[i]
            /\ DOMAIN started = 1 .. Len(started)
        BY <2>1, <3>1, PushKeeps
      <3>3. Len(started') = Len(started) + 1 /\ started' # <<>>
        BY <3>2
      <3>4. Wants(Head(rm.todo)) \subseteq catalog
        BY <2>1, <2>5, Rest DEF StartInput, StartInOrder, Wants
      <3>5. \A w \in Wants(Head(rm.todo)) : \E j \in 1 .. Len(started) : started[j] = w
        BY <2>1, <3>2, <3>4 DEF Started
      <3>6. rm'.at = "arming" /\ rm'.todo = rm.todo
        BY <2>5 DEF TypeOK, Starts
      <3>7. Served(Head(rm.todo), Len(started))' /\ Last(started') = Head(rm.todo)
        BY <2>2, <3>2, <3>3, <3>4, <3>5, <3>6 DEF Served, Wants, Last
      <3>8. QED
        BY <2>1, <2>2, <2>5, <3>3, <3>6, <3>7 DEF StartInOrder, StartInput, Last
    <2>6. QED
      BY <1>7, <2>3, <2>4, <2>5 DEF StartOne, StartInput
  <1>8. QED
    BY <1>1, <1>2, <1>3, <1>4, <1>5, <1>6, <1>7
       DEF Next, Beside, Destroys, Startup, Stopping, StateManager, Batch

-----------------------------------------------------------------------------
(* The batch.                                                              *)

\* The batch and its barrier stay in step.
LEMMA BatchStep ==
    ASSUME TypeOK, StartInOrder, BatchInStep, Next
    PROVE  BatchInStep'
  <1>1. Recoverable' = Recoverable
    BY PlanStays
  <1>2. CASE Startup
    <2>1. rm.at # "ready" /\ recovery' = recovery
      BY <1>2 DEF Startup, StartOne, Gate, StartInput, Arm, Complete
    <2>2. main' = main \/ main'.at = "waiting"
      BY <1>2 DEF Startup, StartOne, Gate, StartInput, Arm, Complete, TypeOK, Mains
    <2>3. QED
      BY <2>1, <2>2 DEF BatchInStep
  <1>3. CASE StopOne \/ RolledBack
    <2>1. recovery.at # "running" /\ recovery' = recovery
      BY <1>3 DEF StopOne, RolledBack, BatchInStep
    <2>2. main'.at = main.at \/ main'.at = "preparing"
      BY <1>3 DEF StopOne, StopOk, StopFails, RolledBack, TypeOK, Mains
    <2>3. QED
      BY <2>1, <2>2 DEF BatchInStep
  <1>4. CASE Destroys
    <2>1. CASE BackendDies \/ ForceAborts
      BY <1>1, <2>1 DEF BackendDies, ForceAborts, BatchInStep, Started
    <2>2. CASE BeginRecovery /\ MayRecover(sm.destroyed)
      <3>1. recovery'.at = "running" /\ recovery'.ready = FALSE
            /\ recovery'.todo = sm.destroyed /\ recovery'.shutting = recovery.shutting
        BY <2>2 DEF BeginRecovery, TypeOK, Batches
      <3>2. UNCHANGED <<rm, main, started>>
        BY <2>2 DEF BeginRecovery, records
      <3>3. rm.at = "ready" /\ ~recovery.shutting
            /\ sm.destroyed \subseteq Recoverable \cap Started
        BY <2>2 DEF MayRecover
      <3>4. main'.at \notin {"stopping_sm", "stopping"}
        BY <3>2, <3>3 DEF BatchInStep
      <3>5. QED
        BY <1>1, <3>1, <3>2, <3>3, <3>4 DEF BatchInStep, Started
    <2>3. CASE BeginRecovery /\ ~MayRecover(sm.destroyed)
      BY <1>1, <2>3 DEF BeginRecovery, BatchInStep, records, Started
    <2>4. QED
      BY <1>4, <2>1, <2>2, <2>3 DEF Destroys
  <1>5. CASE RebuildOne
    BY <1>1, <1>5 DEF RebuildOne, Rebuilt, BatchInStep, TypeOK, Batches, Started
  <1>6. CASE Beside
    <2>1. UNCHANGED <<started, rm>>
      BY <1>6, BesideFrame DEF records
    <2>2. CASE ShutdownBegins
      BY <1>1, <2>1, <2>2 DEF ShutdownBegins, PrepareShutdown, BatchInStep, TypeOK, Batches, Started
    <2>3. CASE MainPrepares
      BY <1>1, <2>1, <2>3 DEF MainPrepares, PrepareShutdown, BatchInStep, TypeOK, Batches, Started
    <2>4. CASE RebuildFails \/ RebuildCancelled
      BY <1>1, <2>1, <2>4 DEF RebuildFails, RebuildCancelled, BatchInStep, TypeOK, Batches, Started
    <2>5. CASE \/ SessionBegins \/ SessionEnds \/ ShutdownExpires \/ SmRaises \/ PublishRaises
               \/ SmShutdown \/ BusTrips \/ MainWakes \/ MainStopsSm \/ MainExits
      <3>1. recovery' = recovery /\ (main'.at \in {main.at, "exit", "preparing"}
                                       \/ main.at = "stopping_sm")
        BY <2>5 DEF SessionBegins, SessionEnds, ShutdownExpires, SmRaises, PublishRaises,
                    SmShutdown, ShutdownPrepared, SmStops, RecoveryAwaited, BusTrips, MainWakes,
                    MainStopsSm, MainExits, TypeOK, Mains
      <3>2. QED
        BY <1>1, <2>1, <3>1 DEF BatchInStep, Started
    <2>6. QED
      BY <1>6, <2>2, <2>3, <2>4, <2>5 DEF Beside, Main
  <1>7. QED
    BY <1>2, <1>3, <1>4, <1>5, <1>6 DEF Next, Beside, Destroys, Stopping, StateManager, Batch

\* What is destroyed stays in the batch until it is rebuilt.
LEMMA MissingStep ==
    ASSUME TypeOK, StartInOrder, BatchInStep, MissingIsInBatch, Next
    PROVE  MissingIsInBatch'
  <1>1. Recoverable' = Recoverable
    BY PlanStays
  <1>2. CASE Startup
    <2>1. sm' = sm /\ recovery' = recovery /\ main.at = "starting"
          /\ rm.at \in {"starting", "inputs", "arming"}
      BY <1>2 DEF Startup, StartOne, Gate, StartInput, Arm, Complete, StartInOrder
    <2>2. (started' = started /\ running' = running /\ dead' = dead)
          \/ \E key \in Keys, kind \in {"real", "null"} : PushOf(key, kind)
      <3>1. CASE Gate \/ Arm \/ Complete
        BY <3>1 DEF Gate, Arm, Complete, records
      <3>2. CASE StartOne \/ StartInput
        <4>1. Head(rm.todo) \in Keys
          BY <3>2, Rest DEF StartOne, StartInput, TypeOK, Starts
        <4>2. CASE Started1(Head(rm.todo)) \/ FallsBack(Head(rm.todo))
          BY <3>2, <4>1, <4>2, StartsOne DEF StartOne, StartInput, wiring
        <4>3. CASE ~(Started1(Head(rm.todo)) \/ FallsBack(Head(rm.todo)))
          BY <3>2, <4>3 DEF StartOne, StartInput, Skipped, Breaks, records
        <4>4. QED
          BY <4>2, <4>3
      <3>3. QED
        BY <1>2, <3>1, <3>2 DEF Startup
    <2>3. CASE started' = started /\ running' = running /\ dead' = dead
      BY <1>1, <2>1, <2>3 DEF MissingIsInBatch, Started
    <2>4. ASSUME NEW key \in Keys, NEW kind \in {"real", "null"}, PushOf(key, kind)
          PROVE  MissingIsInBatch'
      <3>1. Started' = Started \cup {key} /\ running' = running \cup {key} /\ dead' = dead
        BY <2>4, PushKeeps DEF PushOf
      <3>2. QED
        BY <1>1, <2>1, <3>1 DEF MissingIsInBatch
    <2>5. QED
      BY <2>2, <2>3, <2>4
  <1>3. CASE StopOne
    BY <1>3 DEF StopOne, StopOk, StopFails, MissingIsInBatch, TypeOK, Mains
  <1>4. CASE RolledBack
    BY <1>4 DEF RolledBack, MissingIsInBatch, TypeOK, Starts
  <1>5. CASE BackendDies
    BY <1>1, <1>5 DEF BackendDies, MissingIsInBatch, Started
  <1>6. CASE ForceAborts
    <2>1. PICK keys : /\ running' = running \ (keys \cap Recoverable) /\ dead' = dead \ keys
                      /\ sm' = [sm EXCEPT !.destroyed = keys]
      BY <1>6 DEF ForceAborts
    <2>2. sm'.destroyed = keys /\ sm.destroyed = {} /\ sm'.at = sm.at
      BY <1>6, <2>1 DEF ForceAborts, Converging, TypeOK, StateManagers
    <2>3. QED
      BY <1>1, <1>6, <2>1, <2>2 DEF ForceAborts, MissingIsInBatch, Started
  <1>7. CASE BeginRecovery
    <2>1. UNCHANGED <<started, running, dead, rm, main>>
      BY <1>7 DEF BeginRecovery, records
    <2>2. CASE MayRecover(sm.destroyed)
      <3>1. recovery.at \in {"none", "done"} /\ recovery.todo = {}
        BY <2>2 DEF MayRecover, BatchInStep
      <3>2. recovery'.todo = sm.destroyed /\ sm.at = "running"
        BY <1>7, <2>2 DEF BeginRecovery, TypeOK, Batches
      <3>3. QED
        BY <1>1, <2>1, <3>1, <3>2 DEF MissingIsInBatch, Started
    <2>3. CASE ~MayRecover(sm.destroyed)
      BY <1>7, <2>3 DEF BeginRecovery, SmFails, MissingIsInBatch, TypeOK, StateManagers
    <2>4. QED
      BY <2>2, <2>3
  <1>8. CASE RebuildOne
    <2>1. PICK key \in recovery.todo : running' = running \cup {key} /\ recovery' = Rebuilt(key)
      BY <1>8 DEF RebuildOne
    <2>2. recovery'.todo = recovery.todo \ {key}
      BY <2>1 DEF Rebuilt, TypeOK, Batches
    <2>3. QED
      BY <1>1, <1>8, <2>1, <2>2 DEF RebuildOne, MissingIsInBatch, Started
  <1>9. CASE Beside
    <2>1. UNCHANGED <<started, running, dead, rm>>
      BY <1>9, BesideFrame DEF records
    <2>2. CASE \/ ShutdownBegins \/ ShutdownExpires \/ SmRaises \/ PublishRaises
               \/ ShutdownPrepared \/ SmStops
      BY <2>2 DEF ShutdownBegins, ShutdownExpires, SmRaises, PublishRaises, ShutdownPrepared,
                  SmStops, SmFails, MissingIsInBatch, TypeOK, StateManagers
    <2>3. CASE RebuildFails \/ RebuildCancelled
      BY <2>3 DEF RebuildFails, RebuildCancelled, MissingIsInBatch, TypeOK, Batches
    <2>4. CASE Main
      BY <2>4 DEF Main, MainWakes, MainPrepares, MainStopsSm, MainExits, MissingIsInBatch,
                  TypeOK, Mains
    <2>5. CASE SessionBegins \/ SessionEnds \/ RecoveryAwaited \/ BusTrips
      <3>1. UNCHANGED <<recovery, main>> /\ (sm'.at = "running" => sm.at = "running")
            /\ sm'.destroyed = sm.destroyed
        BY <2>5 DEF SessionBegins, SessionEnds, RecoveryAwaited, BusTrips, SmFails, TypeOK,
                    StateManagers
      <3>2. QED
        BY <1>1, <2>1, <3>1 DEF MissingIsInBatch, Started
    <2>6. QED
      BY <1>9, <2>2, <2>3, <2>4, <2>5 DEF Beside, SmShutdown
  <1>10. QED
    BY <1>2, <1>3, <1>4, <1>5, <1>6, <1>7, <1>8, <1>9 DEF Next, Beside, Stopping, StateManager, Batch

\* The state manager goes on only when the batch is done.
LEMMA WaitsStep ==
    ASSUME TypeOK, StartInOrder, WaitsForBatch, Next
    PROVE  WaitsForBatch'
  <1>1. CASE Startup
    <2>1. sm' = sm /\ recovery' = recovery /\ main.at = "starting"
      BY <1>1 DEF Startup, StartOne, Gate, StartInput, Arm, Complete, StartInOrder
    <2>2. QED
      BY <2>1 DEF WaitsForBatch
  <1>2. CASE StopOne \/ RolledBack
    BY <1>2 DEF StopOne, StopOk, StopFails, RolledBack, WaitsForBatch, TypeOK, Mains
  <1>3. CASE Destroys
    BY <1>3 DEF Destroys, BackendDies, ForceAborts, BeginRecovery, SmFails, WaitsForBatch, TypeOK,
                StateManagers
  <1>4. CASE RebuildOne \/ RebuildFails \/ RebuildCancelled
    BY <1>4 DEF RebuildOne, Rebuilt, RebuildFails, RebuildCancelled, WaitsForBatch, TypeOK, Batches
  <1>5. CASE Main
    BY <1>5 DEF Main, MainWakes, MainPrepares, MainStopsSm, MainExits, WaitsForBatch, TypeOK, Mains,
                StateManagers
  <1>6. CASE \/ SessionBegins \/ SessionEnds \/ ShutdownBegins \/ ShutdownExpires \/ SmRaises
             \/ PublishRaises \/ SmShutdown \/ BusTrips
    <2>1. main' = main
      BY <1>6 DEF SessionBegins, SessionEnds, ShutdownBegins, ShutdownExpires, SmRaises,
                  PublishRaises, SmShutdown, ShutdownPrepared, SmStops, RecoveryAwaited, BusTrips
    <2>2. \/ sm'.at # "running"
          \/ recovery' = recovery /\ sm'.waits = sm.waits /\ sm'.at = sm.at
          \/ recovery' = recovery /\ recovery.at = "done"
      BY <1>6 DEF SessionBegins, SessionEnds, ShutdownBegins, ShutdownExpires, SmRaises,
                  PublishRaises, SmShutdown, ShutdownPrepared, SmStops, RecoveryAwaited, BusTrips,
                  SmFails, TypeOK, StateManagers
    <2>3. QED
      BY <2>1, <2>2 DEF WaitsForBatch
  <1>7. QED
    BY <1>1, <1>2, <1>3, <1>4, <1>5, <1>6
       DEF Next, Destroys, Stopping, StateManager, Batch

-----------------------------------------------------------------------------
(* The exit code.                                                          *)

\* An orderly code is earned before the process ends.
LEMMA CodeStep ==
    ASSUME TypeOK, StartInOrder, CodeIsEarned, Next
    PROVE  CodeIsEarned'
  <1>1. main.at # "exit"
    BY DEF Next
  <1>2. CASE StartOne \/ Gate \/ StartInput \/ Arm
    BY <1>1, <1>2 DEF StartOne, Gate, StartInput, Arm, CodeIsEarned
  <1>3. CASE Complete
    BY <1>3 DEF Complete, StartInOrder, CodeIsEarned, TypeOK, Mains
  <1>4. CASE StopOne
    BY <1>1, <1>4 DEF StopOne, StopOk, StopFails, CodeIsEarned, TypeOK, Mains
  <1>5. CASE RolledBack
    BY <1>5 DEF RolledBack, CodeIsEarned, TypeOK, Mains
  <1>6. CASE Destroys
    <2>1. main' = main /\ (sm.at = "stopped" => sm' = sm)
      BY <1>6 DEF Destroys, BackendDies, ForceAborts, BeginRecovery
    <2>2. QED
      BY <1>1, <2>1 DEF CodeIsEarned
  <1>7. CASE MainWakes
    BY <1>7 DEF MainWakes, CodeIsEarned, TypeOK, Mains
  <1>8. CASE MainPrepares
    BY <1>8 DEF MainPrepares, CodeIsEarned, TypeOK, Mains
  <1>9. CASE MainStopsSm
    BY <1>9 DEF MainStopsSm, CodeIsEarned, TypeOK, Mains, StateManagers
  <1>10. CASE MainExits
    BY <1>10 DEF MainExits, records, CodeIsEarned, TypeOK, Mains
  <1>11. CASE \/ SessionBegins \/ SessionEnds \/ ShutdownBegins \/ ShutdownExpires \/ SmRaises
              \/ PublishRaises \/ SmShutdown \/ Batch \/ RebuildFails \/ BusTrips
    <2>1. main' = main /\ (sm.at = "stopped" => sm' = sm)
      BY <1>11 DEF SessionBegins, SessionEnds, ShutdownBegins, ShutdownExpires, SmRaises,
                   PublishRaises, SmShutdown, ShutdownPrepared, SmStops, RecoveryAwaited, Batch,
                   RebuildOne, RebuildCancelled, RebuildFails, BusTrips
    <2>2. QED
      BY <1>1, <2>1 DEF CodeIsEarned
  <1>12. QED
    BY <1>2, <1>3, <1>4, <1>5, <1>6, <1>7, <1>8, <1>9, <1>10, <1>11
       DEF Next, Destroys, Startup, Stopping, StateManager, Main

-----------------------------------------------------------------------------
(* The invariant, and what it is for.                                      *)

\* It holds at the start.
LEMMA IInvInit == Init => IInv
  <1> SUFFICES ASSUME Init PROVE IInv
    OBVIOUS
  <1>1. plan.order \in Seq(Keys)
    BY SupervisionBounds DEF Init, Keys, Spec
  <1>2. RecordsOK
    BY DEF Init, RecordsOK, Keys, Spec
  <1>3. rm \in Starts /\ sm \in StateManagers
    BY <1>1 DEF Init, Starts, StateManagers
  <1>4. recovery \in Batches /\ main \in Mains
    BY DEF Init, NoBatch, Batches, Mains
  <1>5. TypeOK
    BY <1>2, <1>3, <1>4 DEF Init, TypeOK
  <1>6. HeldBelow /\ StartInOrder /\ ArmedAbove
    BY DEF Init, HeldBelow, StartInOrder, ArmedAbove
  <1>7. BatchInStep /\ MissingIsInBatch /\ WaitsForBatch
    BY DEF Init, NoBatch, BatchInStep, MissingIsInBatch, WaitsForBatch, Started
  <1>8. RunningIsKnown /\ CodeIsEarned
    BY DEF Init, RunningIsKnown, CodeIsEarned
  <1>9. QED
    BY <1>5, <1>6, <1>7, <1>8 DEF IInv

\* Every step keeps it.
LEMMA IInvStep == IInv /\ [Next]_vars => IInv'
  <1>1. ASSUME IInv, Next PROVE IInv'
    BY <1>1, TypeStep, HeldStep, StartStep, ArmedStep, BatchStep, MissingStep, WaitsStep,
       RunningStep, CodeStep DEF IInv
  <1>2. ASSUME IInv, UNCHANGED vars PROVE IInv'
    <2>1. TypeOK'
      BY <1>2 DEF vars, IInv, TypeOK, RecordsOK, Starts, StateManagers, Batches, Mains, Keys, Spec
    <2>2. HeldBelow' /\ StartInOrder' /\ ArmedAbove'
      BY <1>2 DEF vars, IInv, HeldBelow, StartInOrder, ArmedAbove, Served, Wants, Spec, Started
    <2>3. BatchInStep' /\ MissingIsInBatch' /\ WaitsForBatch' /\ RunningIsKnown' /\ CodeIsEarned'
      BY <1>2 DEF vars, IInv, BatchInStep, MissingIsInBatch, WaitsForBatch, RunningIsKnown, CodeIsEarned,
                  Started, Recoverable, Spec
    <2>4. QED
      BY <2>1, <2>2, <2>3 DEF IInv
  <1>3. QED
    BY <1>1, <1>2

\* So it holds in every state of the process.
LEMMA Invariance == SafeSpec => []IInv
  BY IInvInit, IInvStep, PTL DEF SafeSpec

\* The records, the phases of the three actors and the list of what is still
\* to be started keep their types, and whatever a factory took through its
\* resolver stays started below it (manager.py, _start_one, _rollback, stop_all).
THEOREM StackIsSound == SafeSpec => [](TypeOK /\ HeldBelow)
  <1>1. IInv => TypeOK /\ HeldBelow
    BY DEF IInv
  <1>2. QED
    BY <1>1, Invariance, PTL

\* An armed source has the worker of its first turn, the reasoner and rest in
\* the catalog and started, for every graph and every overlap of the start
\* with a shutdown (manager.py, the coherence gate, _late_fill_and_arm and the
\* stops in reverse).
THEOREM ArmedSourceIsServed == SafeSpec => []ArmedIsServed
  <1>1. IInv => ArmedIsServed
    <2>1. SUFFICES ASSUME IInv, NEW s \in armed
                   PROVE  Wants(s) \subseteq catalog \cap Started
      BY DEF ArmedIsServed, Wants
    <2>2. PICK i \in DOMAIN started : started[i] = s /\ Served(s, i)
      BY <2>1 DEF IInv, ArmedAbove
    <2>3. \A j \in 1 .. (i - 1) : j \in DOMAIN started
      BY <2>1, <2>2 DEF IInv, TypeOK, RecordsOK
    <2>4. QED
      BY <2>2, <2>3 DEF Served, Started
  <1>2. QED
    BY <1>1, Invariance, PTL

\* While the process serves, a started backend that does not run has died
\* and not been reported, or was destroyed by the convergence in hand: nothing
\* of a batch is missing once the barrier is up, and the state manager goes on
\* only then.  For every graph, whatever dies whenever (convergence.py, level
\* 2; manager.py, begin_recovery, the batch's task and wait_recovery).
THEOREM BarrierIsHonest == SafeSpec => []BarrierHonest
  <1>1. IInv => BarrierHonest
    BY DEF IInv, BarrierHonest, Missing, Converging, BatchInStep, MissingIsInBatch, WaitsForBatch
  <1>2. QED
    BY <1>1, Invariance, PTL

\* An exit code other than 4 is the end of an orderly stop, and 0 also that of
\* a drained state manager (main.py, run_app).
THEOREM ExitIsOrderly == SafeSpec => []OrderlyExit
  <1>1. IInv => OrderlyExit
    BY DEF IInv, OrderlyExit, CodeIsEarned, RunningIsKnown, Started
  <1>2. QED
    BY <1>1, Invariance, PTL

-----------------------------------------------------------------------------
(* What is announced stands on the ground.                                 *)

\* Nothing that is still to be started has an instance, and nothing is to be
\* started twice.
Distinct(s) == \A i, j \in DOMAIN s : s[i] = s[j] => i = j

Fresh ==
    /\ rm.at \in {"starting", "inputs", "arming"} =>
          /\ Distinct(rm.todo)
          /\ \A i \in DOMAIN rm.todo : (rm.at # "arming" \/ i # 1) => instance[rm.todo[i]] = "none"
    /\ rm.at = "starting" =>
          \A j \in DOMAIN plan.inputs :
             /\ instance[plan.inputs[j]] = "none"
             /\ \A i \in DOMAIN rm.todo : rm.todo[i] # plan.inputs[j]

\* Each capability that is announced was announced over real instances.
Owns(own, cap) ==
    /\ Spec[own].cap = cap /\ instance[own] = "real" /\ Spec[own].capDeps \subseteq caps
    /\ \A dep \in Spec[own].deps : Phase(dep) = CORE => instance[dep] = "real"

Grounded == \A cap \in caps : cap # "none" /\ \E own \in Keys : Owns(own, cap)

\* What is left of a list without repetitions has none.
LEMMA RestDistinct ==
    ASSUME NEW S, NEW s \in Seq(S), s # <<>>, Distinct(s)
    PROVE  /\ Distinct(Tail(s))
           /\ \A i \in DOMAIN Tail(s) :
                 i + 1 \in DOMAIN s /\ i + 1 # 1 /\ Tail(s)[i] = s[i + 1] /\ Tail(s)[i] # Head(s)
  <1>1. Len(s) \in Nat /\ Len(s) > 0 /\ DOMAIN s = 1 .. Len(s) /\ Head(s) = s[1]
    OBVIOUS
  <1>2. Tail(s) \in Seq(S) /\ DOMAIN Tail(s) = 1 .. (Len(s) - 1)
    BY <1>1
  <1>3. \A i \in DOMAIN Tail(s) : Tail(s)[i] = s[i + 1] /\ i + 1 \in DOMAIN s /\ i + 1 # 1
    BY <1>1, <1>2
  <1>4. QED
    BY <1>1, <1>2, <1>3 DEF Distinct

\* A start writes one instance, that of the head of the list; no other step
\* writes any.
LEMMA InstanceMoves ==
    ASSUME TypeOK, Next
    PROVE  \/ UNCHANGED <<instance, caps>>
           \/ /\ StartOne \/ StartInput
              /\ rm.todo # <<>> /\ Head(rm.todo) \in Keys /\ rm.at \in {"starting", "inputs"}
              /\ Started1(Head(rm.todo)) \/ FallsBack(Head(rm.todo))
              /\ \E kind \in {"real", "null"} : instance' = [instance EXCEPT ![Head(rm.todo)] = kind]
  <1>1. CASE Beside
    BY <1>1, BesideFrame DEF records
  <1>2. CASE StopOne \/ RolledBack \/ Destroys \/ RebuildOne \/ Gate \/ Arm \/ Complete
    BY <1>2 DEF StopOne, StopLast, RolledBack, Destroys, BackendDies, ForceAborts, BeginRecovery,
                RebuildOne, Gate, Arm, Complete, records
  <1>3. CASE StartOne \/ StartInput
    <2>1. rm.at \in {"starting", "inputs"} /\ rm.todo # <<>> /\ Head(rm.todo) \in Keys
      BY <1>3, Rest DEF StartOne, StartInput, TypeOK, Starts
    <2>2. CASE Started1(Head(rm.todo)) \/ FallsBack(Head(rm.todo))
      BY <1>3, <2>1, <2>2 DEF Started1, FallsBack, Adopt
    <2>3. CASE ~(Started1(Head(rm.todo)) \/ FallsBack(Head(rm.todo)))
      BY <1>3, <2>3 DEF StartOne, StartInput, Skipped, Breaks, records
    <2>4. QED
      BY <2>2, <2>3
  <1>4. QED
    BY <1>1, <1>2, <1>3 DEF Next, Beside, Destroys, Startup, Stopping, StateManager, Batch

\* The head of the list has no instance yet.
LEMMA HeadIsFresh ==
    ASSUME TypeOK, Fresh, rm.at \in {"starting", "inputs"}, rm.todo # <<>>
    PROVE  instance[Head(rm.todo)] = "none"
  <1>1. 1 \in DOMAIN rm.todo /\ Head(rm.todo) = rm.todo[1]
    BY Rest DEF TypeOK, Starts
  <1>2. QED
    BY <1>1 DEF Fresh

\* What the list loses to a start is the key that is started.
LEMMA FreshStep ==
    ASSUME TypeOK, Fresh, StartInOrder, Next
    PROVE  Fresh'
  <1>0. plan' = plan /\ plan \in Plans /\ instance \in [Keys -> {"none", "real", "null"}]
    BY PlanStays DEF TypeOK, RecordsOK
  <1>1. CASE StartOne \/ StartInput
    <2> DEFINE key == Head(rm.todo)
    <2>1. /\ rm.at \in {"starting", "inputs"} /\ rm.todo # <<>> /\ key \in Keys
          /\ rm.todo \in Seq(Keys) /\ 1 \in DOMAIN rm.todo /\ key = rm.todo[1]
      BY <1>1, Rest DEF StartOne, StartInput, TypeOK, Starts
    <2>2. /\ Distinct(Tail(rm.todo))
          /\ \A i \in DOMAIN Tail(rm.todo) :
                /\ i + 1 \in DOMAIN rm.todo /\ i + 1 # 1
                /\ Tail(rm.todo)[i] = rm.todo[i + 1] /\ Tail(rm.todo)[i] # key
      BY <2>1, RestDistinct DEF Fresh
    <2>3. \A k \in Keys : k # key => instance'[k] = instance[k]
      BY <1>0, <2>1, InstanceMoves
    <2> HIDE DEF key
    <2>4. \A i \in DOMAIN rm.todo : rm.todo[i] \in Keys
      BY <2>1
    <2>5. CASE Rollback
      BY <2>5 DEF Rollback, Fresh
    <2>6. CASE rm' = [rm EXCEPT !.at = "arming"]
      <3>1. rm'.at = "arming" /\ rm'.todo = rm.todo
        BY <2>6 DEF TypeOK, Starts
      <3>2. ASSUME NEW i \in DOMAIN rm.todo, i # 1 PROVE instance'[rm.todo[i]] = "none"
        <4>1. rm.todo[i] # key /\ rm.todo[i] \in Keys
          BY <2>1, <2>4, <3>2 DEF Fresh, Distinct
        <4>2. QED
          BY <2>1, <2>3, <3>2, <4>1 DEF Fresh
      <3>3. QED
        BY <2>1, <3>1, <3>2 DEF Fresh
    <2>7. CASE NextStart
      <3>1. rm'.at = rm.at /\ rm'.todo = Tail(rm.todo)
        BY <2>7 DEF NextStart, TypeOK, Starts
      <3>2. ASSUME NEW i \in DOMAIN Tail(rm.todo)
            PROVE  instance'[Tail(rm.todo)[i]] = "none"
        <4>1. Tail(rm.todo)[i] \in Keys /\ instance[Tail(rm.todo)[i]] = "none"
          BY <2>1, <2>2, <2>4, <3>2 DEF Fresh
        <4>2. QED
          BY <2>2, <2>3, <4>1
      <3>3. ASSUME rm.at = "starting", NEW j \in DOMAIN plan.inputs
            PROVE  /\ instance'[plan.inputs[j]] = "none"
                   /\ \A i \in DOMAIN Tail(rm.todo) : Tail(rm.todo)[i] # plan.inputs[j]
        <4>1. plan.inputs[j] \in Keys
          BY <1>0, <3>3, SupervisionBounds DEF Keys, Spec
        <4>2. plan.inputs[j] # key /\ instance[plan.inputs[j]] = "none"
          BY <2>1, <3>3 DEF Fresh
        <4>3. QED
          BY <2>2, <2>3, <3>3, <4>1, <4>2 DEF Fresh
      <3>4. QED
        BY <1>0, <2>2, <3>1, <3>2, <3>3 DEF Fresh
    <2>8. QED
      BY <1>1, <2>5, <2>6, <2>7 DEF StartOne, StartInput
  <1>2. CASE Gate
    <2>1. UNCHANGED <<instance, caps>> /\ rm.at = "starting"
      BY <1>2 DEF Gate, records
    <2>2. CASE Rollback
      BY <2>2 DEF Rollback, Fresh
    <2>3. CASE rm' = [at |-> "inputs", todo |-> plan.inputs]
      <3>1. rm'.at = "inputs" /\ rm'.todo = plan.inputs
        BY <2>3
      <3>2. Distinct(plan.inputs)
        BY <1>0, GraphAssumption DEF Distinct
      <3>3. QED
        BY <2>1, <3>1, <3>2 DEF Fresh
    <2>4. QED
      BY <1>2, <2>2, <2>3 DEF Gate
  <1>3. CASE Arm
    <2>1. UNCHANGED <<instance, caps>> /\ rm.at = "arming" /\ rm.todo \in Seq(Keys) /\ rm.todo # <<>>
      BY <1>3 DEF Arm, records, StartInOrder, TypeOK, Starts
    <2>2. CASE Rollback
      BY <2>2 DEF Rollback, Fresh
    <2>3. CASE rm' = [at |-> "inputs", todo |-> Tail(rm.todo)]
      <3>1. rm'.at = "inputs" /\ rm'.todo = Tail(rm.todo)
        BY <2>3
      <3>2. /\ Distinct(Tail(rm.todo))
            /\ \A i \in DOMAIN Tail(rm.todo) :
                  i + 1 \in DOMAIN rm.todo /\ i + 1 # 1 /\ Tail(rm.todo)[i] = rm.todo[i + 1]
        BY <2>1, RestDistinct DEF Fresh
      <3>3. QED
        BY <2>1, <3>1, <3>2 DEF Fresh
    <2>4. QED
      BY <1>3, <2>2, <2>3 DEF Arm
  <1>4. CASE Complete \/ RolledBack
    <2>1. rm'.at \in {"ready", "failed"}
      BY <1>4 DEF Complete, RolledBack, TypeOK, Starts
    <2>2. QED
      BY <2>1 DEF Fresh
  <1>5. CASE Beside \/ StopOne \/ Destroys \/ RebuildOne
    <2>1. UNCHANGED <<rm, instance>>
      BY <1>5, BesideFrame DEF records, StopOne, StopLast, Destroys, BackendDies,
                               ForceAborts, BeginRecovery, RebuildOne
    <2>2. QED
      BY <1>0, <2>1 DEF Fresh
  <1>6. QED
    BY <1>1, <1>2, <1>3, <1>4, <1>5
    DEF Next, Beside, Destroys, Startup, Stopping, StateManager, Batch

\* A real instance stays the one it is, and a capability is announced only
\* over real ones.
LEMMA GroundedStep ==
    ASSUME TypeOK, Fresh, Grounded, Next
    PROVE  Grounded'
  <1>0. Spec' = Spec /\ Keys' = Keys /\ instance \in [Keys -> {"none", "real", "null"}]
    BY PlanStays DEF TypeOK, RecordsOK
  <1>1. CASE UNCHANGED <<instance, caps>>
    BY <1>0, <1>1 DEF Grounded, Owns, Phase
  <1>2. CASE ~UNCHANGED <<instance, caps>>
    <2>1. PICK key \in Keys :
             /\ rm.todo # <<>> /\ key = Head(rm.todo) /\ rm.at \in {"starting", "inputs"}
             /\ Started1(key) \/ FallsBack(key)
             /\ \E kind \in {"real", "null"} : instance' = [instance EXCEPT ![key] = kind]
      BY <1>2, InstanceMoves
    <2>2. instance[key] = "none"
      BY <2>1, HeadIsFresh
    <2>3. \A k : instance[k] = "real" /\ k \in Keys => instance'[k] = "real"
      BY <1>0, <2>1, <2>2
    <2>4. \A k \in Keys : Spec[k].deps \subseteq Keys
      BY GraphAssumption DEF TypeOK, Keys, Spec
    <2>5. caps \subseteq caps'
      BY <2>1 DEF Started1, FallsBack
    <2>6. ASSUME NEW own \in Keys, NEW cap, Owns(own, cap) PROVE Owns(own, cap)'
      BY <1>0, <2>3, <2>4, <2>5, <2>6 DEF Owns, Phase
    <2>7. ASSUME NEW cap \in caps', cap \notin caps
          PROVE  cap # "none" /\ Owns(key, cap)'
      <3>1. Started1(key) /\ Spec[key].cap # "none" /\ Capable(key) /\ cap = Spec[key].cap
        BY <2>1, <2>7 DEF Started1, FallsBack
      <3>2. instance'[key] = "real"
        BY <1>0, <2>1, <3>1 DEF Started1, Adopt
      <3>3. \A dep \in Spec[key].deps : Phase(dep) = CORE => instance'[dep] = "real"
        BY <2>1, <2>3, <2>4, <3>1 DEF Capable, RealCore
      <3>4. Spec[key].capDeps \subseteq caps'
        BY <2>5, <3>1 DEF Capable
      <3>5. \A dep \in Spec'[key].deps : Phase(dep)' = CORE => instance'[dep] = "real"
        BY <1>0, <3>3 DEF Phase
      <3>6. Spec'[key].cap = cap /\ Spec'[key].capDeps \subseteq caps'
        BY <1>0, <3>1, <3>4
      <3>7. Owns(key, cap)'
        BY <3>2, <3>5, <3>6 DEF Owns
      <3>8. QED
        BY <3>1, <3>7
    <2>8. ASSUME NEW cap \in caps'
          PROVE  cap # "none" /\ \E own \in Keys' : Owns(own, cap)'
      <3>1. CASE cap \in caps
        <4>1. cap # "none" /\ \E own \in Keys : Owns(own, cap)
          BY <3>1 DEF Grounded
        <4>2. QED
          BY <1>0, <2>6, <4>1
      <3>2. CASE cap \notin caps
        BY <1>0, <2>1, <2>7, <2>8, <3>2
      <3>3. QED
        BY <3>1, <3>2
    <2>9. QED
      BY <2>8 DEF Grounded
  <1>3. QED
    BY <1>1, <1>2

\* The owner of an announced capability is the one that announced it.
LEMMA OwnerFound ==
    ASSUME TypeOK, Grounded, NEW cap \in caps
    PROVE  Owner(cap) \in Keys /\ Owns(Owner(cap), cap) /\ cap # "none"
  <1>1. PICK own \in Keys : Owns(own, cap)
    BY DEF Grounded
  <1>2. cap # "none"
    BY DEF Grounded
  <1>3. \A k \in DOMAIN Spec : Spec[k].cap = cap => k = own
    BY <1>1, <1>2, GraphAssumption DEF TypeOK, Keys, Spec, Owns
  <1>4. Owner(cap) = own
    BY <1>1, <1>3 DEF Owner, Owns, Keys
  <1>5. QED
    BY <1>1, <1>2, <1>4

\* What an owner stands on directly is real.
LEMMA GroundReal ==
    ASSUME TypeOK, Grounded, NEW cap \in caps, NEW g \in Ground(Owner(cap))
    PROVE  instance[g] = "real"
  <1>1. Owns(Owner(cap), cap)
    BY OwnerFound
  <1>2. CASE g \in Spec[Owner(cap)].deps /\ Phase(g) = CORE
    BY <1>1, <1>2 DEF Owns
  <1>3. CASE \E c \in Spec[Owner(cap)].capDeps : g = Owner(c)
    <2>1. PICK c \in caps : g = Owner(c)
      BY <1>1, <1>3 DEF Owns
    <2>2. QED
      BY <2>1, OwnerFound DEF Owns
  <1>4. QED
    BY <1>2, <1>3 DEF Ground

\* Whatever is announced rests on real instances all the way down
\* (manager.py, the tracking of capabilities in _start_one), whatever falls
\* back to its null instance, fails or is skipped, in every graph that
\* Registry accepts.
THEOREM GroundIsFirm == SafeSpec => []StandsOnGround
  <1>1. Init => Fresh /\ Grounded
    <2> SUFFICES ASSUME Init PROVE Fresh /\ Grounded
      OBVIOUS
    <2>1. Grounded
      BY DEF Init, Grounded
    <2>2. plan \in Plans /\ rm.todo = plan.order /\ rm.at = "starting"
          /\ instance = [k \in DOMAIN plan.spec |-> "none"]
      BY DEF Init
    <2>3. plan.order \in Seq(DOMAIN plan.spec) /\ plan.inputs \in Seq(DOMAIN plan.spec)
      BY <2>2, SupervisionBounds
    <2>4. /\ \A i \in DOMAIN plan.order : instance[plan.order[i]] = "none"
          /\ \A i \in DOMAIN plan.inputs : instance[plan.inputs[i]] = "none"
      BY <2>2, <2>3
    <2>5. Fresh
      BY <2>2, <2>4, GraphAssumption DEF Fresh, Distinct
    <2>6. QED
      BY <2>1, <2>5
  <1>2. IInv /\ Fresh /\ Grounded /\ [Next]_vars => Fresh' /\ Grounded'
    <2>1. CASE Next
      BY <2>1, FreshStep, GroundedStep DEF IInv
    <2>2. CASE UNCHANGED vars
      BY <2>2 DEF vars, Fresh, Grounded, Owns, Phase, Spec, Keys
    <2>3. QED
      BY <2>1, <2>2
  <1>3. IInv /\ Fresh /\ Grounded => StandsOnGround
    <2> SUFFICES ASSUME IInv, Grounded PROVE NoNullBehind
      BY DEF IInv, StandsOnGround
    <2> SUFFICES ASSUME NEW cap \in caps,
                        NEW k \in {Owner(cap)} \cup Ground(Owner(cap))
                                  \cup UNION {Ground(g) : g \in Ground(Owner(cap))}
                 PROVE  instance[k] = "real"
      BY DEF NoNullBehind
    <2>1. TypeOK /\ Owner(cap) \in Keys /\ Owns(Owner(cap), cap) /\ cap # "none"
      BY OwnerFound DEF IInv
    <2>2. CASE k = Owner(cap)
      BY <2>1, <2>2 DEF Owns
    <2>3. CASE k \in Ground(Owner(cap))
      BY <2>1, <2>3, GroundReal
    <2>4. ASSUME NEW g \in Ground(Owner(cap)), k \in Ground(g) PROVE instance[k] = "real"
      <3>1. CASE g \in Spec[Owner(cap)].deps /\ Phase(g) = CORE
        <4>1. /\ Spec[g].capDeps = {}
              /\ \A d \in Spec[g].deps : Phase(d) # CORE
          BY <2>1, <3>1, GraphAssumption DEF TypeOK, Keys, Spec, Owns, Phase
        <4>2. QED
          BY <2>4, <4>1 DEF Ground
      <3>2. CASE \E c \in Spec[Owner(cap)].capDeps : g = Owner(c)
        <4>1. PICK c \in caps : g = Owner(c)
          BY <2>1, <3>2 DEF Owns
        <4>2. QED
          BY <2>1, <2>4, <4>1, GroundReal
      <3>3. QED
        BY <2>4, <3>1, <3>2 DEF Ground
    <2>5. QED
      BY <2>2, <2>3, <2>4
  <1>4. QED
    BY <1>1, <1>2, <1>3, Invariance, PTL DEF SafeSpec

-----------------------------------------------------------------------------
(***************************************************************************)
(* The values.                                                             *)
(***************************************************************************)
Edges == [edge : {"press", "release"}, at : Nat \ {0}]
Holds == [from : Nat, to : Nat]
Events == [kind : {"button", "shutdown"}, from : Nat, to : Nat]
Buttons == [started : BOOLEAN, armed : BOOLEAN, pressedAt : Nat]
States == {"IDLE", "WAKE", "PERCEPTION", "THINK", "ACTION", "ERROR"}
Managers ==
    [state : States, session : Nat, pending : BOOLEAN, shutting : BOOLEAN,
     up : {"running", "stopped", "failed"}, sessions : Nat]
Texts == [session : Nat, what : {"none", "aborted"} \cup States]
Frames == [top : {"blank", "error", "none"} \cup States, main : Texts]
Panels ==
    [started : BOOLEAN, rendering : BOOLEAN, state : {"none"} \cup States, error : BOOLEAN,
     main : Texts, owner : {"none", "boot", "shutdown"}, frame : Frames]
Items == {"button", "shutdown", "error", "unproven"}
Boot == {"core", "arbiter", "observed"}
Down == {"released", "unobserved", "dark", "stopped"}

LineShape ==
    /\ now \in Nat \ {0} /\ finger \in Nat /\ holds \subseteq Holds /\ lost \in BOOLEAN
    /\ edges \in Seq(Edges) /\ tasks \in Seq(Edges)
    /\ button \in Buttons /\ published \subseteq Events

PanelShape ==
    /\ inbox \in Seq(Items) /\ mgr \in Managers /\ panel \in Panels /\ broken \in BOOLEAN
    /\ app \in Boot \cup {"armed"} \cup Down

(***************************************************************************)
(* The line.  Sound(q, h, f, b): what waits in q for a button b under a    *)
(* finger f is the end of the held presses h.  A press is followed by its  *)
(* release, the button's press by the head of the queue, and a last press  *)
(* is still held.                                                          *)
(***************************************************************************)
Ends(h, from, e) == e.edge = "release" /\ [from |-> from, to |-> e.at] \in h

Paired(q, h) ==
    \A i \in 1..Len(q) : i + 1 \in 1..Len(q) /\ q[i].edge = "press" => Ends(h, q[i].at, q[i + 1])

Oldest(q, h, f, b) ==
    b.pressedAt # 0 =>
        /\ b.started
        /\ q = <<>> => f = b.pressedAt
        /\ q # <<>> => Ends(h, b.pressedAt, q[1])

Newest(q, f, b) ==
    b.started /\ q # <<>> => (q[Len(q)].edge = "press" => f # 0 /\ f = q[Len(q)].at)

Sound(q, h, f, b) == Paired(q, h) /\ Oldest(q, h, f, b) /\ Newest(q, f, b)

Waiting == tasks \o edges

(* The button's life: nothing waits before it listens.                     *)
Listening ==
    /\ ~button.started => edges = <<>> /\ button.pressedAt = 0
    /\ ~button.armed => button.pressedAt = 0
    /\ ~button.started /\ app \in Boot => tasks = <<>>
    /\ app \in Down => ~button.started
    /\ button.armed => app = "armed"

LineInv ==
    /\ LineShape /\ Listening
    /\ ~lost => Sound(Waiting, holds, finger, button)
    /\ EventsAreHolds

(***************************************************************************)
(* The panel.                                                              *)
(***************************************************************************)
(* What is still rendered is rendered as it stands.                        *)
Drawn(p) == p.rendering /\ ~broken => p.frame = Picture(p)

(* Which owners are up.                                                    *)
Lit ==
    /\ app \in {"core", "dark", "stopped"} => ~panel.started
    /\ app \notin {"core", "dark", "stopped"} => panel.started /\ Drawn(panel)
    /\ app \in Boot \cup {"armed", "released"} => panel.owner = "none"
    /\ app = "unobserved" => panel.owner = "shutdown"
    /\ app \in {"dark", "stopped"} /\ panel.rendering /\ ~broken => panel.frame = Blank

(* Before the arming nothing has happened, after the stop nothing does.    *)
Phases ==
    /\ app \in Boot =>
        /\ mgr.state = "IDLE" /\ ~mgr.pending /\ mgr.up = "running" /\ inbox = <<>>
        /\ ~panel.error
    /\ app \in Down => mgr.up = "stopped"

Expected(q) == \E i \in DOMAIN q : q[i] \in {"error", "unproven"}

(* The panel's fields against the state manager and its inbox.             *)
Follows ==
    /\ mgr.state = "IDLE" => mgr.session = 0
    /\ app \in {"observed", "armed"} /\ mgr.up = "running" =>
        /\ panel.state = mgr.state
        /\ panel.main.session \in {0, mgr.session}
        /\ panel.error => mgr.state = "ERROR" \/ Expected(inbox)

PanelInv == PanelShape /\ Lit /\ Phases /\ Follows

FrontInv == LineInv /\ PanelInv

(***************************************************************************)
(* Queues.                                                                 *)
(***************************************************************************)
(* An edge that arrives waits last, behind the tasks and the older edges.  *)
LEMMA Grows ==
    ASSUME NEW s \in Seq(Edges), NEW t \in Seq(Edges), NEW e \in Edges
    PROVE  s \o Append(t, e) = Append(s \o t, e)
  OBVIOUS

(* Reading the edges turns them into tasks and changes no order.           *)
LEMMA Moves ==
    ASSUME NEW s \in Seq(Edges), NEW t \in Seq(Edges)
    PROVE  /\ (s \o t) \o <<>> = s \o t
           /\ s \o <<>> = s
           /\ s \o t \in Seq(Edges)
  OBVIOUS

(* A callback takes the edge that waited longest.                          *)
LEMMA Shrinks ==
    ASSUME NEW s \in Seq(Edges), NEW t \in Seq(Edges), s # <<>>
    PROVE  /\ s \o t # <<>> /\ (s \o t)[1] = Head(s)
           /\ Tail(s) \o t = Tail(s \o t)
  <1>1. s \o t \in Seq(Edges) /\ Len(s \o t) = Len(s) + Len(t) /\ Len(s) > 0
    OBVIOUS
  <1>2. (s \o t)[1] = s[1] /\ s \o t # <<>>
    BY <1>1
  <1>3. Tail(s) \in Seq(Edges) /\ Len(Tail(s)) = Len(s) - 1
    OBVIOUS
  <1>4. Tail(s \o t) \in Seq(Edges) /\ Len(Tail(s \o t)) = Len(s) + Len(t) - 1
    BY <1>1, <1>2
  <1>5. Tail(s) \o t \in Seq(Edges) /\ Len(Tail(s) \o t) = Len(s) - 1 + Len(t)
    BY <1>3
  <1>6. ASSUME NEW i \in 1..(Len(s) + Len(t) - 1)
        PROVE  (Tail(s) \o t)[i] = Tail(s \o t)[i]
    <2>1. CASE i <= Len(s) - 1
      BY <2>1, <1>1, <1>2, <1>3
    <2>2. CASE i > Len(s) - 1
      BY <2>2, <1>1, <1>2, <1>3
    <2> QED BY <2>1, <2>2, <1>1
  <1> QED BY <1>2, <1>4, <1>5, <1>6

(* The kernel's buffer loses what is behind, never what is before.         *)
LEMMA Cuts ==
    ASSUME NEW s \in Seq(Edges), NEW t \in Seq(Edges), NEW h \in SUBSET Holds,
           Paired(s \o t, h)
    PROVE  Paired(s, h)
  BY DEF Paired, Ends

(***************************************************************************)
(* What an edge, a hold and a callback do to a sound line.                 *)
(***************************************************************************)
(* A press on a line that is watched: no press can be before it unreleased.*)
LEMMA PressSound ==
    ASSUME NEW q \in Seq(Edges), NEW h \in SUBSET Holds, NEW b \in Buttons, NEW e \in Edges,
           Sound(q, h, 0, b), b.started, e.edge = "press"
    PROVE  Sound(Append(q, e), h, e.at, b)
  <1>1. /\ Append(q, e) \in Seq(Edges) /\ Len(Append(q, e)) = Len(q) + 1
        /\ Append(q, e)[Len(q) + 1] = e /\ Append(q, e) # <<>>
        /\ \A i \in 1..Len(q) : Append(q, e)[i] = q[i]
        /\ e.at \in Nat \ {0}
    BY DEF Edges
  <1>2. Paired(Append(q, e), h)
    BY <1>1 DEF Paired, Sound, Newest, Ends
  <1>3. Oldest(Append(q, e), h, e.at, b)
    BY <1>1 DEF Sound, Oldest, Ends
  <1>4. Newest(Append(q, e), e.at, b)
    BY <1>1 DEF Newest
  <1> QED BY <1>2, <1>3, <1>4 DEF Sound

(* A release: the hold it ends is that of the press before it.             *)
LEMMA ReleaseSound ==
    ASSUME NEW q \in Seq(Edges), NEW h \in SUBSET Holds, NEW b \in Buttons, NEW e \in Edges,
           NEW f \in Nat, Sound(q, h, f, b), b.started, e.edge = "release"
    PROVE  Sound(Append(q, e), h \cup {[from |-> f, to |-> e.at]}, 0, b)
  <1> DEFINE g == h \cup {[from |-> f, to |-> e.at]}
  <1>1. /\ Append(q, e) \in Seq(Edges) /\ Len(Append(q, e)) = Len(q) + 1
        /\ Append(q, e)[Len(q) + 1] = e /\ Append(q, e) # <<>>
        /\ \A i \in 1..Len(q) : Append(q, e)[i] = q[i]
    OBVIOUS
  <1>2. Paired(Append(q, e), g)
    <2> HIDE DEF g
    <2> SUFFICES ASSUME NEW i \in 1..Len(q), Append(q, e)[i].edge = "press"
                 PROVE  Ends(g, Append(q, e)[i].at, Append(q, e)[i + 1])
      BY <1>1 DEF Paired
    <2> USE DEF g
    <2>1. CASE i = Len(q)
      BY <2>1, <1>1 DEF Sound, Newest, Ends
    <2>2. CASE i # Len(q)
      BY <2>2, <1>1 DEF Sound, Paired, Ends
    <2> QED BY <2>1, <2>2
  <1>3. Oldest(Append(q, e), g, 0, b)
    BY <1>1 DEF Sound, Oldest, Ends
  <1>4. Newest(Append(q, e), 0, b)
    BY <1>1 DEF Newest
  <1> QED BY <1>2, <1>3, <1>4 DEF Sound

(* A line nobody watches: what the finger does is not heard.               *)
LEMMA Unwatched ==
    ASSUME NEW q \in Seq(Edges), NEW h \in SUBSET Holds, NEW g \in SUBSET Holds,
           NEW b \in Buttons, NEW f, NEW k, h \subseteq g, ~b.started,
           Sound(q, h, f, b)
    PROVE  Sound(q, g, k, b)
  BY DEF Sound, Paired, Oldest, Newest, Ends

(* A callback: the press it takes is the one the next edge ends.           *)
LEMMA TakeSound ==
    ASSUME NEW q \in Seq(Edges), NEW h \in SUBSET Holds, NEW b \in Buttons, NEW c \in Buttons,
           NEW f \in Nat, Sound(q, h, f, b), q # <<>>,
           c.started => b.started,
           c.pressedAt # 0 => c.started /\ q[1].edge = "press" /\ c.pressedAt = q[1].at
    PROVE  Sound(Tail(q), h, f, c)
  <1>1. /\ Tail(q) \in Seq(Edges) /\ Len(Tail(q)) = Len(q) - 1 /\ Len(q) \in Nat \ {0}
        /\ \A i \in 1..(Len(q) - 1) : Tail(q)[i] = q[i + 1]
    OBVIOUS
  <1>2. Paired(Tail(q), h)
    BY <1>1 DEF Sound, Paired
  <1>3. Newest(Tail(q), f, c)
    <2> SUFFICES ASSUME c.started, Tail(q) # <<>>
                 PROVE  Tail(q)[Len(q) - 1] = q[Len(q)]
      BY <1>1 DEF Sound, Newest
    <2> QED BY <1>1
  <1>4. Oldest(Tail(q), h, f, c)
    <2> SUFFICES ASSUME c.pressedAt # 0
                 PROVE  /\ Tail(q) = <<>> => f = c.pressedAt
                        /\ Tail(q) # <<>> => Ends(h, c.pressedAt, Tail(q)[1])
      BY DEF Oldest
    <2>1. ASSUME Tail(q) = <<>> PROVE f = c.pressedAt
      <3>1. Len(q) = 1
        <4>1. Len(Tail(q)) = Len(<<>>)
          BY <2>1, Zenon
        <4>2. Len(<<>>) = 0
          OBVIOUS
        <4>3. Len(Tail(q)) = 0
          BY <4>1, <4>2, Zenon
        <4> QED BY <4>3, <1>1
      <3> QED BY <3>1 DEF Sound, Newest
    <2>2. ASSUME Tail(q) # <<>> PROVE Ends(h, c.pressedAt, Tail(q)[1])
      <3>1. 2 \in 1..Len(q) /\ Tail(q)[1] = q[2]
        BY <1>1, <2>2
      <3> QED BY <3>1, <1>1 DEF Sound, Paired
    <2> QED BY <2>1, <2>2
  <1> QED BY <1>2, <1>3, <1>4 DEF Sound

(***************************************************************************)
(* The line under the actions.                                             *)
(***************************************************************************)
(* The actions that leave the finger, the edges, the tasks, the button and *)
(* what it published as they are.                                          *)
Aside == UNCHANGED <<finger, holds, lost, edges, tasks, button, published>>

(* All but the finger, the line, the faults of the line and the button's   *)
(* own start and stop.                                                     *)
LEMMA Elsewhere ==
    ASSUME [FrontNext]_frontVars, now \in Nat \ {0}
    PROVE  \/ /\ Aside /\ now' \in Nat \ {0}
              /\ \/ app' = app
                 \/ app = "core" /\ app' \in Boot
                 \/ app = "arbiter" /\ app' = "observed"
                 \/ app \in Down /\ app' \in Down
           \/ Press \/ Release \/ ReadReady \/ Callback \/ ReadFails
           \/ StartButton \/ ArmButton \/ StopButton
  <1> USE DEF Aside, Boot, Down
  <1>1. CASE Tick
    BY <1>1 DEF Tick
  <1>2. CASE ComponentFault
    BY <1>2 DEF ComponentFault, Fault
  <1>3. CASE DeviceBreaks
    BY <1>3 DEF DeviceBreaks, physical
  <1>4. CASE ManagerSteps
    BY <1>4 DEF ManagerSteps, HandleItem, TurnMovesOn, TurnRests, TurnErrs, Converged, Running,
                physical
  <1>5. CASE StartArbiter \/ StartObservers \/ StopObservers \/ StopDisplay \/ StopGpio
    BY <1>5 DEF StartArbiter, StartObservers, StopObservers, StopDisplay, StopGpio,
                OwnerStep, physical
  <1>6. CASE UNCHANGED frontVars
    BY <1>6 DEF frontVars
  <1> QED
    BY <1>1, <1>2, <1>3, <1>4, <1>5, <1>6 DEF FrontNext, Physical, Line, Faults, Owners

(* A press or a release: the edge waits last, or was lost.                 *)
LEMMA EdgeShape ==
    ASSUME LineShape, NEW e \in {"press", "release"}, Edge(e)
    PROVE  /\ lost' \in BOOLEAN /\ edges' \in Seq(Edges)
           /\ ~button.started => edges' = edges
           /\ button.started /\ ~lost' =>
                ~lost /\ edges' = Append(edges, [edge |-> e, at |-> now])
           /\ ~lost' => ~lost
           /\ [edge |-> e, at |-> now] \in Edges
  <1>1. [edge |-> e, at |-> now] \in Edges
    BY DEF LineShape, Edges
  <1>2. edges \in Seq(Edges) /\ lost \in BOOLEAN
    BY DEF LineShape
  <1>3. CASE ~button.started
    BY <1>1, <1>2, <1>3 DEF Edge
  <1>4. CASE button.started /\ Len(edges) < EventBuffer
    <2>1. edges' = Append(edges, [edge |-> e, at |-> now]) /\ lost' = lost
      BY <1>4 DEF Edge
    <2>2. Append(edges, [edge |-> e, at |-> now]) \in Seq(Edges)
      BY <1>1, <1>2
    <2> QED BY <1>1, <1>2, <1>4, <2>1, <2>2
  <1>5. CASE button.started /\ ~(Len(edges) < EventBuffer)
    BY <1>1, <1>2, <1>5 DEF Edge
  <1> QED BY <1>3, <1>4, <1>5

(* The button a callback leaves behind.                                    *)
LEMMA CallbackButton ==
    ASSUME LineShape, Callback
    PROVE  /\ tasks # <<>> /\ tasks' = Tail(tasks) /\ tasks' \in Seq(Edges)
           /\ Head(tasks) \in Edges
           /\ button' \in Buttons
           /\ button'.started => button.started
           /\ button.started => button'.started
           /\ button'.armed => button.armed
           /\ button'.pressedAt # 0 =>
                 \/ button' = button /\ ~(button.started /\ button.armed)
                 \/ /\ button.started /\ button.armed /\ Head(tasks).edge = "press"
                    /\ button'.pressedAt = Head(tasks).at /\ button'.armed
           /\ UNCHANGED <<now, finger, holds, lost, edges, app>>
  <1>1. /\ tasks # <<>> /\ tasks' = Tail(tasks) /\ tasks' \in Seq(Edges)
        /\ Head(tasks) \in Edges /\ UNCHANGED <<now, finger, holds, lost, edges, app>>
    BY DEF LineShape, Callback, physical
  <1>2. CASE ~(button.started /\ button.armed)
    <2>1. button' = button
      BY <1>2 DEF Callback
    <2> QED BY <1>1, <1>2, <2>1 DEF LineShape
  <1>3. CASE button.started /\ button.armed /\ Head(tasks).edge = "press"
    <2>1. button' = [button EXCEPT !.pressedAt = Head(tasks).at]
      BY <1>3 DEF Callback
    <2> QED BY <1>1, <1>3, <2>1 DEF LineShape, Buttons, Edges
  <1>4. CASE button.started /\ button.armed /\ Head(tasks).edge # "press"
    <2>1. button' = [button EXCEPT !.pressedAt = 0]
      BY <1>4 DEF Callback, OnRelease
    <2> QED BY <1>1, <1>4, <2>1 DEF LineShape, Buttons
  <1> QED BY <1>2, <1>3, <1>4

(* What a callback publishes is what the button made of one release.       *)
LEMMA CallbackPublishes ==
    ASSUME LineShape, Callback
    PROVE  \/ UNCHANGED <<published, inbox, panel>>
           \/ LET from == button.pressedAt
                  to == Head(tasks).at
              IN  /\ button.started /\ button.armed /\ from # 0
                  /\ Kind(from, to) \in {"button", "shutdown"}
                  /\ published' = published \cup {[kind |-> Kind(from, to), from |-> from, to |-> to]}
                  /\ Enqueue(Kind(from, to))
                  /\ panel' = IF Kind(from, to) = "button" THEN OnInterrupt(panel) ELSE panel
  BY DEF Callback, OnRelease, Publish, Kind

(* Types.                                                                  *)
LEMMA LineShapeStep ==
    ASSUME LineShape, [FrontNext]_frontVars
    PROVE  LineShape'
  <1>1. CASE Aside /\ now' \in Nat \ {0}
    BY <1>1 DEF LineShape, Aside
  <1>2. CASE Press
    BY <1>2, EdgeShape DEF LineShape, Press
  <1>3. CASE Release
    <2>1. [from |-> finger, to |-> now] \in Holds
      BY DEF LineShape, Holds
    <2> QED BY <1>3, <2>1, EdgeShape DEF LineShape, Release
  <1>4. CASE ReadReady
    BY <1>4, Moves DEF LineShape, ReadReady, physical
  <1>5. CASE Callback
    <2>1. published' \subseteq Events
      <3> DEFINE e == [kind |-> Kind(button.pressedAt, Head(tasks).at),
                       from |-> button.pressedAt, to |-> Head(tasks).at]
      <3>1. button.pressedAt \in Nat /\ Head(tasks).at \in Nat
        BY <1>5, CallbackButton DEF LineShape, Buttons, Edges
      <3>2. Kind(button.pressedAt, Head(tasks).at) \in {"button", "shutdown"} => e \in Events
        BY <3>1 DEF Events
      <3> QED BY <1>5, <3>2, CallbackPublishes DEF LineShape
    <2> QED BY <1>5, <2>1, CallbackButton DEF LineShape
  <1>6. CASE ReadFails
    BY <1>6 DEF LineShape, ReadFails, Fault
  <1>7. CASE StartButton
    BY <1>7 DEF LineShape, StartButton, OwnerStep, physical, Buttons
  <1>8. CASE ArmButton
    BY <1>8 DEF LineShape, ArmButton, OwnerStep, physical, Buttons
  <1>9. CASE StopButton
    BY <1>9 DEF LineShape, StopButton, OwnerStep, physical, Buttons
  <1> QED
    BY <1>1, <1>2, <1>3, <1>4, <1>5, <1>6, <1>7, <1>8, <1>9, Elsewhere DEF LineShape

(* The button's life.                                                      *)
LEMMA ListeningStep ==
    ASSUME LineShape, Listening, [FrontNext]_frontVars
    PROVE  Listening'
  <1> USE DEF Listening, Boot, Down
  <1>1. CASE /\ Aside
             /\ \/ app' = app
                \/ app = "core" /\ app' \in Boot
                \/ app = "arbiter" /\ app' = "observed"
                \/ app \in Down /\ app' \in Down
    BY <1>1 DEF Aside
  <1>2. CASE Press \/ Release
    BY <1>2, EdgeShape DEF Press, Release
  <1>3. CASE ReadReady
    BY <1>3 DEF ReadReady, physical
  <1>4. CASE Callback
    BY <1>4, CallbackButton
  <1>5. CASE ReadFails
    BY <1>5 DEF ReadFails, Fault
  <1>6. CASE StartButton
    BY <1>6 DEF StartButton, OwnerStep, physical, LineShape, Buttons
  <1>7. CASE ArmButton
    BY <1>7 DEF ArmButton, OwnerStep, physical, LineShape, Buttons
  <1>8. CASE StopButton
    BY <1>8 DEF StopButton, OwnerStep, physical
  <1> QED
    BY <1>1, <1>2, <1>3, <1>4, <1>5, <1>6, <1>7, <1>8, Elsewhere DEF LineShape

(* What waits stays the end of what was held.                              *)
LEMMA SoundStep ==
    ASSUME LineInv, [FrontNext]_frontVars, ~lost'
    PROVE  Sound(Waiting, holds, finger, button)'
  <1>0. /\ LineShape /\ Listening /\ Waiting \in Seq(Edges) /\ button \in Buttons
        /\ holds \in SUBSET Holds /\ finger \in Nat
    BY Moves DEF LineInv, LineShape, Waiting
  <1>1. CASE Aside
    <2>1. ~lost
      BY <1>1 DEF Aside
    <2>2. Sound(Waiting, holds, finger, button)
      BY <2>1 DEF LineInv
    <2> QED BY <1>1, <2>2 DEF Aside, Waiting, Sound, Paired, Oldest, Newest, Ends
  <1>2. CASE Press
    <2> DEFINE e == [edge |-> "press", at |-> now]
    <2>1. /\ Edge("press") /\ finger = 0 /\ finger' = now /\ UNCHANGED <<holds, tasks, button>>
      BY <1>2 DEF Press
    <2>2. /\ ~lost /\ e \in Edges
          /\ button.started => edges' = Append(edges, e)
          /\ ~button.started => edges' = edges
      BY <1>0, <2>1, EdgeShape
    <2>3. Sound(Waiting, holds, 0, button)
      BY <2>1, <2>2 DEF LineInv
    <2>4. CASE button.started
      <3>1. Waiting' = Append(Waiting, e)
        <4> HIDE DEF e
        <4>1. tasks \in Seq(Edges) /\ edges \in Seq(Edges)
          BY DEF LineInv, LineShape
        <4>2. tasks \o Append(edges, e) = Append(tasks \o edges, e)
          BY <2>2, <4>1, Grows
        <4>3. tasks' = tasks /\ edges' = Append(edges, e)
          BY <2>1, <2>2, <2>4
        <4>4. QED
          BY <4>2, <4>3 DEF Waiting
      <3>2. Sound(Append(Waiting, e), holds, e.at, button)
        BY <1>0, <2>2, <2>3, <2>4, PressSound
      <3> QED BY <2>1, <3>1, <3>2
    <2>5. CASE ~button.started
      <3>1. Waiting' = Waiting
        BY <2>1, <2>2, <2>5 DEF Waiting
      <3>2. Sound(Waiting, holds, now, button)
        BY <1>0, <2>3, <2>5, Unwatched
      <3> QED BY <2>1, <3>1, <3>2
    <2> QED BY <2>4, <2>5
  <1>3. CASE Release
    <2> DEFINE e == [edge |-> "release", at |-> now]
               h == holds \cup {[from |-> finger, to |-> now]}
    <2>1. /\ Edge("release") /\ finger' = 0 /\ holds' = h /\ UNCHANGED <<tasks, button>>
      BY <1>3 DEF Release
    <2>2. /\ ~lost /\ e \in Edges
          /\ button.started => edges' = Append(edges, e)
          /\ ~button.started => edges' = edges
      BY <1>0, <2>1, EdgeShape
    <2>3. Sound(Waiting, holds, finger, button)
      BY <2>2 DEF LineInv
    <2>4. CASE button.started
      <3>1. Waiting' = Append(Waiting, e)
        BY SMTT(60), <2>1, <2>2, <2>4, Grows DEF Waiting, LineInv, LineShape
      <3>2. Sound(Append(Waiting, e), holds \cup {[from |-> finger, to |-> e.at]}, 0, button)
        BY <1>0, <2>2, <2>3, <2>4, ReleaseSound
      <3> QED BY <2>1, <3>1, <3>2
    <2>5. CASE ~button.started
      <3>1. Waiting' = Waiting
        BY <2>1, <2>2, <2>5 DEF Waiting
      <3>2. h \in SUBSET Holds
        BY <1>0, LineShapeStep, <2>1 DEF LineShape
      <3>3. Sound(Waiting, h, 0, button)
        <4> HIDE DEF e
        <4>1. holds \subseteq h
          OBVIOUS
        <4> HIDE DEF h
        <4> QED BY <1>0, <2>3, <2>5, <3>2, <4>1, Unwatched
      <3> QED BY <2>1, <3>1, <3>3
    <2> QED BY <2>4, <2>5
  <1>4. CASE ReadReady
    <2>1. ~lost /\ UNCHANGED <<holds, finger, button>>
      BY <1>4 DEF ReadReady, physical
    <2>2. Waiting' = Waiting
      BY <1>4, Moves DEF ReadReady, Waiting, LineInv, LineShape
    <2>3. Sound(Waiting, holds, finger, button)
      BY <2>1 DEF LineInv
    <2> QED BY <2>1, <2>2, <2>3
  <1>5. CASE Callback
    <2>1. ~lost /\ UNCHANGED <<holds, finger, edges>> /\ tasks # <<>> /\ tasks' = Tail(tasks)
      BY <1>0, <1>5, CallbackButton
    <2>2. Waiting # <<>> /\ Waiting[1] = Head(tasks) /\ Waiting' = Tail(Waiting)
      BY <2>1, Shrinks DEF Waiting, LineInv, LineShape
    <2>3. Sound(Waiting, holds, finger, button)
      BY <2>1 DEF LineInv
    <2>4. /\ button' \in Buttons /\ (button'.started => button.started)
          /\ button'.pressedAt # 0 =>
                button'.started /\ Waiting[1].edge = "press" /\ button'.pressedAt = Waiting[1].at
      BY <1>0, <1>5, <2>2, CallbackButton DEF Listening
    <2>5. Sound(Tail(Waiting), holds, finger, button')
      BY <1>0, <2>2, <2>3, <2>4, TakeSound
    <2> QED BY <2>1, <2>2, <2>5
  <1>6. CASE ReadFails
    BY <1>6 DEF ReadFails
  <1>7. CASE StartButton
    <2>1. /\ ~lost /\ UNCHANGED <<holds, tasks, edges, finger>> /\ Waiting = <<>>
          /\ button'.pressedAt = 0
      BY <1>0, <1>7 DEF StartButton, OwnerStep, physical, Listening, Boot, Waiting, Buttons
    <2> QED BY <2>1 DEF Waiting, Sound, Paired, Oldest, Newest
  <1>8. CASE ArmButton
    <2>1. /\ ~lost /\ UNCHANGED <<holds, tasks, edges, finger>>
          /\ button'.pressedAt = button.pressedAt
          /\ (button'.started => button.started) /\ (button.started => button'.started)
      BY <1>0, <1>8 DEF ArmButton, OwnerStep, physical, Buttons
    <2>2. Sound(Waiting, holds, finger, button)
      BY <2>1 DEF LineInv
    <2> QED BY <2>1, <2>2 DEF Waiting, Sound, Paired, Oldest, Newest, Ends
  <1>9. CASE StopButton
    <2>1. /\ ~lost /\ UNCHANGED <<holds, tasks, finger>> /\ edges' = <<>>
          /\ ~button'.started /\ button'.pressedAt = 0
      BY <1>9 DEF StopButton, OwnerStep, physical
    <2>2. Paired(Waiting, holds)
      BY <2>1 DEF LineInv, Sound
    <2>3. Paired(tasks, holds)
      BY <1>0, <2>2, Cuts DEF Waiting, LineShape
    <2>4. Waiting' = tasks
      BY <1>0, <2>1, Moves DEF Waiting, LineShape
    <2>5. Paired(Waiting', holds')
      BY <2>1, <2>3, <2>4
    <2> QED BY <2>1, <2>5 DEF Sound, Oldest, Newest
  <1> QED
    BY <1>0, <1>1, <1>2, <1>3, <1>4, <1>5, <1>6, <1>7, <1>8, <1>9, Elsewhere DEF LineShape

(* What is published has been held.                                        *)
LEMMA EventsStep ==
    ASSUME LineInv, [FrontNext]_frontVars
    PROVE  EventsAreHolds'
  <1> SUFFICES ASSUME ~lost', NEW e \in published'
               PROVE  [from |-> e.from, to |-> e.to] \in holds' /\ e.kind = Kind(e.from, e.to)
    BY DEF EventsAreHolds, Kind
  <1>0. LineShape /\ (~lost => \A d \in published : /\ [from |-> d.from, to |-> d.to] \in holds
                                                    /\ d.kind = Kind(d.from, d.to))
    BY DEF LineInv, EventsAreHolds
  <1>1. CASE ~Callback
    <2>1. published' = published /\ holds \subseteq holds' /\ ~lost
      <3>1. CASE Aside
        BY <3>1 DEF Aside
      <3>2. CASE Press
        BY <1>0, <3>2, EdgeShape DEF Press
      <3>3. CASE Release
        BY <1>0, <3>3, EdgeShape DEF Release
      <3>4. CASE ReadReady \/ ReadFails \/ StartButton \/ ArmButton \/ StopButton
        BY <3>4 DEF ReadReady, ReadFails, StartButton, ArmButton, StopButton, OwnerStep, physical
      <3> QED BY <1>0, <1>1, <3>1, <3>2, <3>3, <3>4, Elsewhere DEF LineShape
    <2> QED BY <1>0, <2>1
  <1>2. CASE Callback
    <2>1. ~lost /\ UNCHANGED holds /\ tasks # <<>>
      BY <1>0, <1>2, CallbackButton
    <2>2. CASE e \in published
      BY <1>0, <2>1, <2>2
    <2>3. CASE e \notin published
      <3> DEFINE from == button.pressedAt
                 to == Head(tasks).at
      <3>1. from # 0 /\ e = [kind |-> Kind(from, to), from |-> from, to |-> to]
        BY <1>0, <1>2, <2>3, CallbackPublishes
      <3>2. Waiting # <<>> /\ Waiting[1] = Head(tasks)
        BY <1>0, <2>1, Shrinks DEF Waiting, LineShape
      <3>3. [from |-> from, to |-> to] \in holds
        <4>1. Oldest(Waiting, holds, finger, button)
          BY <2>1 DEF LineInv, Sound
        <4> QED BY <3>1, <3>2, <4>1 DEF Oldest, Ends
      <3>4. e.kind = Kind(from, to) /\ e.from = from /\ e.to = to
        BY <3>1
      <3> HIDE DEF from, to
      <3> QED BY <2>1, <3>3, <3>4
    <2> QED BY <2>2, <2>3
  <1> QED BY <1>1, <1>2

(***************************************************************************)
(* The panel's operators.                                                  *)
(***************************************************************************)
(* What an operation changed of a panel: state, error, text and owner; it  *)
(* is rendered as it stands.                                               *)
Written(q, p, s, e, t, o) ==
    /\ q \in Panels /\ Drawn(q)
    /\ p.started => q.started
    /\ q.started => p.started
    /\ q.state = s /\ q.error = e /\ q.main = t /\ q.owner = o

(* A panel is rendered as a whole, or no longer.                           *)
LEMMA RenderWritten ==
    ASSUME NEW p \in Panels
    PROVE  Written(RenderCurrent(p), p, p.state, p.error, p.main, p.owner)
  <1>1. Picture(p) \in Frames
    BY DEF Panels, Picture, Frames, Blank, NoText, Texts
  <1>2. CASE ~p.rendering
    BY <1>2 DEF RenderCurrent, Written, Drawn
  <1>3. CASE p.rendering /\ broken
    <2>1. RenderCurrent(p) = [p EXCEPT !.rendering = FALSE]
      BY <1>3 DEF RenderCurrent
    <2> QED BY <2>1 DEF Panels, Written, Drawn
  <1>4. CASE p.rendering /\ ~broken
    <2>1. RenderCurrent(p) = [p EXCEPT !.frame = Picture(p)]
      BY <1>4 DEF RenderCurrent
    <2>2. [p EXCEPT !.frame = Picture(p)] \in Panels
      BY <1>1 DEF Panels
    <2>3. Picture([p EXCEPT !.frame = Picture(p)]) = Picture(p)
      BY DEF Panels, Picture
    <2> QED BY <2>1, <2>2, <2>3 DEF Panels, Written, Drawn
  <1> QED BY <1>2, <1>3, <1>4

(* Under an owner of the whole screen a write shows nothing.               *)
LEMMA UnlessOwnedWritten ==
    ASSUME NEW p \in Panels, NEW q \in Panels, Drawn(p),
           q.rendering = p.rendering, q.frame = p.frame, q.owner = p.owner
    PROVE  Written(RenderUnlessOwned(q), q, q.state, q.error, q.main, q.owner)
  <1>1. CASE q.owner = "none"
    BY <1>1, RenderWritten DEF RenderUnlessOwned
  <1>2. CASE q.owner # "none"
    <2>1. Picture(q) = Picture(p)
      BY <1>2 DEF Picture
    <2> QED BY <1>2, <2>1 DEF RenderUnlessOwned, Written, Drawn
  <1> QED BY <1>1, <1>2

(* write_state                                                             *)
LEMMA StateWritten ==
    ASSUME NEW p \in Panels, p.started, Drawn(p), NEW s \in States
    PROVE  Written(WriteState(p, s), p, s, p.error, p.main, p.owner)
  <1> DEFINE q == [p EXCEPT !.state = s]
  <1>1. /\ q \in Panels /\ q.rendering = p.rendering /\ q.frame = p.frame /\ q.owner = p.owner
        /\ q.state = s /\ q.error = p.error /\ q.main = p.main /\ q.started = p.started
    BY DEF Panels
  <1>2. WriteState(p, s) = RenderUnlessOwned(q)
    BY DEF WriteState
  <1> HIDE DEF q
  <1>3. Written(RenderUnlessOwned(q), q, q.state, q.error, q.main, q.owner)
    BY <1>1, UnlessOwnedWritten
  <1> QED BY <1>1, <1>2, <1>3 DEF Written

(* write_error                                                             *)
LEMMA ErrorWritten ==
    ASSUME NEW p \in Panels, p.started, Drawn(p), NEW e \in BOOLEAN
    PROVE  Written(WriteError(p, e), p, p.state, e, p.main, p.owner)
  <1> DEFINE q == [p EXCEPT !.error = e]
  <1>1. /\ q \in Panels /\ q.rendering = p.rendering /\ q.frame = p.frame /\ q.owner = p.owner
        /\ q.state = p.state /\ q.error = e /\ q.main = p.main /\ q.started = p.started
    BY DEF Panels
  <1>2. WriteError(p, e) = RenderUnlessOwned(q)
    BY DEF WriteError
  <1> HIDE DEF q
  <1>3. Written(RenderUnlessOwned(q), q, q.state, q.error, q.main, q.owner)
    BY <1>1, UnlessOwnedWritten
  <1> QED BY <1>1, <1>2, <1>3 DEF Written

(* write_main                                                              *)
LEMMA MainWritten ==
    ASSUME NEW p \in Panels, p.started, Drawn(p), NEW t \in Texts
    PROVE  Written(WriteMain(p, t), p, p.state, p.error, t, p.owner)
  <1> DEFINE q == [p EXCEPT !.main = t]
  <1>1. /\ q \in Panels /\ q.rendering = p.rendering /\ q.frame = p.frame /\ q.owner = p.owner
        /\ q.state = p.state /\ q.error = p.error /\ q.main = t /\ q.started = p.started
    BY DEF Panels
  <1>2. WriteMain(p, t) = RenderUnlessOwned(q)
    BY DEF WriteMain
  <1> HIDE DEF q
  <1>3. Written(RenderUnlessOwned(q), q, q.state, q.error, q.main, q.owner)
    BY <1>1, UnlessOwnedWritten
  <1> QED BY <1>1, <1>2, <1>3 DEF Written

(* request_fullscreen, when nobody owns the screen                         *)
LEMMA ScreenRequested ==
    ASSUME NEW p \in Panels, p.started, p.owner = "none", NEW o \in {"boot", "shutdown"}
    PROVE  Written(RequestFullscreen(p, o), p, p.state, p.error, p.main, o)
  <1> DEFINE q == [p EXCEPT !.owner = o]
  <1>1. /\ q \in Panels /\ q.owner = o
        /\ q.state = p.state /\ q.error = p.error /\ q.main = p.main /\ q.started = p.started
    BY DEF Panels
  <1>2. RequestFullscreen(p, o) = RenderCurrent(q)
    BY DEF RequestFullscreen
  <1> HIDE DEF q
  <1> QED BY <1>1, <1>2, RenderWritten DEF Written

(* release_fullscreen, by the owner                                        *)
LEMMA ScreenReleased ==
    ASSUME NEW p \in Panels, p.started, p.owner \in {"boot", "shutdown"}
    PROVE  Written(ReleaseFullscreen(p, p.owner), p, p.state, p.error, p.main, "none")
  <1> DEFINE q == [p EXCEPT !.owner = "none"]
  <1>1. /\ q \in Panels /\ q.owner = "none"
        /\ q.state = p.state /\ q.error = p.error /\ q.main = p.main /\ q.started = p.started
    BY DEF Panels
  <1>2. ReleaseFullscreen(p, p.owner) = RenderCurrent(q)
    BY DEF ReleaseFullscreen
  <1> HIDE DEF q
  <1> QED BY <1>1, <1>2, RenderWritten DEF Written

(* The status bar on a transition: the state, and an error no longer.      *)
LEMMA BarWritten ==
    ASSUME NEW p \in Panels, p.started, Drawn(p), NEW s \in States, NEW new \in States
    PROVE  \E e \in BOOLEAN :
               /\ Written(OnState(p, s, new), p, new, e, p.main, p.owner)
               /\ e => p.error /\ ~(s = "ERROR" /\ new = "IDLE")
  <1>1. CASE s = "ERROR" /\ new = "IDLE"
    <2> DEFINE q == WriteError(p, FALSE)
    <2>1. Written(q, p, p.state, FALSE, p.main, p.owner)
      BY ErrorWritten
    <2>2. OnState(p, s, new) = WriteState(q, new)
      BY <1>1 DEF OnState
    <2> HIDE DEF q
    <2>3. Written(WriteState(q, new), q, new, FALSE, p.main, p.owner)
      BY <2>1, StateWritten DEF Written
    <2> QED BY <2>1, <2>2, <2>3 DEF Written
  <1>2. CASE ~(s = "ERROR" /\ new = "IDLE")
    <2>1. OnState(p, s, new) = WriteState(p, new)
      BY <1>2 DEF OnState
    <2>2. p.error \in BOOLEAN
      BY DEF Panels
    <2> QED BY <1>2, <2>1, <2>2, StateWritten
  <1> QED BY <1>1, <1>2

(* The session display on a transition: no text, the old one, or one of    *)
(* this session.                                                           *)
LEMMA TextWritten ==
    ASSUME NEW p \in Panels, p.started, Drawn(p), NEW new \in States, NEW session \in Nat,
           NEW text \in BOOLEAN
    PROVE  \E t \in Texts :
               /\ Written(OnSessionState(p, new, session, text), p, p.state, p.error, t, p.owner)
               /\ IF new \in {"IDLE", "WAKE"} THEN t = NoText
                  ELSE t = p.main \/ t.session = session
  <1>1. CASE new \in {"IDLE", "WAKE"}
    <2>1. NoText \in Texts
      BY DEF NoText, Texts
    <2> QED BY <1>1, <2>1, MainWritten DEF OnSessionState
  <1>2. CASE new \notin {"IDLE", "WAKE"} /\ session # 0 /\ text /\ new \in {"THINK", "ACTION"}
    <2> DEFINE t == [session |-> session, what |-> new]
    <2>1. t \in Texts /\ t.session = session
      BY DEF Texts
    <2>2. OnSessionState(p, new, session, text) = WriteMain(p, t)
      BY <1>2 DEF OnSessionState
    <2> HIDE DEF t
    <2> QED BY <1>2, <2>1, <2>2, MainWritten
  <1>3. CASE new \notin {"IDLE", "WAKE"} /\ ~(session # 0 /\ text /\ new \in {"THINK", "ACTION"})
    <2>1. OnSessionState(p, new, session, text) = p
      BY <1>3 DEF OnSessionState
    <2>2. p.main \in Texts
      BY DEF Panels
    <2> QED BY <1>3, <2>1, <2>2 DEF Written
  <1> QED BY <1>1, <1>2, <1>3

(***************************************************************************)
(* The panel under the actions.                                            *)
(***************************************************************************)
(* A transition as the panel's observers leave it.                         *)
LEMMA Transitioned ==
    ASSUME PanelShape, panel.started, Drawn(panel), Observed,
           NEW new \in States, NEW session \in Nat, NEW text \in BOOLEAN,
           Transition(new, session, text)
    PROVE  \E e \in BOOLEAN, t \in Texts :
               /\ Written(panel', panel, new, e, t, panel.owner)
               /\ e => panel.error /\ ~(mgr.state = "ERROR" /\ new = "IDLE")
               /\ IF new \in {"IDLE", "WAKE"} THEN t = NoText
                  ELSE t = panel.main \/ t.session = session
  <1> DEFINE q == OnState(panel, mgr.state, new)
  <1>0. panel \in Panels /\ mgr.state \in States
    BY DEF PanelShape, Managers
  <1>1. PICK e \in BOOLEAN :
            /\ Written(q, panel, new, e, panel.main, panel.owner)
            /\ e => panel.error /\ ~(mgr.state = "ERROR" /\ new = "IDLE")
    BY <1>0, BarWritten
  <1>2. panel' = OnSessionState(q, new, session, text)
    BY DEF Transition
  <1> HIDE DEF q
  <1>3. q \in Panels /\ q.started /\ Drawn(q)
    BY <1>1 DEF Written
  <1>4. PICK t \in Texts :
            /\ Written(OnSessionState(q, new, session, text), q, q.state, q.error, t, q.owner)
            /\ IF new \in {"IDLE", "WAKE"} THEN t = NoText
               ELSE t = q.main \/ t.session = session
    BY <1>3, TextWritten
  <1>5. Written(panel', panel, new, e, t, panel.owner)
    BY <1>1, <1>2, <1>4 DEF Written
  <1>6. q.main = panel.main
    BY <1>1 DEF Written
  <1> QED BY <1>1, <1>4, <1>5, <1>6

(* An item waits behind the others, and an error is expected then.         *)
LEMMA Enqueued ==
    ASSUME inbox \in Seq(Items), NEW item \in Items, Enqueue(item)
    PROVE  /\ inbox' \in Seq(Items)
           /\ Expected(inbox) => Expected(inbox')
           /\ mgr.up = "running" /\ item \in {"error", "unproven"} => Expected(inbox')
  <1>1. CASE mgr.up = "running"
    <2>1. /\ inbox' = Append(inbox, item) /\ inbox' \in Seq(Items)
          /\ Len(inbox') = Len(inbox) + 1 /\ inbox'[Len(inbox) + 1] = item
          /\ \A i \in 1..Len(inbox) : inbox'[i] = inbox[i]
          /\ DOMAIN inbox' = 1..(Len(inbox) + 1) /\ DOMAIN inbox = 1..Len(inbox)
          /\ Len(inbox) \in Nat
      BY <1>1 DEF Enqueue
    <2> QED BY <2>1 DEF Expected
  <1>2. CASE mgr.up # "running"
    BY <1>2 DEF Enqueue
  <1> QED BY <1>1, <1>2

(* The item that is handled is no longer expected, the others are.         *)
LEMMA Dequeued ==
    ASSUME inbox \in Seq(Items), inbox # <<>>, inbox' = Tail(inbox)
    PROVE  /\ inbox' \in Seq(Items) /\ Head(inbox) \in Items
           /\ Expected(inbox) /\ Head(inbox) \notin {"error", "unproven"} => Expected(inbox')
  <1>1. /\ inbox' \in Seq(Items) /\ Head(inbox) \in Items /\ Head(inbox) = inbox[1]
        /\ DOMAIN inbox = 1..Len(inbox) /\ DOMAIN inbox' = 1..(Len(inbox) - 1)
        /\ \A i \in 1..(Len(inbox) - 1) : inbox'[i] = inbox[i + 1]
        /\ Len(inbox) \in Nat \ {0}
    OBVIOUS
  <1>2. ASSUME NEW i \in DOMAIN inbox, inbox[i] \in {"error", "unproven"},
               Head(inbox) \notin {"error", "unproven"}
        PROVE  Expected(inbox')
    <2>1. i - 1 \in 1..(Len(inbox) - 1) /\ inbox'[i - 1] = inbox[i]
      BY <1>1, <1>2
    <2> QED BY <1>1, <1>2, <2>1 DEF Expected
  <1> QED BY <1>1, <1>2 DEF Expected

(* The state manager's steps, which are taken while it runs over a panel   *)
(* that is armed: nothing waits for it before.                             *)
LEMMA ManagerStep ==
    ASSUME PanelInv, ManagerSteps
    PROVE  PanelInv'
  <1>1. /\ mgr.up = "running" /\ UNCHANGED <<broken, app>> /\ app = "armed" /\ Observed
        /\ panel.started /\ Drawn(panel) /\ panel.owner = "none"
        /\ PanelShape /\ Lit /\ Follows /\ mgr \in Managers /\ mgr.session \in Nat
        /\ mgr.sessions \in Nat /\ inbox \in Seq(Items) /\ broken \in BOOLEAN
        /\ mgr.state \in States /\ panel.error \in BOOLEAN
    <2>1. mgr.up = "running" /\ UNCHANGED <<broken, app>>
      BY DEF ManagerSteps, HandleItem, TurnMovesOn, TurnRests, TurnErrs, Converged, Running
    <2>2. app \notin Down
      BY <2>1 DEF PanelInv, Phases
    <2>3. mgr.state # "IDLE" \/ mgr.pending \/ inbox # <<>>
      <3>1. TurnMovesOn \/ TurnRests \/ TurnErrs => mgr.state # "IDLE"
        <4>1. TurnMovesOn => mgr.state # "IDLE"
          BY DEF TurnMovesOn, Onward
        <4>2. TurnRests \/ TurnErrs => mgr.state # "IDLE"
          BY DEF TurnRests, TurnErrs
        <4> QED BY <4>1, <4>2
      <3>2. HandleItem => inbox # <<>>
        BY DEF HandleItem
      <3>3. Converged => mgr.pending
        BY DEF Converged
      <3> QED BY <3>1, <3>2, <3>3 DEF ManagerSteps
    <2>4. app = "armed"
      BY <2>2, <2>3 DEF PanelInv, PanelShape, Phases
    <2> QED BY <2>1, <2>4 DEF PanelInv, PanelShape, Lit, Observed, Managers, Panels
  <1> DEFINE Told(new, session, p) ==
               /\ Written(p, panel, new, p.error, p.main, "none")
               /\ p.error => panel.error /\ ~(mgr.state = "ERROR" /\ new = "IDLE")
               /\ IF new \in {"IDLE", "WAKE"} THEN p.main = NoText
                  ELSE p.main = panel.main \/ p.main.session = session
  <1>2. ASSUME NEW new \in States, NEW session \in Nat, NEW text \in BOOLEAN,
               Transition(new, session, text)
        PROVE  Told(new, session, panel')
    <2>1. PICK e \in BOOLEAN, t \in Texts :
            /\ Written(panel', panel, new, e, t, panel.owner)
            /\ e => panel.error /\ ~(mgr.state = "ERROR" /\ new = "IDLE")
            /\ IF new \in {"IDLE", "WAKE"} THEN t = NoText
               ELSE t = panel.main \/ t.session = session
      BY <1>1, <1>2, Transitioned
    <2>2. e = panel'.error /\ t = panel'.main
      BY <2>1 DEF Written
    <2> QED BY <1>1, <2>1, <2>2 DEF Written
  <1> HIDE DEF Told
  <1> DEFINE Good ==
               /\ inbox' \in Seq(Items) /\ mgr' \in Managers /\ panel' \in Panels
               /\ panel'.started /\ Drawn(panel') /\ panel'.owner = "none"
               /\ mgr'.state = "IDLE" => mgr'.session = 0
               /\ mgr'.up = "running" =>
                    /\ panel'.state = mgr'.state
                    /\ panel'.main.session \in {0, mgr'.session}
                    /\ panel'.error => mgr'.state = "ERROR" \/ Expected(inbox')
  <1>3. Good => PanelInv'
    BY <1>1 DEF PanelInv, PanelShape, Lit, Phases, Follows, Drawn, Picture, Boot, Down
  <1>4. CASE HandleItem
    <2>1. /\ inbox' \in Seq(Items) /\ Head(inbox) \in Items
          /\ Expected(inbox) /\ Head(inbox) \notin {"error", "unproven"} => Expected(inbox')
      BY <1>1, <1>4, Dequeued DEF HandleItem
    <2>2. CASE Head(inbox) = "button"
      <3>1. HandleButton
        BY <1>4, <2>2 DEF HandleItem
      <3>2. CASE mgr.state = "IDLE" /\ ~mgr.shutting
        <4> DEFINE m == [mgr EXCEPT !.state = "WAKE", !.session = mgr.sessions + 1,
                                   !.sessions = @ + 1]
        <4>1. mgr' = m /\ Transition("WAKE", mgr.sessions + 1, FALSE)
          BY <3>1, <3>2 DEF HandleButton
        <4>0. mgr.sessions + 1 \in Nat /\ "WAKE" \in States
          BY <1>1 DEF States
        <4>2. m \in Managers /\ m.state = "WAKE" /\ m.session = mgr.sessions + 1
          BY <1>1, <4>0 DEF Managers
        <4>3. Told("WAKE", mgr.sessions + 1, panel')
          BY <1>2, <4>0, <4>1
        <4> HIDE DEF m
        <4> QED
          BY <1>1, <1>3, <2>1, <2>2, <3>2, <4>1, <4>2, <4>3
          DEF Told, Written, NoText, Follows
      <3>3. CASE ~(mgr.state = "IDLE" /\ ~mgr.shutting)
        <4>1. panel' = panel /\ (mgr' = mgr \/ mgr' = [mgr EXCEPT !.pending = TRUE])
          BY <3>1, <3>3 DEF HandleButton
        <4>2. /\ mgr' \in Managers /\ mgr'.state = mgr.state /\ mgr'.session = mgr.session
              /\ mgr'.up = mgr.up
          BY <1>1, <4>1 DEF Managers
        <4> QED BY <1>1, <1>3, <2>1, <2>2, <4>1, <4>2 DEF Follows, PanelShape
      <3> QED BY <3>2, <3>3
    <2>3. CASE Head(inbox) = "error"
      <3>1. HandleError
        BY <1>4, <2>3 DEF HandleItem
      <3>2. CASE mgr.state = "ERROR"
        <4>1. mgr' = mgr /\ panel' = panel
          BY <3>1, <3>2 DEF HandleError
        <4> QED BY <1>1, <1>3, <2>1, <3>2, <4>1 DEF Follows, PanelShape
      <3>3. CASE mgr.state # "ERROR"
        <4> DEFINE m == [mgr EXCEPT !.state = "ERROR", !.pending = TRUE]
        <4>1. mgr' = m /\ Transition("ERROR", mgr.session, FALSE)
          BY <3>1, <3>3 DEF HandleError
        <4>2. m \in Managers /\ m.state = "ERROR" /\ m.session = mgr.session
          BY <1>1 DEF Managers, States
        <4>3. Told("ERROR", mgr.session, panel')
          BY <1>1, <1>2, <4>1 DEF States
        <4> HIDE DEF m
        <4> QED BY <1>1, <1>3, <2>1, <4>1, <4>2, <4>3 DEF Told, Written, Follows
      <3> QED BY <3>2, <3>3
    <2>4. CASE Head(inbox) = "shutdown"
      <3>1. panel' = panel /\ mgr' = [mgr EXCEPT !.shutting = TRUE, !.pending = TRUE]
        BY <1>4, <2>4 DEF HandleItem, HandleShutdown
      <3>2. /\ mgr' \in Managers /\ mgr'.state = mgr.state /\ mgr'.session = mgr.session
            /\ mgr'.up = mgr.up
        BY <1>1, <3>1 DEF Managers
      <3> QED BY <1>1, <1>3, <2>1, <2>4, <3>1, <3>2 DEF Follows, PanelShape
    <2>5. CASE Head(inbox) = "unproven"
      <3>1. panel' = panel /\ mgr' = [mgr EXCEPT !.up = "failed"]
        BY <1>4, <2>5 DEF HandleItem
      <3>2. /\ mgr' \in Managers /\ mgr'.state = mgr.state /\ mgr'.session = mgr.session
            /\ mgr'.up = "failed"
        BY <1>1, <3>1 DEF Managers
      <3> QED BY <1>1, <1>3, <2>1, <3>1, <3>2 DEF Follows, PanelShape
    <2> QED BY <2>1, <2>2, <2>3, <2>4, <2>5 DEF Items
  <1>5. CASE TurnMovesOn
    <2>1. PICK new \in {"PERCEPTION", "THINK", "ACTION"}, text \in BOOLEAN :
            /\ mgr.state # "ERROR" /\ mgr.state # "IDLE"
            /\ mgr' = [mgr EXCEPT !.state = new]
            /\ Transition(new, mgr.session, text) /\ inbox' = inbox
      <3>1. PICK step \in Onward, text \in BOOLEAN :
              /\ step[1] = mgr.state
              /\ mgr' = [mgr EXCEPT !.state = step[2]]
              /\ Transition(step[2], mgr.session, text)
        BY <1>5 DEF TurnMovesOn
      <3>2. /\ step[1] # "ERROR" /\ step[1] # "IDLE"
            /\ step[2] \in {"PERCEPTION", "THINK", "ACTION"}
        BY DEF Onward
      <3>3. inbox' = inbox
        BY <1>5 DEF TurnMovesOn
      <3> QED BY <3>1, <3>2, <3>3
    <2>2. /\ mgr' \in Managers /\ mgr'.state = new /\ mgr'.up = mgr.up
          /\ mgr'.session = mgr.session
      BY <1>1, <2>1 DEF Managers, States
    <2>3. Told(new, mgr.session, panel')
      BY <1>1, <1>2, <2>1 DEF States
    <2> QED BY <1>1, <1>3, <2>1, <2>2, <2>3 DEF Told, Written, NoText, Follows
  <1>6. CASE TurnRests
    <2>1. panel' = panel /\ inbox' = inbox /\ mgr' = [mgr EXCEPT !.pending = TRUE]
      BY <1>6 DEF TurnRests
    <2>2. /\ mgr' \in Managers /\ mgr'.state = mgr.state /\ mgr'.session = mgr.session
          /\ mgr'.up = mgr.up
      BY <1>1, <2>1 DEF Managers
    <2> QED BY <1>1, <1>3, <2>1, <2>2 DEF Follows, PanelShape
  <1>7. CASE TurnErrs
    <2> DEFINE m == [mgr EXCEPT !.state = "ERROR", !.pending = TRUE]
    <2>1. mgr' = m /\ Transition("ERROR", mgr.session, FALSE) /\ inbox' = inbox
      BY <1>7 DEF TurnErrs
    <2>2. m \in Managers /\ m.state = "ERROR" /\ m.session = mgr.session
      BY <1>1 DEF Managers, States
    <2>3. Told("ERROR", mgr.session, panel')
      BY <1>1, <1>2, <2>1 DEF States
    <2> HIDE DEF m
    <2> QED BY <1>1, <1>3, <2>1, <2>2, <2>3 DEF Told, Written, Follows
  <1>8. CASE Converged
    <2>1. inbox' = inbox
      BY <1>8 DEF Converged
    <2>2. CASE mgr.shutting
      <3>1. /\ panel' = panel
            /\ mgr' = [mgr EXCEPT !.session = 0, !.pending = FALSE, !.up = "stopped"]
        BY <1>8, <2>2 DEF Converged
      <3>2. mgr' \in Managers /\ mgr'.session = 0 /\ mgr'.up = "stopped"
        BY <1>1, <3>1 DEF Managers
      <3> QED BY <1>1, <1>3, <2>1, <3>1, <3>2 DEF PanelShape
    <2>3. CASE ~mgr.shutting
      <3>1. /\ Transition("IDLE", 0, FALSE)
            /\ mgr' = [mgr EXCEPT !.state = "IDLE", !.session = 0, !.pending = FALSE]
        BY <1>8, <2>3 DEF Converged
      <3>2. mgr' \in Managers /\ mgr'.state = "IDLE" /\ mgr'.session = 0 /\ mgr'.up = mgr.up
        BY <1>1, <3>1 DEF Managers, States
      <3>3. Told("IDLE", 0, panel')
        BY <1>1, <1>2, <3>1 DEF States
      <3> QED BY <1>1, <1>3, <2>1, <3>2, <3>3 DEF Told, Written, NoText, Follows
    <2> QED BY <2>2, <2>3
  <1> QED BY <1>4, <1>5, <1>6, <1>7, <1>8 DEF ManagerSteps

(* The button's callback: the word on the panel is of the running session. *)
LEMMA CallbackPanel ==
    ASSUME LineShape, Listening, PanelInv, Callback
    PROVE  PanelInv'
  <1>0. UNCHANGED <<mgr, broken, app>>
    BY DEF Callback
  <1>1. CASE UNCHANGED <<published, inbox, panel>>
    BY <1>0, <1>1 DEF PanelInv, PanelShape, Lit, Phases, Follows, Drawn, Picture
  <1>2. CASE ~UNCHANGED <<published, inbox, panel>>
    <2>1. PICK kind \in {"button", "shutdown"} :
            /\ button.armed /\ Enqueue(kind)
            /\ panel' = panel \/ panel' = OnInterrupt(panel)
      BY <1>2, CallbackPublishes
    <2>2. /\ app = "armed" /\ panel.started /\ Drawn(panel) /\ panel.owner = "none"
          /\ panel \in Panels /\ inbox \in Seq(Items) /\ mgr \in Managers /\ mgr.session \in Nat
          /\ broken \in BOOLEAN
      BY <2>1 DEF Listening, PanelInv, PanelShape, Lit, Managers
    <2>3. inbox' \in Seq(Items) /\ (Expected(inbox) => Expected(inbox'))
      BY <2>1, <2>2, Enqueued DEF Items
    <2>4. \E t \in Texts :
            /\ Written(panel', panel, panel.state, panel.error, t, "none")
            /\ t = panel.main \/ t.session = mgr.session
      <3> DEFINE t == [session |-> mgr.session, what |-> "aborted"]
      <3>1. t \in Texts /\ t.session = mgr.session /\ panel.main \in Texts
        BY <2>2 DEF Texts, Panels
      <3>2. CASE panel' = panel
        BY <2>2, <3>1, <3>2 DEF Written
      <3>3. CASE panel' # panel
        <4>1. panel' = WriteMain(panel, t)
          BY <2>1, <3>3 DEF OnInterrupt
        <4> HIDE DEF t
        <4> QED BY <2>2, <3>1, <4>1, MainWritten
      <3> QED BY <3>2, <3>3
    <2>5. /\ panel' \in Panels /\ panel'.started /\ Drawn(panel') /\ panel'.owner = "none"
          /\ panel'.state = panel.state /\ panel'.error = panel.error
          /\ panel'.main = panel.main \/ panel'.main.session = mgr.session
      BY <2>2, <2>4 DEF Written
    <2>6. Follows'
      BY <1>0, <2>2, <2>3, <2>5 DEF PanelInv, Follows
    <2> QED
      BY <1>0, <2>2, <2>3, <2>5, <2>6
      DEF PanelInv, PanelShape, Lit, Phases, Drawn, Picture, Boot, Down
  <1> QED BY <1>1, <1>2

(* A system fault: the error is shown because it is expected.              *)
LEMMA FaultPanel ==
    ASSUME PanelInv, NEW item \in {"error", "unproven"}, Fault(item)
    PROVE  PanelInv'
  <1>1. /\ UNCHANGED <<mgr, broken, app>> /\ app = "armed" /\ mgr.up = "running"
        /\ Enqueue(item) /\ panel' = OnError(panel)
    BY DEF Fault
  <1>2. /\ panel.started /\ Drawn(panel) /\ panel.owner = "none" /\ Observed
        /\ panel \in Panels /\ inbox \in Seq(Items) /\ mgr \in Managers /\ broken \in BOOLEAN
    BY <1>1 DEF PanelInv, PanelShape, Lit, Observed
  <1>3. inbox' \in Seq(Items) /\ Expected(inbox')
    BY <1>1, <1>2, Enqueued DEF Items
  <1>4. panel' = WriteError(panel, TRUE)
    BY <1>1, <1>2 DEF OnError
  <1>5. Written(panel', panel, panel.state, TRUE, panel.main, "none")
    BY <1>2, <1>4, ErrorWritten
  <1>6. /\ panel' \in Panels /\ panel'.started /\ Drawn(panel') /\ panel'.owner = "none"
        /\ panel'.state = panel.state /\ panel'.main = panel.main
    BY <1>2, <1>5 DEF Written
  <1>7. Follows'
    BY <1>1, <1>3, <1>6 DEF PanelInv, Follows
  <1> QED
    BY <1>1, <1>2, <1>3, <1>6, <1>7
    DEF PanelInv, PanelShape, Lit, Phases, Drawn, Picture, Boot, Down

(* The owners of the screen come up and go down.                           *)
LEMMA OwnersPanel ==
    ASSUME PanelInv, StartArbiter \/ StartObservers \/ StopObservers \/ StopDisplay
    PROVE  PanelInv'
  <1>0. /\ UNCHANGED <<inbox, mgr, broken>> /\ PanelShape /\ Lit /\ Phases /\ Follows
        /\ panel \in Panels /\ broken \in BOOLEAN /\ mgr \in Managers
    BY DEF PanelInv, PanelShape, StartArbiter, StartObservers, StopObservers, StopDisplay, OwnerStep
  <1>1. CASE StartArbiter
    <2> DEFINE p == [panel EXCEPT !.started = TRUE]
    <2>1. p \in Panels /\ p.started /\ p.error = panel.error /\ p.owner = panel.owner
      BY <1>0 DEF Panels
    <2>2. app = "core" /\ app' = "arbiter" /\ panel' = RenderCurrent(p)
      BY <1>1 DEF StartArbiter
    <2> HIDE DEF p
    <2>3. /\ panel' \in Panels /\ panel'.started /\ Drawn(panel')
          /\ panel'.error = panel.error /\ panel'.owner = panel.owner
      BY <2>1, <2>2, RenderWritten DEF Written
    <2> QED
      BY <1>0, <2>2, <2>3
      DEF PanelInv, PanelShape, Lit, Phases, Follows, Drawn, Picture, Boot, Down
  <1>2. CASE StartObservers
    <2> DEFINE p == RequestFullscreen(panel, "boot")
               q == WriteState(p, "IDLE")
               r == WriteMain(q, NoText)
    <2>1. app = "arbiter" /\ app' = "observed" /\ panel' = ReleaseFullscreen(r, "boot")
      BY <1>2 DEF StartObservers
    <2>2. panel.started /\ panel.owner = "none" /\ ~panel.error
      BY <1>0, <2>1 DEF Lit, Phases, Boot
    <2>3. Written(p, panel, panel.state, panel.error, panel.main, "boot")
      BY <1>0, <2>2, ScreenRequested
    <2> HIDE DEF p
    <2>4. Written(q, p, "IDLE", p.error, p.main, p.owner)
      BY <2>2, <2>3, StateWritten DEF Written, States
    <2> HIDE DEF q
    <2>5. NoText \in Texts /\ NoText.session = 0
      BY DEF NoText, Texts
    <2>6. Written(r, q, q.state, q.error, NoText, q.owner)
      BY <2>2, <2>3, <2>4, <2>5, MainWritten DEF Written
    <2> HIDE DEF r
    <2>7. /\ r \in Panels /\ r.started /\ r.owner = "boot" /\ r.state = "IDLE"
          /\ r.main = NoText /\ r.error = panel.error
      BY <2>2, <2>3, <2>4, <2>6 DEF Written
    <2>8. Written(panel', r, "IDLE", r.error, NoText, "none")
      BY <2>1, <2>7, ScreenReleased
    <2>9. /\ panel' \in Panels /\ panel'.started /\ Drawn(panel') /\ panel'.owner = "none"
          /\ panel'.state = "IDLE" /\ panel'.main.session = 0 /\ panel'.error = panel.error
      BY <2>5, <2>7, <2>8 DEF Written
    <2> QED
      BY <1>0, <2>1, <2>2, <2>9
      DEF PanelInv, PanelShape, Lit, Phases, Follows, Drawn, Picture, Boot, Down
  <1>3. CASE StopObservers
    <2>1. app = "released" /\ app' = "unobserved" /\ panel' = RequestFullscreen(panel, "shutdown")
      BY <1>3 DEF StopObservers
    <2>2. panel.started /\ panel.owner = "none"
      BY <1>0, <2>1 DEF Lit
    <2>3. Written(panel', panel, panel.state, panel.error, panel.main, "shutdown")
      BY <1>0, <2>1, <2>2, ScreenRequested
    <2>4. panel' \in Panels /\ panel'.started /\ Drawn(panel') /\ panel'.owner = "shutdown"
      BY <2>2, <2>3 DEF Written
    <2> QED
      BY <1>0, <2>1, <2>4
      DEF PanelInv, PanelShape, Lit, Phases, Follows, Drawn, Picture, Boot, Down
  <1>4. CASE StopDisplay
    <2>1. app = "unobserved" /\ app' = "dark" /\ panel' = StopArbiter(panel)
      BY <1>4 DEF StopDisplay
    <2>2. Blank \in Frames
      BY DEF Blank, Frames, NoText, Texts
    <2>3. /\ panel' \in Panels /\ ~panel'.started
          /\ panel'.rendering /\ ~broken => panel'.frame = Blank
      BY <1>0, <2>1, <2>2 DEF StopArbiter, Panels
    <2> QED
      BY <1>0, <2>1, <2>3
      DEF PanelInv, PanelShape, Lit, Phases, Follows, Drawn, Picture, Boot, Down
  <1> QED BY <1>1, <1>2, <1>3, <1>4

(* Every step.                                                             *)
LEMMA PanelStep ==
    ASSUME LineShape, Listening, PanelInv, [FrontNext]_frontVars
    PROVE  PanelInv'
  <1>1. CASE UNCHANGED <<inbox, mgr, panel, broken, app>>
    BY <1>1 DEF PanelInv, PanelShape, Lit, Phases, Follows, Drawn, Picture
  <1>2. CASE Tick \/ Press \/ Release \/ ReadReady \/ StartButton \/ UNCHANGED frontVars
    BY <1>1, <1>2 DEF Tick, Press, Release, ReadReady, StartButton, OwnerStep, physical, frontVars
  <1>3. CASE ArmButton \/ StopButton \/ StopGpio
    <2>1. /\ UNCHANGED <<inbox, mgr, panel, broken>>
          /\ \/ app = "observed" /\ app' = "armed"
             \/ app = "armed" /\ mgr.up = "stopped" /\ app' = "released"
             \/ app = "dark" /\ app' = "stopped"
      BY <1>3 DEF ArmButton, StopButton, StopGpio, OwnerStep
    <2> QED
      BY <2>1 DEF PanelInv, PanelShape, Lit, Phases, Follows, Drawn, Picture, Boot, Down
  <1>4. CASE DeviceBreaks
    BY <1>4
    DEF DeviceBreaks, PanelInv, PanelShape, Lit, Phases, Follows, Drawn, Picture
  <1>5. CASE ComponentFault \/ ReadFails
    BY <1>5, FaultPanel DEF ComponentFault, ReadFails
  <1>6. CASE Callback
    BY <1>6, CallbackPanel
  <1>7. CASE ManagerSteps
    BY <1>7, ManagerStep
  <1>8. CASE StartArbiter \/ StartObservers \/ StopObservers \/ StopDisplay
    BY <1>8, OwnersPanel
  <1> QED
    BY <1>2, <1>3, <1>4, <1>5, <1>6, <1>7, <1>8 DEF FrontNext, Physical, Line, Faults, Owners

(***************************************************************************)
(* The theorems.                                                           *)
(***************************************************************************)
(* Before anything is up and anybody pressed.                              *)
LEMMA FrontInitInv == FrontInit => FrontInv
  <1> SUFFICES ASSUME FrontInit PROVE FrontInv
    OBVIOUS
  <1>0. <<>> \in Seq(Edges) /\ <<>> \in Seq(Items)
    OBVIOUS
  <1>1. LineShape
    <2>1. edges \in Seq(Edges) /\ tasks \in Seq(Edges)
      BY <1>0, Zenon DEF FrontInit
    <2>2. button \in Buttons
      BY DEF FrontInit, Buttons
    <2>3. now = 1 /\ finger = 0 /\ holds = {} /\ published = {}
      BY DEF FrontInit
    <2>4. lost \in BOOLEAN
      BY Zenon DEF FrontInit
    <2> QED BY <2>1, <2>2, <2>3, <2>4 DEF LineShape
  <1>2. Listening
    BY DEF FrontInit, Listening, Boot, Down
  <1>3. Waiting = <<>>
    BY DEF FrontInit, Waiting
  <1>4. Sound(Waiting, holds, finger, button)
    BY <1>3 DEF FrontInit, Sound, Paired, Oldest, Newest
  <1>5. EventsAreHolds
    BY DEF FrontInit, EventsAreHolds
  <1>6. PanelShape
    <2>1. mgr \in Managers
      BY DEF FrontInit, Managers, States
    <2>2. panel \in Panels
      BY DEF FrontInit, Panels, NoText, Texts, Frames, Blank
    <2>3. inbox = <<>> /\ broken \in BOOLEAN /\ app \in Boot
      BY DEF FrontInit, Boot
    <2> QED BY <1>0, <2>1, <2>2, <2>3 DEF PanelShape
  <1>7. Lit /\ Phases /\ Follows
    BY DEF FrontInit, Lit, Phases, Follows, Boot, Down
  <1> QED BY <1>1, <1>2, <1>4, <1>5, <1>6, <1>7 DEF FrontInv, LineInv, PanelInv

(* Each part from the parts it needs.                                      *)
LEMMA FrontNextInv == FrontInv /\ [FrontNext]_frontVars => FrontInv'
  <1> SUFFICES ASSUME FrontInv, [FrontNext]_frontVars PROVE FrontInv'
    OBVIOUS
  <1>1. LineShape /\ Listening /\ LineInv /\ PanelInv
    BY DEF FrontInv, LineInv
  <1>2. LineInv'
    BY <1>1, LineShapeStep, ListeningStep, SoundStep, EventsStep DEF LineInv
  <1>3. PanelInv'
    BY <1>1, PanelStep
  <1> QED BY <1>2, <1>3 DEF FrontInv

(* button.py, gpiod/driver.py: whatever the loop's delays, for any two     *)
(* thresholds and any buffer of the kernel, an event of the button is the  *)
(* one press that was held, as long as the kernel lost no edge.            *)
THEOREM EventsAreEarned == FrontSpec => []EventsAreHolds
  <1>1. FrontInv => EventsAreHolds
    BY DEF FrontInv, LineInv
  <1> QED BY <1>1, FrontInitInv, FrontNextInv, PTL DEF FrontSpec

(* display/arbiter.py, status_bar.py, session_display.py: the panel of a   *)
(* device that works shows the state manager as it is, and nothing of      *)
(* another session; after the stop it is blank.                            *)
THEOREM PanelFollows == FrontSpec => []PanelIsTrue
  <1>1. FrontInv => PanelIsTrue
    <2> SUFFICES ASSUME FrontInv, panel.rendering, ~broken PROVE PanelIsTrue
      BY DEF PanelIsTrue
    <2>1. PanelShape /\ Lit /\ Phases /\ Follows /\ panel \in Panels /\ mgr \in Managers
      BY DEF FrontInv, PanelInv, PanelShape
    <2>2. ASSUME app = "armed", mgr.up = "running"
          PROVE  /\ panel.frame.top \in {mgr.state, "error"}
                 /\ panel.frame.main.session \in {0, mgr.session}
                 /\ panel.frame.top = "error" =>
                       mgr.state = "ERROR"
                       \/ \E i \in DOMAIN inbox : inbox[i] \in {"error", "unproven"}
      <3>1. panel.frame = [top |-> IF panel.error THEN "error" ELSE panel.state,
                           main |-> panel.main]
        BY <2>1, <2>2 DEF Lit, Drawn, Picture
      <3>2. panel.frame.top = (IF panel.error THEN "error" ELSE panel.state)
            /\ panel.frame.main = panel.main
        BY <3>1
      <3>3. panel.state = mgr.state /\ mgr.state # "error"
        BY <2>1, <2>2 DEF Follows, Managers, States
      <3> QED BY <2>1, <2>2, <3>2, <3>3 DEF Follows, Expected
    <2>3. ASSUME app \in {"unobserved", "dark", "stopped"}
          PROVE  panel.frame = Blank
      BY <2>1, <2>3 DEF Lit, Drawn, Picture
    <2> QED BY <2>2, <2>3 DEF PanelIsTrue
  <1> QED BY <1>1, FrontInitInv, FrontNextInv, PTL DEF FrontSpec

=============================================================================
