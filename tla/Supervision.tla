----------------------------- MODULE Supervision -----------------------------
(***************************************************************************)
(* The life of the process: run_app starts the state manager and, through  *)
(* the resource manager, every resource of the graph; it waits for a fatal *)
(* failure or for the state manager's end; and it stops what was started.  *)
(* The resource manager also rebuilds destroyed backends behind a barrier. *)
(*                                                                         *)
(* The graph is a parameter: Composition.tla gives the product's.          *)
(***************************************************************************)
EXTENDS Naturals, Sequences, FiniteSets

CONSTANTS
    Plans,      \* [spec, order, inputs]: the graphs a behaviour may have
    MaxFaults   \* failures of a behaviour, of whatever kind

(* What Registry checks of a graph, and what the compositions give it: a   *)
(* key of a plan is one of the graph, and a resource that has a null       *)
(* instance takes nothing through its resolver.                            *)
ASSUME SupervisionBounds ==
    /\ MaxFaults \in Nat
    /\ \A p \in Plans :
          /\ p.order \in Seq(DOMAIN p.spec) /\ p.inputs \in Seq(DOMAIN p.spec)
          /\ \A k \in DOMAIN p.spec :
                /\ p.spec[k].serves \subseteq DOMAIN p.spec
                /\ p.spec[k].null => p.spec[k].requires = {}

CORE == 1
BACKEND == 2
WORKER == 3
OBSERVER == 4
INPUT == 5

(* What Registry checks besides: no key is registered twice, a dependency  *)
(* is registered, a capability has one owner.  And what the compositions   *)
(* see to: a core resource below the owner of a capability rests on nothing*)
(* of its own.                                                             *)
ASSUME GraphAssumption ==
    \A p \in Plans :
        /\ \A i, j \in DOMAIN p.order : p.order[i] = p.order[j] => i = j
        /\ \A i, j \in DOMAIN p.inputs : p.inputs[i] = p.inputs[j] => i = j
        /\ \A i \in DOMAIN p.order, j \in DOMAIN p.inputs : p.order[i] # p.inputs[j]
        /\ \A k \in DOMAIN p.spec : p.spec[k].deps \subseteq DOMAIN p.spec
        /\ \A k \in {own \in DOMAIN p.spec : p.spec[own].cap # "none"} :
              /\ \A other \in DOMAIN p.spec : p.spec[other].cap = p.spec[k].cap => other = k
              /\ \A dep \in p.spec[k].deps : p.spec[dep].phase = CORE =>
                    /\ p.spec[dep].capDeps = {}
                    /\ \A d \in p.spec[dep].deps : p.spec[d].phase # CORE

VARIABLES
    plan,
    started,    \* _started_order; a stopped record leaves it
    instance,   \* ManagedRecord.instance: none, the real one, the null one
    running,    \* what really runs behind the records
    dead,       \* backends dead of a fault of their own, not reported yet
    caps, catalog, disabled, armed,
    rm,         \* where ResourceManager.start(), its rollback or stop_all is
    sm,         \* the state manager, as the other two see it
    recovery,   \* the batch and the barrier
    busFatal,   \* EventBus._fatal_error
    main, faults, stuck

vars == <<plan, started, instance, running, dead, caps, catalog, disabled, armed, rm, sm,
          recovery, busFatal, main, faults, stuck>>
records == <<started, instance, running, dead, caps, catalog, stuck>>
wiring == <<disabled, armed>>

Spec == plan.spec
Started == {started[i] : i \in DOMAIN started}
Phase(key) == Spec[key].phase
Recoverable == {k \in DOMAIN Spec : Spec[k].recoverable}
Failing == faults < MaxFaults /\ faults' = faults + 1

(* The perception a source's first turn needs, and what sealing the catalog*)
(* asks for besides those.                                                 *)
FirstWorker == [button |-> "listen", wake |-> "listen", message |-> "read"]
DefaultPerceptions == {"listen"}
AlwaysRequired == {"reasoner", "rest"} \cup DefaultPerceptions

NoBatch == [at |-> "none", todo |-> {}, ready |-> TRUE, fatal |-> FALSE,
            shutting |-> FALSE]

Init ==
    /\ plan \in Plans
    /\ started = <<>> /\ running = {} /\ dead = {} /\ stuck = {}
    /\ instance = [k \in DOMAIN plan.spec |-> "none"]
    /\ caps = {} /\ catalog = {} /\ disabled = {} /\ armed = {}
    /\ rm = [at |-> "starting", todo |-> plan.order]
    /\ sm = [at |-> "running", session |-> FALSE, waits |-> FALSE, destroyed |-> {}]
    /\ recovery = NoBatch
    /\ busFatal = FALSE
    /\ main = [at |-> "starting", code |-> 0, proof |-> FALSE]
    /\ faults = 0

(***************************************************************************)
(* _start_one.  The factory fails when the resolver refuses a dependency,  *)
(* the start when it raises, times out, or needs what does not run.        *)
(***************************************************************************)
CanStart(key) == Spec[key].requires \subseteq Started /\ Spec[key].needs \subseteq running

RealCore(dep) == Phase(dep) = CORE => dep \in Started /\ instance[dep] = "real"
Capable(key) ==
    /\ Spec[key].capDeps \subseteq caps
    /\ \A dep \in Spec[key].deps : RealCore(dep)

Adopt(key, kind) ==
    /\ started' = Append(started, key)
    /\ running' = running \cup {key}
    /\ instance' = [instance EXCEPT ![key] = kind]

Started1(key) ==
    /\ CanStart(key)
    /\ Adopt(key, "real")
    /\ caps' = IF Spec[key].cap # "none" /\ Capable(key) THEN caps \cup {Spec[key].cap}
               ELSE caps
    /\ catalog' = IF Phase(key) = WORKER THEN catalog \cup {key} ELSE catalog
    /\ UNCHANGED <<stuck, dead, faults>>

Fails(key) == IF CanStart(key) THEN Failing ELSE UNCHANGED faults

FallsBack(key) ==
    /\ Fails(key) /\ Spec[key].null
    /\ Adopt(key, "null")
    /\ UNCHANGED <<caps, catalog, dead, stuck>>

Excused(key) == Phase(key) \in {BACKEND, OBSERVER} \/ ~Spec[key].required
Skipped(key) ==
    /\ Fails(key) /\ Excused(key) /\ ~Spec[key].null
    /\ UNCHANGED records

(* What must start and does not, the null instance included.               *)
Breaks(key) ==
    /\ Fails(key) /\ ~Excused(key)
    /\ UNCHANGED records

Rollback == rm' = [at |-> "rollback", todo |-> <<>>]
NextStart == rm' = [rm EXCEPT !.todo = Tail(@)]

StartOne ==
    /\ rm.at = "starting" /\ rm.todo # <<>>
    /\ LET key == Head(rm.todo) IN
       \/ (Started1(key) \/ FallsBack(key) \/ Skipped(key)) /\ NextStart
       \/ Breaks(key) /\ Rollback
    /\ UNCHANGED <<plan, wiring, sm, recovery, busFatal, main>>

(***************************************************************************)
(* The coherence gate, the seal and the wiring of the conversation control,*)
(* before any producer is started.                                         *)
(***************************************************************************)
Enabled == {plan.inputs[i] : i \in DOMAIN plan.inputs}
Orphans == {s \in Enabled : FirstWorker[s] \notin catalog}
Remaining == Enabled \ Orphans
Coherent ==
    /\ DefaultPerceptions \subseteq catalog
    /\ \A s \in Orphans : ~Spec[s].required
    /\ AlwaysRequired \cup {FirstWorker[s] : s \in Remaining} \subseteq catalog

Gate ==
    /\ rm.at = "starting" /\ rm.todo = <<>>
    /\ disabled' = Orphans
    /\ IF Coherent
       THEN rm' = [at |-> "inputs", todo |-> plan.inputs]
       ELSE Rollback
    /\ UNCHANGED <<plan, records, armed, sm, recovery, busFatal, main, faults>>

(* Mutant: the disabled sources are started with the others.               *)
StartAnyInput ==
    /\ rm.at = "inputs" /\ rm.todo # <<>>
    /\ LET key == Head(rm.todo) IN
       \/ Started1(key) /\ rm' = [rm EXCEPT !.at = "arming"]
       \/ Skipped(key) /\ NextStart
       \/ Breaks(key) /\ Rollback
    /\ UNCHANGED <<plan, wiring, sm, recovery, busFatal, main>>

(* The disabled ones are left out.                                         *)
StartInput ==
    /\ rm.at = "inputs" /\ rm.todo # <<>>
    /\ LET key == Head(rm.todo) IN
       IF key \in disabled THEN NextStart /\ UNCHANGED <<records, faults>>
       ELSE \/ Started1(key) /\ rm' = [rm EXCEPT !.at = "arming"]
            \/ Skipped(key) /\ NextStart
            \/ Breaks(key) /\ Rollback
    /\ UNCHANGED <<plan, wiring, sm, recovery, busFatal, main>>

(* _late_fill_and_arm: the state manager takes the controls of two sources,*)
(* but not once it shuts down.  An arm() that raises or exceeds its time   *)
(* ends the start, even of a source that is optional.                      *)
Refused == Head(rm.todo) \in {"message", "wake"} /\ sm.at # "running"

Arm ==
    /\ rm.at = "arming"
    /\ \/ /\ ~Refused
          /\ armed' = armed \cup {Head(rm.todo)}
          /\ rm' = [at |-> "inputs", todo |-> Tail(rm.todo)]
          /\ UNCHANGED faults
       \/ /\ IF Refused THEN UNCHANGED faults ELSE Failing
          /\ Rollback /\ UNCHANGED armed
    /\ UNCHANGED <<plan, records, disabled, sm, recovery, busFatal, main>>

Complete ==
    /\ rm.at = "inputs" /\ rm.todo = <<>>
    /\ rm' = [rm EXCEPT !.at = "ready"]
    /\ main' = [main EXCEPT !.at = "waiting"]
    /\ UNCHANGED <<plan, records, wiring, sm, recovery, busFatal, faults>>

(***************************************************************************)
(* Stopping, in reverse: the rollback of a failed start, and stop_all.  A  *)
(* stop that fails, maybe without proof of termination, is only recorded.  *)
(***************************************************************************)
Last(seq) == seq[Len(seq)]
(* Mutant: what was started first is stopped first.                        *)
StopFirst ==
    /\ started # <<>>
    /\ started' = Tail(started)
    /\ armed' = armed \ {Head(started)}
    /\ UNCHANGED <<instance, caps, catalog>>

StopLast ==
    /\ started # <<>>
    /\ started' = SubSeq(started, 1, Len(started) - 1)
    /\ armed' = armed \ {Last(started)}
    /\ UNCHANGED <<instance, caps, catalog>>

StopOk ==
    /\ running' = running \ ({Last(started)} \cup Spec[Last(started)].serves)
    /\ UNCHANGED <<stuck, faults, main>>

StopFails ==
    /\ Failing
    /\ stuck' = stuck \cup {Last(started)} \cup Spec[Last(started)].serves
    /\ \E proof \in BOOLEAN :
          main' = [main EXCEPT !.proof = @ \/ (proof /\ main.at = "stopping")]
    /\ UNCHANGED running

StopOne ==
    /\ rm.at = "rollback" \/ main.at = "stopping"
    /\ StopLast /\ (StopOk \/ StopFails)
    /\ UNCHANGED <<plan, dead, disabled, rm, sm, recovery, busFatal>>

RolledBack ==
    /\ rm.at = "rollback" /\ started = <<>>
    /\ rm' = [rm EXCEPT !.at = "failed"]
    /\ main' = [main EXCEPT !.at = "preparing", !.code = 3]
    /\ UNCHANGED <<plan, records, wiring, sm, recovery, busFatal, faults>>

(***************************************************************************)
(* The state manager: sessions, the recovery of what a convergence has     *)
(* destroyed, the shutdown, and its failure.                               *)
(***************************************************************************)
SmFails == sm' = [sm EXCEPT !.at = "failed"]
Converging == sm.destroyed # {}

SessionBegins ==
    /\ sm.at = "running" /\ armed # {} /\ ~sm.session
    /\ sm' = [sm EXCEPT !.session = TRUE]
    /\ UNCHANGED <<plan, records, wiring, rm, recovery, busFatal, main, faults>>

SessionEnds ==
    /\ sm.at = "running" /\ sm.session /\ ~sm.waits /\ ~Converging
    /\ sm' = [sm EXCEPT !.session = FALSE]
    /\ UNCHANGED <<plan, records, wiring, rm, recovery, busFatal, main, faults>>

(* A backend's child dies, or its adapter ends it for a fault: at any time,*)
(* behind a record that stays started.  Only the next force_abort of the   *)
(* adapter tells of it, maybe in a later session.                          *)
BackendDies ==
    /\ Failing
    /\ \E key \in Recoverable \cap running :
          running' = running \ {key} /\ dead' = dead \cup {key}
    /\ UNCHANGED <<plan, started, instance, caps, catalog, stuck, wiring, rm, sm, recovery,
                   busFatal, main>>

(* Level 2 of a convergence, from which on begin_recovery is still some    *)
(* awaits away.  A backend that was dead already is reported like one that *)
(* force_abort destroys.                                                   *)
ForceAborts ==
    /\ sm.at = "running" /\ sm.session /\ ~sm.waits /\ ~Converging
    /\ \E keys \in (SUBSET (Recoverable \cap (running \cup dead))) \cup {{"gpio"}} :
          /\ keys # {}
          /\ IF keys \subseteq dead THEN UNCHANGED faults ELSE Failing
          /\ running' = running \ (keys \cap Recoverable)
          /\ dead' = dead \ keys
          /\ sm' = [sm EXCEPT !.destroyed = keys]
    /\ UNCHANGED <<plan, started, instance, caps, catalog, stuck, wiring, rm, recovery, busFatal,
                   main>>

(* begin_recovery refuses what it could not carry out, and the refusal ends*)
(* the state manager.  The keys of a batch are rebuilt in started order.   *)
MayRecover(keys) ==
    /\ rm.at = "ready" /\ recovery.ready /\ ~recovery.shutting
    /\ keys \subseteq Recoverable \cap Started

BeginRecovery ==
    /\ sm.at = "running" /\ Converging
    /\ IF MayRecover(sm.destroyed)
       THEN /\ recovery' = [recovery EXCEPT !.at = "running", !.ready = FALSE,
                               !.todo = sm.destroyed]
            /\ sm' = [sm EXCEPT !.waits = TRUE, !.destroyed = {}]
       ELSE SmFails /\ UNCHANGED recovery
    /\ UNCHANGED <<plan, records, wiring, rm, busFatal, main, faults>>

(* ShutdownRequested: by a signal once main waits, or by a long press.     *)
(* prepare_shutdown cancels the batch and waits for its cleanup.           *)
(* Mutant: the batch is left to itself.                                    *)
PrepareShutdownLets == recovery' = [recovery EXCEPT !.shutting = TRUE]

PrepareShutdown ==
    recovery' = [recovery EXCEPT !.shutting = TRUE,
                    !.at = IF @ = "running" THEN "cancelling" ELSE @]

ShutdownBegins ==
    /\ sm.at = "running" /\ ~Converging
    /\ main.at = "waiting" \/ "button" \in armed
    /\ sm' = [sm EXCEPT !.at = "closing"]
    /\ PrepareShutdown
    /\ UNCHANGED <<plan, records, wiring, rm, busFatal, main, faults>>

ShutdownPrepared ==
    /\ sm.at = "closing" /\ recovery.at # "cancelling"
    /\ sm' = [sm EXCEPT !.at = "draining", !.waits = FALSE]
    /\ UNCHANGED <<plan, records, wiring, rm, recovery, busFatal, main, faults>>

ShutdownExpires ==
    /\ sm.at = "closing" /\ recovery.at = "cancelling" /\ Failing
    /\ SmFails
    /\ UNCHANGED <<plan, records, wiring, rm, recovery, busFatal, main>>

SmStops ==
    /\ sm.at = "draining"
    /\ sm' = [sm EXCEPT !.at = "stopped", !.session = FALSE]
    /\ UNCHANGED <<plan, records, wiring, rm, recovery, busFatal, main, faults>>

SmRaises ==
    /\ sm.at \in {"running", "draining"} /\ sm.session /\ Failing
    /\ SmFails
    /\ UNCHANGED <<plan, records, wiring, rm, recovery, busFatal, main>>

(***************************************************************************)
(* The batch, in a task of its own, and the bus.                           *)
(***************************************************************************)
StartedBefore(a, b) ==
    \E i, j \in DOMAIN started : i < j /\ started[i] = a /\ started[j] = b

(* Mutant: the barrier returns with the first key.                         *)
RebuiltIsReady(key) == [recovery EXCEPT !.todo = @ \ {key}, !.ready = TRUE,
                           !.at = IF recovery.todo = {key} THEN "done" ELSE @]

Rebuilt(key) ==
    IF recovery.todo = {key} THEN [recovery EXCEPT !.at = "done", !.todo = {}, !.ready = TRUE]
    ELSE [recovery EXCEPT !.todo = @ \ {key}]

RebuildOne ==
    /\ recovery.at = "running"
    /\ \E key \in recovery.todo :
          /\ \A other \in recovery.todo : ~StartedBefore(other, key)
          /\ running' = running \cup {key}
          /\ recovery' = Rebuilt(key)
    /\ UNCHANGED <<plan, started, instance, dead, caps, catalog, stuck, wiring, rm, sm,
                   busFatal, main, faults>>

RebuildFails ==
    /\ recovery.at = "running" /\ Failing
    /\ recovery' = [recovery EXCEPT !.at = "failed", !.fatal = TRUE]
    /\ UNCHANGED <<plan, records, wiring, rm, sm, busFatal, main>>

RebuildCancelled ==
    /\ recovery.at = "cancelling"
    /\ recovery' = [recovery EXCEPT !.at = "cancelled"]
    /\ UNCHANGED <<plan, records, wiring, rm, sm, busFatal, main, faults>>

RecoveryAwaited ==
    /\ sm.at = "running" /\ sm.waits /\ recovery.at \in {"done", "failed"}
    /\ IF recovery.at = "done" THEN sm' = [sm EXCEPT !.waits = FALSE] ELSE SmFails
    /\ UNCHANGED <<plan, records, wiring, rm, recovery, busFatal, main, faults>>

(* A handler of ErrorOccurred has raised; from then on every publish raises*)
(* in its publisher.                                                       *)
BusTrips ==
    /\ ~busFatal /\ main.at \in {"starting", "waiting"} /\ armed # {} /\ Failing
    /\ busFatal' = TRUE
    /\ UNCHANGED <<plan, records, wiring, rm, sm, recovery, main>>

PublishRaises ==
    /\ busFatal /\ sm.at \in {"running", "draining"} /\ main.at # "exit"
    /\ SmFails
    /\ UNCHANGED <<plan, records, wiring, rm, recovery, busFatal, main, faults>>

(***************************************************************************)
(* run_app: the first of its three waits decides; a fatal failure ends the *)
(* process at once, everything else goes through the orderly stop.         *)
(***************************************************************************)
(* Mutant: only the normal end of the state manager is waited for.         *)
MainWakesOnStop ==
    /\ main.at = "waiting"
    /\ busFatal \/ recovery.fatal \/ sm.at = "stopped"
    /\ main' = IF busFatal \/ recovery.fatal THEN [main EXCEPT !.at = "exit", !.code = 4]
               ELSE [main EXCEPT !.at = "preparing"]
    /\ UNCHANGED <<plan, records, wiring, rm, sm, recovery, busFatal, faults>>

MainWakes ==
    /\ main.at = "waiting"
    /\ busFatal \/ recovery.fatal \/ sm.at \in {"stopped", "failed"}
    /\ main' = IF busFatal \/ recovery.fatal \/ sm.at = "failed"
               THEN [main EXCEPT !.at = "exit", !.code = 4]
               ELSE [main EXCEPT !.at = "preparing"]
    /\ UNCHANGED <<plan, records, wiring, rm, sm, recovery, busFatal, faults>>

MainPrepares ==
    /\ main.at = "preparing"
    /\ PrepareShutdown
    /\ main' = [main EXCEPT !.at = "stopping_sm"]
    /\ UNCHANGED <<plan, records, wiring, rm, sm, busFatal, faults>>

(* StateManager.stop() refuses in the middle of a session.                 *)
MainStopsSm ==
    /\ main.at = "stopping_sm" /\ recovery.at # "cancelling"
    /\ sm' = IF (sm.at = "running" /\ sm.session) \/ sm.at = "failed" THEN sm
             ELSE [sm EXCEPT !.at = "stopped", !.session = FALSE]
    /\ main' = [main EXCEPT !.at = "stopping"]
    /\ UNCHANGED <<plan, records, wiring, rm, recovery, busFatal, faults>>

MainExits ==
    /\ main.at = "stopping" /\ started = <<>>
    /\ main' = [main EXCEPT !.at = "exit", !.code = IF main.proof THEN 4 ELSE @]
    /\ UNCHANGED <<plan, records, wiring, rm, sm, recovery, busFatal, faults>>

Startup == StartOne \/ Gate \/ StartInput \/ Arm \/ Complete
Stopping == StopOne \/ RolledBack
StateManager ==
    \/ SessionBegins \/ SessionEnds \/ ForceAborts \/ BeginRecovery \/ ShutdownBegins
    \/ ShutdownExpires \/ SmRaises \/ PublishRaises
SmShutdown == ShutdownPrepared \/ SmStops \/ RecoveryAwaited
Batch == RebuildOne \/ RebuildCancelled
Main == MainWakes \/ MainPrepares \/ MainStopsSm \/ MainExits

Next ==
    /\ main.at # "exit"
    /\ \/ Startup \/ Stopping \/ StateManager \/ SmShutdown \/ Batch \/ RebuildFails
       \/ BackendDies \/ BusTrips \/ Main

SafeSpec == Init /\ [][Next]_vars

(* Every start, stop, rebuild and cleanup has a timeout of its own.  That  *)
(* the state manager ends its shutdown is the promise of another module.   *)
Fairness ==
    /\ WF_vars(main.at # "exit" /\ Startup) /\ WF_vars(main.at # "exit" /\ Stopping)
    /\ WF_vars(main.at # "exit" /\ SmShutdown) /\ WF_vars(main.at # "exit" /\ Batch)
    /\ WF_vars(Main)
FairSpec == SafeSpec /\ Fairness

(***************************************************************************)
(* Correctness.                                                            *)
(***************************************************************************)
(* The records and the phases of the three actors.                         *)
Keys == DOMAIN Spec
Starts == [at : {"starting", "inputs", "arming", "ready", "rollback", "failed"},
           todo : Seq(Keys)]
StateManagers == [at : {"running", "closing", "draining", "stopped", "failed"},
                  session : BOOLEAN, waits : BOOLEAN,
                  destroyed : SUBSET (Keys \cup {"gpio"})]
Batches == [at : {"none", "running", "done", "failed", "cancelling", "cancelled"},
            todo : SUBSET Keys, ready : BOOLEAN, fatal : BOOLEAN, shutting : BOOLEAN]
Mains == [at : {"starting", "waiting", "preparing", "stopping_sm", "stopping", "exit"},
          code : {0, 3, 4}, proof : BOOLEAN]
RecordsOK ==
    /\ started \in Seq(Keys) /\ running \cup dead \cup stuck \subseteq Keys
    /\ instance \in [Keys -> {"none", "real", "null"}]
    /\ catalog \cup disabled \cup armed \subseteq Keys
TypeOK ==
    /\ plan \in Plans /\ RecordsOK
    /\ rm \in Starts /\ sm \in StateManagers /\ recovery \in Batches /\ main \in Mains
    /\ busFatal \in BOOLEAN /\ faults \in Nat

(* Whatever a factory took through its resolver was started before it and  *)
(* is still started: starts, failed starts, rollback and stop_all together *)
(* keep the started order a stack (manager.py _start_one, _rollback,       *)
(* stop_all).                                                              *)
HeldBelow ==
    \A i \in DOMAIN started : Spec[started[i]].requires \subseteq {started[j] : j \in 1..(i - 1)}

(* An armed source, one that may begin a session at any moment, has the    *)
(* worker of its first turn, a reasoner and a rest action, started and in  *)
(* the catalog, from the arming until the source itself is stopped.        *)
ArmedIsServed ==
    \A s \in armed : {FirstWorker[s], "reasoner", "rest"} \subseteq catalog \cap Started

(* A capability that is announced rests on real instances all the way down:*)
(* its owner, the core resources that one depends on, and the owners of the*)
(* capabilities it requires (manager.py _start_one, capability tracking).  *)
Owner(cap) == CHOOSE k \in DOMAIN Spec : Spec[k].cap = cap
Ground(key) == {dep \in Spec[key].deps : Phase(dep) = CORE} \cup {Owner(c) : c \in Spec[key].capDeps}
NoNullBehind ==
    \A cap \in caps : LET own == Owner(cap) IN
        \A k \in {own} \cup Ground(own) \cup UNION {Ground(g) : g \in Ground(own)} :
            instance[k] = "real"

(* Nothing is started, or announced, above something that is not there.    *)
StandsOnGround == TypeOK /\ HeldBelow /\ NoNullBehind

(* While the process serves and the barrier is up, a started backend that  *)
(* does not run has not been handed to begin_recovery: it died and nothing *)
(* reported it yet, or a convergence in hand has just destroyed it.  And   *)
(* the state manager goes on with a session, or begins one, only with what *)
(* its own convergences destroyed rebuilt (manager.py _converge,           *)
(* begin_recovery, _run_recovery).                                         *)
Missing == (Recoverable \cap Started) \ running
BarrierHonest ==
    rm.at = "ready" /\ main.at = "waiting" /\ sm.at = "running" =>
        /\ recovery.ready => Missing \subseteq dead \cup sm.destroyed
        /\ ~sm.waits /\ ~Converging => Missing \subseteq dead

(* A process that ends with 0 or 3 has stopped every record it started, and*)
(* nothing runs on that a stop did not report, a backend rebuilt behind    *)
(* stop_all included.  0 also says the state manager drained.              *)
OrderlyExit ==
    main.at = "exit" /\ main.code # 4 =>
        /\ started = <<>> /\ running \subseteq stuck
        /\ main.code = 0 => sm.at = "stopped" /\ ~main.proof

(* A fatal failure, the end of the state manager or a startup that fails   *)
(* ends the process, in whatever they overlap (main.py run_app).           *)
MainEnds ==
    (busFatal \/ recovery.fatal \/ sm.at \in {"stopped", "failed"} \/ rm.at = "rollback")
        ~> (main.at = "exit")
==============================================================================
