------------------------------ MODULE FrontPanel ------------------------------
(***************************************************************************)
(* What the person touches and sees: the conversation button, from the edge*)
(* the kernel buffers to the event the bus fans out, and the panel, from   *)
(* the state manager's transitions to the frame the device holds.          *)
(*                                                                         *)
(* No handler of these events suspends, so that a callback and everything  *)
(* it publishes is one step.  Between the steps stand three queues: the    *)
(* kernel's edges, the callback tasks and the state manager's inbox.       *)
(***************************************************************************)
EXTENDS Naturals, Sequences, FiniteSets

CONSTANTS
    MaxTime, ShortPress, LongPress,     \* the clock and the two thresholds
    MaxPresses, MaxErrors,              \* inputs of a behaviour
    EventBuffer                         \* event_buffer_size of the line request

ASSUME PanelBounds ==
    /\ {MaxTime, MaxPresses, MaxErrors} \subseteq Nat
    /\ ShortPress \in 1..LongPress /\ EventBuffer \in Nat \ {0}

VARIABLES
    now, finger,    \* the physical button: when it went down, 0 when it is up
    holds, lost,    \* what was really held; an edge the kernel had to drop
    edges, tasks,   \* read_edge_events(), and the callback tasks in their order
    button,         \* ButtonInputSource
    published,      \* its events, with the two instants they were made from
    inbox, mgr,      \* the state manager
    panel, broken,  \* the arbiter with the device's frame; the native display
    app, errors     \* the owners that are up, errors so far

frontVars == <<now, finger, holds, lost, edges, tasks, button, published, inbox, mgr, panel,
          broken, app, errors>>
physical == <<now, finger, holds, lost>>

NoText == [session |-> 0, what |-> "none"]
Blank == [top |-> "blank", main |-> NoText]

FrontInit ==
    /\ now = 1 /\ finger = 0 /\ holds = {} /\ lost = FALSE
    /\ edges = <<>> /\ tasks = <<>> /\ published = {} /\ inbox = <<>>
    /\ button = [started |-> FALSE, armed |-> FALSE, pressedAt |-> 0]
    /\ mgr = [state |-> "IDLE", session |-> 0, pending |-> FALSE, shutting |-> FALSE,
             up |-> "running", sessions |-> 0]
    /\ panel = [started |-> FALSE, rendering |-> TRUE, state |-> "none", error |-> FALSE,
                main |-> NoText, owner |-> "none", frame |-> Blank]
    /\ broken = FALSE /\ app = "core" /\ errors = 0

(***************************************************************************)
(* DisplayArbiter and Oled128Renderer.  A model is rendered as a whole; the*)
(* first failure of the device ends the rendering for good.                *)
(***************************************************************************)
Picture(p) ==
    IF p.owner # "none" THEN Blank
    ELSE [top |-> IF p.error THEN "error" ELSE p.state, main |-> p.main]

RenderCurrent(p) ==
    IF ~p.rendering THEN p
    ELSE IF broken THEN [p EXCEPT !.rendering = FALSE]
    ELSE [p EXCEPT !.frame = Picture(p)]

RenderUnlessOwned(p) == IF p.owner = "none" THEN RenderCurrent(p) ELSE p

WriteState(p, state) ==
    IF p.started THEN RenderUnlessOwned([p EXCEPT !.state = state]) ELSE p
WriteError(p, shown) ==
    IF p.started THEN RenderUnlessOwned([p EXCEPT !.error = shown]) ELSE p
WriteMain(p, text) ==
    IF p.started THEN RenderUnlessOwned([p EXCEPT !.main = text]) ELSE p

RequestFullscreen(p, owner) ==
    IF p.started /\ p.owner \in {"none", owner} THEN RenderCurrent([p EXCEPT !.owner = owner])
    ELSE p
ReleaseFullscreen(p, owner) ==
    IF p.started /\ p.owner = owner THEN RenderCurrent([p EXCEPT !.owner = "none"]) ELSE p

(* clear() and show(), if the device is still rendered to.                 *)
StopArbiter(p) ==
    [p EXCEPT !.started = FALSE,
              !.frame = IF p.rendering /\ ~broken THEN Blank ELSE @,
              !.rendering = @ /\ ~broken]

(***************************************************************************)
(* The fan-out.  The status bar subscribed before the session display.     *)
(***************************************************************************)
Observed == app \in {"observed", "armed", "released"}

(* Mutant: an error is cleared by the next wake.                           *)
OnStateClearsLate(p, old, new) ==
    WriteState(IF old = "ERROR" /\ new = "WAKE" THEN WriteError(p, FALSE) ELSE p, new)

(* StatusBar._on_state_changed                                             *)
OnState(p, old, new) ==
    WriteState(IF old = "ERROR" /\ new = "IDLE" THEN WriteError(p, FALSE) ELSE p, new)

(* SessionDisplay._on_state_changed: an accepted transcript or answer.     *)
OnSessionState(p, new, session, text) ==
    IF new \in {"IDLE", "WAKE"} THEN WriteMain(p, NoText)
    ELSE IF session # 0 /\ text /\ new \in {"THINK", "ACTION"}
    THEN WriteMain(p, [session |-> session, what |-> new])
    ELSE p

(* A transition is published before what the new state begins with.        *)
Transition(new, session, text) ==
    panel' = IF Observed
             THEN OnSessionState(OnState(panel, mgr.state, new), new, session, text)
             ELSE panel

(* SessionDisplay._on_interrupt, by the state manager as it stands.        *)
Interruptible ==
    /\ mgr.state \in {"WAKE", "PERCEPTION", "THINK", "ACTION"}
    /\ mgr.session # 0 /\ ~mgr.pending /\ ~mgr.shutting

OnInterrupt(p) ==
    IF Observed /\ Interruptible
    THEN WriteMain(p, [session |-> mgr.session, what |-> "aborted"]) ELSE p

OnError(p) == IF Observed THEN WriteError(p, TRUE) ELSE p

Enqueue(item) == inbox' = IF mgr.up = "running" THEN Append(inbox, item) ELSE inbox

(***************************************************************************)
(* The button and the line it is on.                                       *)
(***************************************************************************)
Tick ==
    /\ now < MaxTime /\ now' = now + 1
    /\ UNCHANGED <<finger, holds, lost, edges, tasks, button, published, inbox, mgr, panel,
                   broken, app, errors>>

(* The kernel keeps the oldest edges of a registered line.                 *)
Edge(edge) ==
    IF ~button.started THEN UNCHANGED <<edges, lost>>
    ELSE IF Len(edges) < EventBuffer
    THEN edges' = Append(edges, [edge |-> edge, at |-> now]) /\ UNCHANGED lost
    ELSE lost' = TRUE /\ UNCHANGED edges

Press ==
    /\ finger = 0 /\ Cardinality(holds) < MaxPresses
    /\ \A h \in holds : h.to < now
    /\ finger' = now
    /\ Edge("press")
    /\ UNCHANGED <<now, holds, tasks, button, published, inbox, mgr, panel, broken, app, errors>>

Release ==
    /\ finger # 0
    /\ finger' = 0 /\ holds' = holds \cup {[from |-> finger, to |-> now]}
    /\ Edge("release")
    /\ UNCHANGED <<now, tasks, button, published, inbox, mgr, panel, broken, app, errors>>

(* _read_ready: a task for each event read.                                *)
ReadReady ==
    /\ edges # <<>>
    /\ tasks' = tasks \o edges /\ edges' = <<>>
    /\ UNCHANGED <<physical, button, published, inbox, mgr, panel, broken, app, errors>>

(* _on_gpio_event, by the kernel's instants.                               *)
Kind(from, to) ==
    IF to - from >= LongPress THEN "shutdown"
    ELSE IF to - from >= ShortPress THEN "button" ELSE "bounce"

Publish(kind, from, to) ==
    /\ published' = published \cup {[kind |-> kind, from |-> from, to |-> to]}
    /\ Enqueue(kind)
    /\ panel' = IF kind = "button" THEN OnInterrupt(panel) ELSE panel

OnRelease(at) ==
    /\ button' = [button EXCEPT !.pressedAt = 0]
    /\ IF button.pressedAt = 0 \/ at < button.pressedAt \/ Kind(button.pressedAt, at) = "bounce"
       THEN UNCHANGED <<published, inbox, panel>>
       ELSE Publish(Kind(button.pressedAt, at), button.pressedAt, at)

(* Mutant: a release is taken at the instant of its callback.              *)
CallbackAtOnce ==
    /\ tasks # <<>> /\ tasks' = Tail(tasks)
    /\ IF ~(button.started /\ button.armed) THEN UNCHANGED <<button, published, inbox, panel>>
       ELSE IF Head(tasks).edge = "press"
       THEN button' = [button EXCEPT !.pressedAt = Head(tasks).at]
            /\ UNCHANGED <<published, inbox, panel>>
       ELSE OnRelease(now)
    /\ UNCHANGED <<physical, edges, mgr, broken, app, errors>>

Callback ==
    /\ tasks # <<>> /\ tasks' = Tail(tasks)
    /\ IF ~(button.started /\ button.armed) THEN UNCHANGED <<button, published, inbox, panel>>
       ELSE IF Head(tasks).edge = "press"
       THEN button' = [button EXCEPT !.pressedAt = Head(tasks).at]
            /\ UNCHANGED <<published, inbox, panel>>
       ELSE OnRelease(Head(tasks).at)
    /\ UNCHANGED <<physical, edges, mgr, broken, app, errors>>

(* A component, or the GPIO read itself, reports a system fault.  That of  *)
(* the read names core.gpio, which nothing can rebuild.  (Those of a start *)
(* are Supervision's.)                                                     *)
Fault(item) ==
    /\ errors < MaxErrors /\ errors' = errors + 1
    /\ mgr.up = "running" /\ app = "armed"
    /\ Enqueue(item) /\ panel' = OnError(panel)
    /\ UNCHANGED <<now, finger, holds, tasks, button, published, mgr, broken, app>>

ComponentFault == Fault("error") /\ UNCHANGED <<edges, lost>>

(* What the failed read would have returned is gone.                       *)
ReadFails ==
    /\ edges # <<>> /\ button.started /\ Fault("unproven")
    /\ edges' = <<>> /\ lost' = TRUE

DeviceBreaks ==
    /\ ~broken /\ errors < MaxErrors /\ errors' = errors + 1 /\ broken' = TRUE
    /\ UNCHANGED <<physical, edges, tasks, button, published, inbox, mgr, panel, app>>

(***************************************************************************)
(* The state manager, as far as the panel can tell (StateManager.tla).     *)
(***************************************************************************)
Running == mgr.up = "running" /\ UNCHANGED <<physical, edges, tasks, button, published,
                                            broken, app, errors>>

(* Mutant: a press in WAKE, where nothing is in flight yet, is ignored.     *)
HandleButtonInPhases ==
    IF mgr.state = "IDLE" /\ ~mgr.shutting
    THEN /\ mgr' = [mgr EXCEPT !.state = "WAKE", !.session = mgr.sessions + 1,
                             !.sessions = @ + 1]
         /\ Transition("WAKE", mgr.sessions + 1, FALSE)
    ELSE /\ mgr' = IF mgr.state \in {"IDLE", "ERROR", "WAKE"} \/ mgr.shutting THEN mgr
                  ELSE [mgr EXCEPT !.pending = TRUE]
         /\ UNCHANGED panel

HandleButton ==
    IF mgr.state = "IDLE" /\ ~mgr.shutting
    THEN /\ mgr' = [mgr EXCEPT !.state = "WAKE", !.session = mgr.sessions + 1,
                             !.sessions = @ + 1]
         /\ Transition("WAKE", mgr.sessions + 1, FALSE)
    ELSE /\ mgr' = IF mgr.state \in {"IDLE", "ERROR"} \/ mgr.shutting THEN mgr
                  ELSE [mgr EXCEPT !.pending = TRUE]
         /\ UNCHANGED panel

HandleError ==
    IF mgr.state = "ERROR" THEN UNCHANGED <<mgr, panel>>
    ELSE /\ mgr' = [mgr EXCEPT !.state = "ERROR", !.pending = TRUE]
         /\ Transition("ERROR", mgr.session, FALSE)

HandleShutdown ==
    /\ mgr' = [mgr EXCEPT !.shutting = TRUE, !.pending = TRUE]
    /\ UNCHANGED panel

HandleItem ==
    /\ Running /\ inbox # <<>> /\ inbox' = Tail(inbox)
    /\ CASE Head(inbox) = "button" -> HandleButton
         [] Head(inbox) = "error" -> HandleError
         [] Head(inbox) = "shutdown" -> HandleShutdown
         [] Head(inbox) = "unproven" -> mgr' = [mgr EXCEPT !.up = "failed"] /\ UNCHANGED panel

(* A fact moves the turn on.  To a turn without input the state manager     *)
(* answers itself, past THINK.                                             *)
Onward == {<<"WAKE", "PERCEPTION">>, <<"PERCEPTION", "THINK">>, <<"PERCEPTION", "ACTION">>,
           <<"THINK", "ACTION">>, <<"ACTION", "PERCEPTION">>}

TurnMovesOn ==
    /\ Running /\ ~mgr.pending
    /\ \E step \in {pair \in Onward : pair[1] = mgr.state}, text \in BOOLEAN :
          /\ mgr' = [mgr EXCEPT !.state = step[2]]
          /\ Transition(step[2], mgr.session, text)
    /\ UNCHANGED inbox

(* A rest begins a convergence.                                            *)
TurnRests ==
    /\ Running /\ ~mgr.pending /\ mgr.state = "ACTION"
    /\ mgr' = [mgr EXCEPT !.pending = TRUE]
    /\ UNCHANGED <<inbox, panel>>

(* What the state manager finds wrong by itself: a read window that does   *)
(* not open, an answer that breaks its contract, a route it does not know, *)
(* a conversation without proof; or, in a convergence of whatever trigger, *)
(* a backend that is destroyed.  No ErrorOccurred is published.            *)
TurnErrs ==
    /\ Running /\ mgr.state \in {"WAKE", "PERCEPTION", "THINK", "ACTION"}
    /\ mgr' = [mgr EXCEPT !.state = "ERROR", !.pending = TRUE]
    /\ Transition("ERROR", mgr.session, FALSE)
    /\ UNCHANGED inbox

(* The end of a convergence: IDLE, or after a shutdown the end of the      *)
(* dispatch loop, in the state it is in.                                   *)
Converged ==
    /\ Running /\ mgr.pending
    /\ IF mgr.shutting
       THEN mgr' = [mgr EXCEPT !.session = 0, !.pending = FALSE, !.up = "stopped"]
            /\ UNCHANGED panel
       ELSE mgr' = [mgr EXCEPT !.state = "IDLE", !.session = 0, !.pending = FALSE]
            /\ Transition("IDLE", 0, FALSE)
    /\ UNCHANGED inbox

(***************************************************************************)
(* The owners come up in the resource manager's order, and are released in *)
(* the reverse one once the state manager has stopped.                     *)
(***************************************************************************)
OwnerStep == UNCHANGED <<physical, tasks, published, inbox, mgr, broken, errors>>

StartArbiter ==
    /\ app = "core" /\ app' = "arbiter"
    /\ panel' = RenderCurrent([panel EXCEPT !.started = TRUE])
    /\ OwnerStep /\ UNCHANGED <<edges, button>>

(* _DisplayOwners.start, behind the boot's blank.                          *)
StartObservers ==
    /\ app = "arbiter" /\ app' = "observed"
    /\ panel' = ReleaseFullscreen(WriteMain(WriteState(RequestFullscreen(panel, "boot"),
                                                       "IDLE"), NoText), "boot")
    /\ OwnerStep /\ UNCHANGED <<edges, button>>

StartButton ==
    /\ app = "observed" /\ ~button.started
    /\ button' = [button EXCEPT !.started = TRUE]
    /\ OwnerStep /\ UNCHANGED <<edges, panel, app>>

ArmButton ==
    /\ app = "observed" /\ button.started /\ app' = "armed"
    /\ button' = [button EXCEPT !.armed = TRUE]
    /\ OwnerStep /\ UNCHANGED <<edges, panel>>

(* Releasing the line request drops what it had buffered.                  *)
StopButton ==
    /\ app = "armed" /\ mgr.up = "stopped" /\ app' = "released"
    /\ button' = [started |-> FALSE, armed |-> FALSE, pressedAt |-> 0]
    /\ edges' = <<>>
    /\ OwnerStep /\ UNCHANGED panel

StopObservers ==
    /\ app = "released" /\ app' = "unobserved"
    /\ panel' = RequestFullscreen(panel, "shutdown")
    /\ OwnerStep /\ UNCHANGED <<edges, button>>

StopDisplay ==
    /\ app = "unobserved" /\ app' = "dark"
    /\ panel' = StopArbiter(panel)
    /\ OwnerStep /\ UNCHANGED <<edges, button>>

(* GpiodGPIO.stop waits for the callback tasks.                            *)
StopGpio ==
    /\ app = "dark" /\ tasks = <<>> /\ app' = "stopped"
    /\ OwnerStep /\ UNCHANGED <<edges, button, panel>>

Physical == Tick \/ Press \/ Release
Line == ReadReady \/ Callback
Faults == ComponentFault \/ ReadFails \/ DeviceBreaks
ManagerSteps == HandleItem \/ TurnMovesOn \/ TurnRests \/ TurnErrs \/ Converged
Owners == StartArbiter \/ StartObservers \/ StartButton \/ ArmButton \/ StopButton
          \/ StopObservers \/ StopDisplay \/ StopGpio

FrontNext == Physical \/ Line \/ Faults \/ ManagerSteps \/ Owners

(* The loop runs what is ready; that a turn moves on is not assumed.       *)
FrontSpec == FrontInit /\ [][FrontNext]_frontVars
             /\ WF_frontVars(Callback) /\ WF_frontVars(HandleItem) /\ WF_frontVars(Converged)

(***************************************************************************)
(* Correctness.                                                            *)
(***************************************************************************)
(* As long as no edge was lost, an event stands for one physical           *)
(* press, begun after the arming and over before the stop, and it is a     *)
(* shutdown only for one that was held that long, however late the loop    *)
(* came to the two edges.                                                  *)
EventsAreHolds ==
    ~lost => \A e \in published :
        /\ [from |-> e.from, to |-> e.to] \in holds
        /\ e.kind = Kind(e.from, e.to)

(* What the device shows is the state the state manager is in, under an    *)
(* error only until the error has been handled, and never text of another  *)
(* session than the one that runs; after the stop it shows nothing.  Only a*)
(* device that failed keeps what it showed.                                *)
PanelIsTrue ==
    panel.rendering /\ ~broken =>
        /\ app = "armed" /\ mgr.up = "running" =>
            /\ panel.frame.top \in {mgr.state, "error"}
            /\ panel.frame.main.session \in {0, mgr.session}
            /\ panel.frame.top = "error" =>
                  mgr.state = "ERROR" \/ \E i \in DOMAIN inbox : inbox[i] \in {"error", "unproven"}
        /\ app \in {"unobserved", "dark", "stopped"} => panel.frame = Blank

(* A session the panel calls aborted ends: the press that wrote the word is*)
(* in the inbox and no state it is handled in lets the session live.       *)
AbortedEnds ==
    \A n \in 1..MaxPresses :
        (panel.main = [session |-> n, what |-> "aborted"] /\ mgr.up = "running")
            ~> (mgr.session # n \/ mgr.up # "running")
===============================================================================
