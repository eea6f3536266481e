# A TLA+ model of snowboard-agent

The repository is `sbd`, a voice device: a Python asyncio program (Python code under `src/src/sbd`,
paths below are relative to it) that waits for a button, a wake word or an external message,
holds a session of turns with a person - hear, think, act - and goes back to sleep. All sessions
are run by one dispatch task, the State Manager; everything it starts is an asyncio task or a
child process that may fail, hang, or answer after it was told to stop. The design documents are
`docs/implement/ch*.md`; where they disagree with the code the model follows the code, and the
disagreements are in section 7.

## Contents

1. The parts of the system
2. What is hard
3. The modules
4. Faithfulness: atomicity, bounds, fairness
5. The runs
6. The proofs
7. Where the code and the documents differ
8. What is not modelled, and the plan

## 1. The parts of the system

| Part | Code | State | Operations |
| --- | --- | --- | --- |
| State Manager | `core/state_manager/manager.py`, `guards.py`, `context.py` | public state, session context, pending convergence, in-flight records, inbox, wake timer, open read, error flags, recovery waiter | one handler per inbox item, then `_try_progress`; `_begin_convergence`, `_lifecycle_e1`, `_finish_convergence_if_ready`, `_begin_shutdown` |
| Session converger | `core/state_manager/convergence.py` | none between calls | `converge`: abort every target in parallel, force abort when that fails, report what was destroyed and what is proven |
| Worker runtime | `core/worker_runtime.py` | one call: inner task, abort state | `run_interruptible_call`, `abort`, `force_abort` |
| Resource Manager | `core/resource_manager/manager.py` | started keys, catalog, capabilities, lifecycle phase, recovery ticket and barrier | `start`, rollback, `stop_all`, `begin_recovery`, `wait_recovery`, `prepare_shutdown` |
| Compositions | `core/m1_composition.py` to `m3_composition.py` | the registered specs | the graph of resources under a configuration |
| Main | `main.py` | three supervised waiters, exit code | `run_app`: start, supervise, shut down, stop |
| Event bus | `core/event_bus/bus.py` | subscribers, fatal trip | publish |
| LiteRT-LM adapter, child, ledger | `cognition/litert_lm/`, `cognition/llm_child_protocol.py` | child process, two ledgers, conversation id, current request, recycle flag | open, measure, generate, discard, cancel, close, destroy, rebuild |
| Reasoner | `cognition/reasoner.py` | none between calls | one response per call, admission, faults |
| Listen and ASR | `perception/listen/`, `core/audio/alsa/input.py` | call, capture stream and its thread, child and native worker | one transcript per call |
| Read worker | `perception/read/reader.py` | none between calls | `consume_for_read` with a timeout |
| External message buffer | `input_events/external_message/buffer.py` | messages in order, owner of each, read windows | store, assign, mark pending, begin, close, consume, discard, flush |
| External message source | `input_events/external_message/source.py` | lifecycle, lock | start, ingest, stop |
| Speak and TTS | `action/speak/` (speaker, streaming, Matcha adapter and worker) | streaming control, child | speak; feed, finish, adopt, cancel |
| Rest, tool actions | `action/rest`, `action/tool` | none | one fact per call |
| Wake listener | the port `WakeListenerControl` (`core/state_manager/ports.py`), a mock in `input_events/mock.py` | microphone ownership | suspend, resume |
| Framed child processes | `adaptor/framed_child.py` | process group, pipes, lock | start, request, stop, force terminate |
| Button and GPIO | `input_events/button.py`, `core/gpio/gpiod/driver.py` | the kernel's edges, callback tasks, the press that is down | arm, edge, stop |
| Display | `core/display/` | slots, main text, fullscreen owner, the device's frame | status bar, session display, render, stop |
| Audio output, camera, look | `core/audio/alsa/output.py`, `core/camera`, `perception/look` | device state | play, frames |
| Verification and measurement tools | `../../scripts/run-m4b-pv.py`, `m4b_measurement.py` | evidence files; owners and children of a session | run a case, aggregate, designate, review, finalize; start owners, operate, clean up |

How they interact. Signals (button, wake word, message arrived, error, shutdown) reach the State
Manager through the event bus, whose handler only appends to the manager's inbox. The manager
starts workers as tasks; a worker publishes its result (a *fact*) on the bus and then returns, and
a done-callback of its task appends a *completion* notice: two inbox items per call, with other
items between them. OPEN and CLOSE of the backend conversation are private tasks with notices of
their own. A *convergence* (interrupt, error, rest, shutdown) aborts everything in flight, closes
the conversation, waits for the notices and for the recovery of destroyed backends, optionally
speaks an error notice, and only then returns to IDLE. The manager calls the message buffer and
the wake listener directly; the buffer is shared with the source and with the Read worker. The
three native engines (ASR, LLM, TTS) are child processes behind pipes; whoever cannot prove that
one is at rest kills its process group. Main starts the manager and then, through the Resource
Manager, everything else, and stops it in reverse; the verification tools drive the same owners from
outside and keep their evidence in files.

What makes each part correct:

* buffer: no message is stranded, delivered twice or silently forgotten; no wakeup is lost; only
  messages no read owns are evicted;
* State Manager: a turn runs alone, the reasoner only runs on the
  conversation it was given, IDLE is really quiet, every convergence ends, and the whole is a
  sequence of sessions of turns;
* converger and recovery: what was destroyed is rebuilt before the device sleeps, and the manager
  waits for exactly that recovery;
* microphone: one owner at a time;
* engines: each request has one terminal, taken by the operation that asked; parent and child agree
  when nothing is on its way; one process group per engine; a call leaves nothing behind;
* speech: what is spoken is what was admitted, in order, under one owner, and silent after a close;
* supervision: nothing runs above something that is not there; start and stop are the reverse of
  each other, also half-way; a fatal failure ends the process;
* front panel: an event is what the finger did, the panel what the manager does;
* tools: a Pass is what people said of what stands, and a result proves that nothing survives.

## 2. What is hard

`PROJECT.json` lists the hazards at the line where they bite. In short: facts, completions,
notices and signals are separate items of one queue, so any of them may be stale when handled; a
convergence may start at any moment, abort several tasks with a different outcome each, and be
joined by an error or a shutdown while it waits; a lifecycle operation can be over before its
notice is handled; the microphone and the messages change hands between components; every wait is
for a callback of another task; cancellations cross answers in the pipes of the children; a start, a
stop and a recovery overlap; files of evidence are written by commands that may die.

## 3. The modules

| Module | Models | Role |
| --- | --- | --- |
| `ExternalMessageOps` | `buffer.py` | the locked sections of the buffer as operators on one value: `Can...` is the case that does not raise, the operator of the same name is the buffer left behind |
| `ExternalMessageBuffer` | `buffer.py`, `source.py` | those operators under their concurrent clients: source, owner, one waiting read |
| `MessageMailbox` | - | abstract: a bounded mailbox, each message delivered at most once, reserved messages never evicted |
| `ExternalMessageBuffer_proofs` | - | the inductive invariant of the buffer, the invariants it implies, capacity, expired reads, and the refinement of the mailbox |
| `StateManager` | `manager.py`, `guards.py`, and what it drives | the dispatch loop, composed with workers, converger, adapter conversation, recovery, wake listener and the same `ExternalMessageOps` |
| `SessionLifecycle` | - | abstract: sessions of turns, IDLE, WAKE, PERCEPTION, THINK, ACTION, ERROR |
| `StateManager_proofs` | - | types, numbering of tasks, recovery; every task reports; the session; the handshake with the backend |
| `StateManagerChecks_proofs` | - | the order of the inbox, the manager's own checks, microphone, counters, buffer, and the refinement of `SessionLifecycle` |
| `StreamingControl` | `action/speak/streaming.py`, `action/speak/matcha/adapter.py` | the control of one streamed speech, its task and the TTS requests that the task makes: one operator per method, no specification of its own |
| `StreamingSpeak` | `cognition/reasoner.py`, `litert_lm/adapter.py`, `speaker.py`, `worker_runtime.py`, `convergence.py` | that control between the turn that feeds it, the action that adopts it and the manager that interrupts both |
| `StreamingSpeak_proofs` | - | what was admitted is what is heard, one owner, silence after a close |
| `LLMProtocol` | `cognition/llm_child_protocol.py` | the ledger of requests, as operators on one value: which command and which event it accepts, and what is left |
| `LLMChild` | `litert_lm/adapter.py`, `litert_lm/worker.py` | two such ledgers, the adapter's operations, the child with its control loop and native thread, two pipes |
| `LLMChild_proofs` | - | that the two ledgers agree, over every content of the pipes |
| `ListenChild` | `listener.py`, `whispercpp/adapter.py`, `whispercpp/supervisor.py`, `framed_child.py`, `alsa/input.py` | one listening call from the deadline of the worker down to the native process, under both levels of an abort, recovery and stop |
| `ListenChild_proofs` | - | that calls and destructions leave nothing behind |
| `Composition` | `m2_composition.py`, `m3_composition.py`, `resource_manager` | the resource graph under a configuration, its preflight and its order: constant operators |
| `Supervision` | `resource_manager/manager.py`, `main.py`, `bus.py` | starting, running, recovering, stopping and ending, over any such graph |
| `FrontPanel` | `button.py`, `gpiod/driver.py`, `core/display/` | the button from the edge to the inbox, the panel from the transition to the frame |
| `Process_proofs` | - | of both: supervision over every graph; the button's queues and the panel's picture |
| `EvidenceLedger` | `scripts/run-m4b-pv.py` | the files of evidence under the commands that write, rerun, designate, aggregate, review and finalize |
| `EvidenceSession` | `scripts/run-m4b-pv.py`, `m4b_measurement.py` | the sessions of the tools: owners, operations, faults, cleanup and result |
| `Evidence_proofs` | - | of both: what a result proves and what survives a session; that verdicts stand and a Pass is earned |
| `MCExternalMessageBuffer`, `MCStateManager`, `MCStreamingSpeak`, `MCSupervision` | - | instances for TLC |

The same part is modelled in the detail that the question needs: `StateManager` sees an engine as the
outcome of a request, `StreamingSpeak` as frames, `LLMChild` as two processes and their pipes;
`StateManager` sees a recovery as one answer, `Supervision` as a batch behind a barrier.

### The buffer

`buf.item[m]` is the entry of message `m` in `_items`: absent, queued (no owner), of a session,
pending, or of a turn; `buf.window[s]` is `_read_windows`. A message is the number of its arrival,
because the code allocates its identity under the lock when it accepts it. Every method runs under
one `asyncio.Condition`, hence one operator and one step; `consume_for_read` is the only method that
waits inside, and is split where it waits: `ReadStart`, then `ReadTake`, `ReadEmpty` or `ReadWait`
with the lock, `ReadExpire` when a timeout or cancellation strikes, `ReadRestore` in the handler
that gives the messages back. `ingest` is two steps because its signal is published after the buffer
lock is released; `stop` excludes it by the lifecycle lock. `flush_to_wake` publishes a snapshot one
message at a time. `fate` and `signalled` are history variables for the properties.

Its abstract specification is the mailbox: `ImplementsMailbox` maps each message to new, waiting,
reserved (its turn has it), delivered or dropped, and every step of the buffer must be a step of the
mailbox: accept with at most one eviction, of the oldest message that is not reserved and only when
full; reserve and release; deliver once; clear.

### The State Manager

`state`, `session`, `pending`, `inflight`, `cids`, `inbox` are the attributes of the class. A record
of `inflight` is an `InFlightRecord` plus `task`, what a look at its asyncio task shows: running,
published (the fact is out, the task is not over), or how it ended. `flow` is the program counter of
the dispatch task: `receive` (it awaits `inbox.get()`), `progress` (`_try_progress`), `converge`
(`_begin_convergence`), `e1` (`_lifecycle_e1`), `finish` (`_finish_convergence_if_ready`),
`perception`, `think`, `action` (the `_enter_...` methods), and the two ends, `dead` (an exception
left the loop; `why` says which) and `stopped`. `Call` and `Return` are the calls and returns among
them, `back` the caller. So a handler, the `_try_progress` after it and the convergence it starts are
the sequence of calls the code makes, each an action with the guard, the assignments and the early
returns of its method.

| Definitions | Code |
| --- | --- |
| `Ignored`, `IgnoreItem` | `is_allowed_in_state` and the early returns for stale items |
| `HandleWake`, `HandleMessage`, `BeginSession`, `Suspended` | the signal branches and `_enter_wake`, `_suspend_wake` |
| `HandleFact`, `HandleDone`, `HandleOpened`, `HandleRejected`, `HandleClosed`, `HandleLifecycleFailed` | `_handle_fact`, `_handle_task_completed`, `_handle_lifecycle_completed` |
| `HandleRecovered`, `HandlePlannedRecovery`, `HandleError`, `HandleShutdown` | the notices of the recovery waiters, `ErrorOccurred`, `_begin_shutdown` |
| `Progress...` | the branches of `_try_progress`, in its order |
| `EnterPerception`, `EnterThink`, `EnterAction` | the methods of that name |
| `Converge`, `ConvergeAgain`, `ConvergeToShutdown`, `LifecycleError...` | `_begin_convergence` (new; joined; upgraded to shutdown), `_lifecycle_e1` |
| `Targets`, `Ending`, `Endured` | `DefaultSessionConverger.converge`: which records it aborts, and every combination of outcomes |
| `Finish...` | the steps of `_finish_convergence_if_ready`, in its order |
| `Publish...`, `ReturnWorker`, `FaultWorker` | a worker publishes, returns, or publishes an error and raises |
| `OpenEnds`, `CloseEnds`, `EngineDies` | `open_conversation`, `close_conversation`, the death of the child |
| `RecoveryEnds` | `ResourceManager._run_recovery` and the waiter's callback |

What a person in front of the device is promised is `SessionLifecycle`: `ImplementsLifecycle` says
that whatever workers, notices, convergences and recoveries do, the visible state moves only as a
session of turns may - perception, at most one thought, an action, the next turn or the end -, that
sessions are numbered without a gap and that after a shutdown no session begins.

### The streamed speech

While the LLM still generates, `Reasoner._product_turn` feeds the text released so far to a
`StreamingSpeakControl`, whose task speaks it; the action `speak` of that turn later adopts the
control instead of speaking the text again. Three owners may end it - the turn, the action, the
convergence -, through four methods that wait at different places for the task and for the TTS child.

`StreamingControl` has the control and its task. A fragment is its sequence number and weighs
`Size`; `pending`, `bytes`, `inflight`, `admitted`, `acknowledged`, `terminal`, `adopted` are the
attributes, `runner` says where the task `_run` stands and `ending` how it ended; `tts` is the child
and `cancelling` the adapter's `_cancel_requested`. A method that waits is split where it waits:
`Cancel` and `CancelKill` are `cancel()` before and after `TTSAdapter.abort()`; `Fail` kills the task
before that call; `ForceClose`, `ForceTTS`, `ForceKill` are `force_abort()`. `RunnerStep` is the task:
it dequeues one or two fragments, sends a request, hears PCM, CANCELLED, an error or the end of the
child, plays, and after the last fragment waits for the adoption.

`StreamingSpeak` has everybody else:

| Definitions | Code |
| --- | --- |
| `Child...` | what the LLM child sends: text released, one terminal, or it dies; CANCELLED only when asked |
| `Op...` (`op`) | the operation task `_product_turn` with the wait of `LiteRTLMAdapter._request` inside it: begin, generate, feed, finish, and the ways out (`CancelsSpeech`, `FailsSpeech`, `ClosesSpeech`) |
| `Body...` (`body`) | the outer task, `_reason_product` in `_run_call`: publish, the timeout of the reasoner, abort, reaping the operation |
| `Runner`, `SpeakStarts`, `SpeakEnds` | the task's fault on the bus; `Speak.execute` with an adopted control |
| `StartTurn`, `Handle...`, `Concludes` | the manager: THINK, button, errors, the notices of the two workers |
| `Converges`, `Target`, `FirstStep`, `Timeout`, level 1 and level 2 steps | `converge()` for the one worker in flight: `abort()` of reasoner or speaker down to the TTS child, its timeout, `force_abort()`, the comparison of its report with the fault |
| `ConvergenceEnds`, `Recovered` | `_finish_convergence_if_ready`, with the recovery as one step |

Identities are left out (`_check_identity`: a control belongs to one turn, `owner`), as are the
validation of fragments and texts, the admission of a prompt, the hooks `before_start` and
`on_completion`, and one-shot speeches, which the State Manager's model has as an action.

### The language model's child

`LLMProtocol` is the ledger class that parent and child both instantiate: the counter, the active
request, whether it was cancelled, the conversation that is claimed and the ticket of a measured
prompt. `LLMChild` has one in the adapter and one in the child. The adapter's operation (`op`) holds
`_operation_lock`; it sends a frame, waits in `_request` (phase `wait`), and ends by a terminal, a
failure, the deadline with its grace, the cancellation of its task or the destruction of the child.
`Receive` is the reader task, which checks every event against the ledger and destroys the child when
it does not fit. On the other side the control loop reads commands while the native thread works;
`Relay` passes its fragments through the bounded queue, `Cancel` is deferred to the end of an
operation that may not be cut, and what that operation has done already is undone before CANCELLED is
answered. Destruction and rebuild are a task of their own that an operation shields.

### Listening

`call` is `WorkerRuntime` and `perceive()`, `op` the task of `transcribe()`, `mic` the microphone with
the one thread in which it reads, `asr` the adapter's fields, `process` the `FramedProcess`, `child`
the process group of supervisor and native worker, `manager` the converger, the recovery and the stop.
An action is what one coroutine does between two awaits. The supervisor may die and leave its native
worker orphaned; force_terminate is two steps, the kill and the proof that the group is empty.

### Supervision

`plan` is the graph of one configuration in the order of the phases. `rm` walks it (`StartOne`: a
resource starts, falls back to its null instance, is skipped when optional, or breaks the start), passes
the gate that disables sources without a worker, starts and arms the sources one by one, and is ready;
a failure rolls back. `running` is what really runs, which a destroyed backend and a failed stop tell
apart from `started`; `dead` are the backends whose child died and that no convergence has reported. A
convergence is three steps: `ForceAborts` destroys or reports (`sm.destroyed`), `BeginRecovery` lowers the
barrier, `RecoveryAwaited` lets the session go on. `sm` is the manager as the other two see it; sessions begin as soon as a source
is armed, also during the start. `recovery` is the batch, its barrier and its cancellation by
`prepare_shutdown`. `main` waits for the three failures, prepares, stops the manager, stops everything
and exits with 0, 3 or 4.

### The front panel

Between the finger and the manager stand three queues: the kernel's buffer of edges, the tasks created
per edge, and the inbox. `published` keeps, with each event, the two instants it was computed from, and
`holds` what was really held. The panel is the arbiter with the two observers; a transition is
published before the manager enters it, and a callback with all it publishes is one step. Of the manager
the panel sees transitions: a turn that goes on (with or without thinking) or rests, an `ErrorOccurred` that
it handles, an ERROR that it enters by itself (`TurnErrs`), and the end of a convergence.

### The tools

In `EvidenceLedger` a unit is a test or a case of one; `runs` are the partitions its command wrote, in
order. A digest is modelled by what it tells apart: the file it is of, the digests an aggregate is
computed from, and how often the file was edited. Each command is a disjunction of complete, failed
and killed between two files or inside one: `torn` names the files that are there and are no document,
and what a selection reads must be whole (`Legible`). `Edit` is the disk: a card, in its digest and in what
it says, or a capture. `heard` is the history: what a person said and of which contents.

`EvidenceSession` gives each kind of session its plan, a sequence of owners and operations. An owner is
recorded before its `start()` is awaited; a step succeeds, fails, is cancelled or finds its child dead;
then the cleanup of that kind stops what it recorded, looks at the children it held, and only then is
there a result. The four wake paths run against a `product` that may listen too early.

## 4. Faithfulness: atomicity, bounds, fairness

Atomicity. The program is one event loop; code runs alone between two awaits. Only the dispatch
task changes the manager's attributes. While a handler is suspended in an await, other tasks can only
append to the inbox, end, or change the buffer and the adapter. The first two commute with the
handler: it does not read the inbox, and it looks at the tasks only inside `converge`, whose step
chooses every outcome they can reach while it waits. So such steps are taken when the dispatch task
is at `inbox.get()`. A message stored during a handler is stored before or after it: the handler's
awaits (aborting tasks, the wake listener) have no part in the buffer. What runs inside the buffer's
own awaits (a read waiting while the source stores) is the business of `ExternalMessageBuffer`, where
these steps do interleave.

In `StreamingSpeak` what runs between two awaits that can block is one action; a method that
acquires the control's condition never blocks there, because nobody waits while holding it.
The timeout of level 2 is left out (it ends the program), and a recovery is one step of the manager:
its own interleavings are in `StateManager` and `Supervision`. `LLMChild` and `ListenChild` split every
coroutine at each await that can block, and every pipe is a sequence with a writer and a reader of its
own; the child's native thread, its queue and its control loop are separate actions too. The handlers
that `FrontPanel` models never suspend. In `EvidenceSession` a step is the work of one await, which
fails or is cancelled with or without its effect; in `EvidenceLedger` a step is a command up to the next
file it creates, and a kill inside a file is a step that leaves it torn.

Data. Words heard, texts and prompts are reduced to what the code branches on: words or silence
(once, or several attempts), the route and the next perceptions of a response, the result of an
action. Payload validation and logging change no state and are left out; `_validate_response` is
`Valid`. `tool` and `look` are workers like `rest` and `listen` with another payload. A frame of sound
is a message without content, an answer of the model a sequence of fragments, a digest what it tells
apart.

Bounds, each a constant of a configuration:

| Bound | Meaning | Why it is enough |
| --- | --- | --- |
| `MaxMessages` 1-3, `MaxItems` 2 | messages ever accepted, capacity | three fill a buffer of two, so an eviction happens with one, two or no evictable message |
| `Sessions` 2 | sessions begun | anything that leaks from a session is seen by the next one |
| `MaxTurn` 2 | turns of a session | one turn after another, so that a fact of the first can meet the second |
| `MaxGeneration` 2 (`StateManager`, `LLMChild`) | conversations of a session | one replacement, or one rejected open and its retry |
| `scenarios`, `budget` | how often each input or fault happens, and the reasoner's answers | each alone, and pairs of the same kind where the code counts or joins them |
| `Turns` 1-2 | turns that think, in `StreamingSpeak` | what the first turn leaves behind is met by the second |
| `MaxFragments` 2-3, `MaxPending` 2, `MaxBytes` 2-4, weights 1 and 2 | fragments of an answer, the two limits of the queue | three fragments fill a queue of two; with unequal weights each of the limits is the one that binds |
| `MaxRequests` 4, `MaxEpoch` 2, `QueueSize` 1 (`LLMChild`) | requests of a child, children, the stream queue | open, measure, generate, close; a child and its replacement; a queue that is full with one fragment |
| `MaxCalls` 3, `MaxFrames` 3, `MaxGeneration` 3, `MaxCrashes` 2 (`ListenChild`) | listening calls, frames of one, children started | a call after a rebuild after a call; silence after speech; a replacement that dies too |
| `MaxFaults` 1-2 | what goes wrong, of whatever kind | one fault anywhere, or the second in the handling of the first |
| `MaxTime` 4, thresholds 1 and 2, `MaxPresses` 2, `EventBuffer` 2 (`FrontPanel`) | clock, presses, the kernel's edges | a bounce, a short and a long press, one after the other; two edges fill the buffer |
| `MaxReruns`, `MaxDesignations`, `MaxMishaps`, `MaxFinals` 1, two `WakeCases` (`EvidenceLedger`) | commands beyond the first of each unit | one change anywhere after what it invalidates; an aggregate of two; a behaviour ends with its last final verdict, which no command reads |
| `MaxInterrupts` 1, `MaxTurns` 5 (`EvidenceSession`) | a Ctrl-C, the dialogue of a measurement | at every await; a replacement and the turns after it |

An answer that needs a turn or a conversation beyond the bound is not given (`Admissible`), so a run
ends by ending its sessions, not by being cut. Deadlock checking is off because the device may stop
(`stopped`, `dead`, `exit`, `ended`, `fatal`), and because nobody has to press a button; the buffer never
stops, and its run checks deadlock.

Fairness. `FairSpec` of the State Manager asks for weak fairness of the dispatch task (the event
loop runs a ready task), of the workers and lifecycle requests together, of the recovery and of the
acknowledgement timer: each of them is bounded by a timeout in the code (perception, generation,
open, close and recovery timeouts; `asyncio.sleep` for the timer). Fairness of the workers *together*
asks less than of each. Inputs and faults are never fair. `FairSpec` of the buffer asks the same of
the reader's steps and of the two pending publications, which nothing can block.
`StreamingSpeak` asks it of each asyncio task by itself - operation, outer task, speech task, action,
manager, convergence - but of neither child process, nor of the audio output: a TTS child that never answers (`runner =
"synthesize"`), a playback that never drains (`"play"`) and an LLM child that never sends another
frame are allowed. The timeouts in the code are the steps `OpExpires`, `BodyExpires`, `BodyRaises`
and `Timeout` of those tasks. `LLMChild` is fair to what the event loop runs and to the end of a killed
process group, and owes nothing to the child: a native call may never return. `ListenChild` is fair to the
coroutines, to the audio thread, which ends every read, and to the supervisor, which gives its native
worker up after 120 s; nobody has to abort or stop. `Supervision` is fair to start, stop, rebuild and
main, each under a timeout, and to the end of the manager's shutdown, which is the promise of
`StateManager` (and broken in the cases of section 7). `FrontPanel` is fair to the callback tasks, to the
dispatch task and to its convergence.

## 5. The runs

Passing runs (no error found in the whole state space of the bounds):

| Run | Instance | Shows |
| --- | --- | --- |
| `buffer` | 3 messages in a buffer of 2, `drop_oldest`, 2 sessions, 2 turns | `NothingStranded`: a message owned by a turn has that turn's active window, a sleeping read has nothing to take, a queued message was signalled or will be; `StoppedIsQuiet`: after `stop` nothing is half done; `ExpiredReadReleases`: a read that expires gives its messages back whatever happened meanwhile; `ImplementsMailbox`; and under fairness `ReadIsServed`: a read that could take a message does not wait for its timeout |
| `talk` | 2 sessions of 2 turns and 2 conversations, every route and an invalid answer, silence, a failed action, an error, button interrupts, one destroyed engine, one fault | `TurnIsSound`; under fairness `ConvergenceEnds` and `WakeMovesOn` |
| `faults` | three scenarios: one session in which workers fault (twice), errors arrive (twice), the child dies, an open is rejected, an admission denied, aborts destroy or lose a backend, a recovery fails, the microphone is not released, a shutdown comes; two sessions around a recovery; two sessions with 2 messages, begun by message or by voice, whose turns read, listen, or both | `TurnIsSound`; `EveryTaskReports`: a convergence can never wait for a completion that was dropped; `RecoveryIsAwaited`; `NoForgottenMessage`: back in IDLE, what the buffer kept wakes the device again; `ImplementsLifecycle` |
| `speak` | 2 turns, answers of up to 3 fragments, faults of both children and of the audio output, every timeout, an interrupt at any moment | `SpokenAsAdmitted`: spoken, being spoken and queued are what was admitted, in order, within the limits, and the one completion is adopted and of all the text; `ControlIsOwned`: an answer's action finds the control that speaks it, no owner lets go of a speech that goes on; `ClosedIsSilent`: nothing is synthesized or completed after a close |
| `speak_live` | 1 turn, 3 fragments, children and an audio output that owe no answer | `ConvergenceStops`, `ThinkEnds`: timeouts and force alone end every convergence and every turn that thinks, also one whose feed is blocked behind a speech that is stuck (which takes three fragments) |
| `llm_child` | 2 children, 2 conversations, every request, aborts, deadlines and graces at any moment, a planned recovery, a stop, one fault anywhere | `LedgersAgree` when nothing is in the pipes; `EachAnswersItsOwn`: no terminal stays behind for the next operation; `CleanChild`: no native conversation without a claim and no prompt kept without its ticket; `RequestEnds` with a child that owes nothing |
| `listen` | 3 calls over 3 children, deadlines, both levels of abort, capture failures, crashes that orphan the native worker, recovery, stop | `OneEngine`: a process that says STOPPED or DESTROYED has nobody left in its group; `QuietBetweenCalls`; `NoForgottenDestruction`; `PerceiveEnds`, but for the one order of section 7 (`LostRequest`) |
| `supervision` | 4 configurations of the product (native; everything optional; a voice source without its worker; the smallest), 2 failures | `StandsOnGround`: nothing is started or announced above something that is not there; `ArmedIsServed`; `BarrierHonest`: what is started and gone is accounted for, as died and not reported yet, as destroyed by the convergence in hand, or behind a lowered barrier; `OrderlyExit`: a process that ends with 0 or 3 has stopped all it started; `MainEnds` |
| `front_panel` | 2 presses of any length, edges buffered, lost or read late, 2 errors, a device that breaks, the owners coming up and going down | `EventsAreHolds`: an event stands for one physical press and a shutdown only for a long one; `PanelIsTrue`; `AbortedEnds`: a session that the panel calls aborted ends |
| `ledger` | one rerun, one designation, one mishap (a kill that may tear a file, a failure, an edit) anywhere; the final verdict at any moment | `FinalPassIsEarned`: a Pass is what people said of what stands, but for an edited verdict of a semantic case (`TakenAsWritten`); `JudgedIsFinal`: a complete record that stands counts while the files its selection reads are whole |
| `session` | fifteen kinds of session, two failures and a cancellation at any await, wake paths against four products | `ReturnedIsClean`: a result proves that all was stopped and nothing lives; `NothingSurvives`; `SoundIsAccepted`; `EarlyIsCaught`: a product that listens too early gets no result |

`TurnIsSound` is what every run of the dispatch loop keeps: its types, `ChecksHold` (among workers that keep
their contract the manager's own checks never fail), `IdleIsQuiet` (nothing is left of a session), `InFlightIsCurrent` (a turn starts
with nothing of an earlier one in flight), `ReasonerHasConversation` and `OneMicOwner`, the last for
sessions begun by button or voice only: `wake_microphone` shows that it does not hold for one begun by
a message.

The policies `drop_newest` and `reject` refuse alike (the caller is told differently), `drop_oldest`
evicts; the run has the one that evicts, and the proofs of section 6 have all three.

`ClosedIsSilent` excepts the steps of level 2: between the closing of the control and the death of
the child, `force_abort()` waits, and a task that stood before its request may still send it; the
child is killed next. `ReleasedIsOver`, a part of `ControlIsOwned`, excepts the convergence itself, which
forgets the control in the step after it joined the task. `EventsAreHolds` assumes that the kernel
dropped no edge: its buffer of 16 overflows only when the loop stands still for that many edges, and
then two short presses can join into a long one.

Each property has a mutated definition in the model - a dropped guard, a missing reset, a swapped
order, a bug that code could well have - with which its run fails. They carry the comment `mutant`
and nothing uses them otherwise; `PROJECT.json` pairs them with their properties.

The run `wake_microphone` shows a disagreement between the documents and the code, section 7.

## 6. The proofs

Eight modules hold theorems, for every value of the constants. What the proofs take from a module is
its named `ASSUME` only, which TLC evaluates on every run of that module. With them every safety
property of the passing runs is a theorem, the two refinements included.
Each follows the same plan: an inductive invariant of named parts, one lemma per part and kind of step,
and a last temporal step. `Process_proofs` and `Evidence_proofs` each hold the proofs of two modules that
have no variable in common, one after the other; what both would define is named for the part
(`FrontSpec` and `Spec`, `LedgerSpec` and `Spec`; `LineInv` and `PanelInv`, `LInv` and `IInv`).

| Theorem | Property of a run |
| --- | --- |
| `NothingIsStranded`, `StopIsComplete`, `ExpiredReadsRelease`, `BufferImplementsMailbox` | `NothingStranded`, `StoppedIsQuiet`, `ExpiredReadReleases`, `ImplementsMailbox` |
| `TurnSound`, `TasksReport`, `RecoveryAwaited`, `NothingForgotten`, `ManagerLives` | `TurnIsSound`, `EveryTaskReports`, `RecoveryIsAwaited`, `NoForgottenMessage`, `ImplementsLifecycle` |
| `Agreement`, `AnswersAreOwned`, `ChildIsClean` | `LedgersAgree`, `EachAnswersItsOwn`, `CleanChild` |
| `EngineAlone`, `CallsLeaveNothing`, `DestructionIsRemembered` | `OneEngine`, `QuietBetweenCalls`, `NoForgottenDestruction` |
| `GroundIsFirm`, `ArmedSourceIsServed`, `BarrierIsHonest`, `ExitIsOrderly` | `StandsOnGround`, `ArmedIsServed`, `BarrierHonest`, `OrderlyExit` |
| `EventsAreEarned`, `PanelFollows` | `EventsAreHolds`, `PanelIsTrue` |
| `SpeechIsFaithful`, `ControlHasOneOwner`, `ClosedControlIsSilent` | `SpokenAsAdmitted`, `ControlIsOwned`, `ClosedIsSilent` |
| `ResultIsClean`, `SessionLeavesNothing`, `EarlyListeningIsCaught`, `SoundSessionIsAccepted` | `ReturnedIsClean`, `NothingSurvives`, `EarlyIsCaught`, `SoundIsAccepted` |
| `JudgedVerdictStands`, `PassIsEarned` | `JudgedIsFinal`, `FinalPassIsEarned` |

### The buffer

`ExternalMessageBuffer_proofs` holds for every number of messages, sessions and turns, every capacity and
policy. Its assumption is `OpsAssumption`: the bounds are naturals, the capacity is positive, the
policy is one of three, and `None` is not a session.

    IInv == TypeOK /\ Sound(buf) /\ NoLostWakeup /\ QueuedIsSignalled /\ StoppedIsQuiet

where `Sound(b)` says that `b` has its type and that each message of a turn has a session and that
turn's active window. `Sound` is stated for a buffer value, not for the variable, so that one lemma
per locked section (`StoreSound`, `WithItemSound`, `BeginSound`, `CloseSound`, `ConsumeSound`,
`FlushSound`) says what that method does to a sound buffer, which messages remain present and which
are queued; the step lemmas then never look inside a method. The conjuncts need each other:
`NoLostWakeup` needs that a turn's messages have an active window when an assignment stays silent
(the message had its owner already), `QueuedIsSignalled` needs the agreement of `fate` and `_items`
in `TypeOK` when a new message is stored, `StoppedIsQuiet` needs that an ingest excludes a stop.

`BufferImplementsMailbox`: the initial states correspond, and `StepRefines` shows that every step is a
step of the mailbox or a stutter. A step that leaves `fate` alone can only move messages between waiting
and reserved (`FatesUnchanged`, `HeldIsPresent`); `IngestStore` accepts and evicts exactly the oldest
message that is not reserved, only when full (`StoreAccepts`, `EvictedIsOldest`); `ReadTake` delivers
what its turn held (`TakeDelivers`); a flush, a discard and a stop clear (`EmptyingClears`).
`CapacityHolds` (`Spec => []WithinCapacity`) counts: the messages present are finitely many
(`PresentFinite`), only `IngestStore` adds one, and it adds it to a buffer that was not full or from
which it took one (`OneMore`).

### The State Manager

Two modules, the second on top of the first, because each invariant is proved on top of the one before: any scenarios, so any inputs and
faults in any number, any answers of the reasoner, any number of sessions, turns, conversations and messages.
`ManagerAssumption` asks that the bounds leave room for one turn and one conversation (the code has neither
bound), that a scenario names responses, and that sessions are numbered from 1; `OpsAssumption` is that of
the buffer.

* `ShapeHolds`. `Shape` gives every attribute its type and each place of `flow` what its
  method is called with. `Numbered` says that no two records have one number and that the facts in the inbox
  are of the kind of the record they name.
* `RecoveryAwaited`, from `RecoveryInv`: a recovery under way is the one the convergence waits for
  (`Awaited`); a session that converges is blocked and opens nothing (`ConvergingIsBlocked`); a
  convergence is started from where it may be (`WhyConverge`); reports of earlier recoveries carry older
  tickets (`ReportsInOrder`), so none of them ends the wait. The property alone is not inductive: a stale
  report could end it.
* `TasksReport`, from `ReportsInv`: a record in flight is active, or has its notice in the inbox, or is a
  lifecycle operation whose failure is being handled. The last case is closed by `ErrorConverges`: the manager
  is in ERROR only with a convergence that takes such records along.
* `SessionHolds`, from `SessionInv`: a shutdown is converging or over (`ShutsDown`); whoever enters a
  state finds nothing in flight (`Entering`); in IDLE nothing is left (`Quiet`); session, number, wake
  timer and open read go together (`Owned`); all records are of this session and turn (`Current`).
* `ConversationHolds`, from `ConversationInv`: when a session converges its workers are cancelled and over
  (`Cancelled`), what is in flight is of the state (`OfState`), an open or a close is alone
  (`Alone`, `Opens`, `Closes`), and outside a convergence a ready conversation is that of the live engine
  (`Ready`, `ThinkReady`, `EngineHolds`). `ReasonerHasConversation` needs all of them: a stale OPENED, a
  replacement after an error and an engine that died are told apart only by what is in flight.
* the lemma `OwnChecksHold`, a part of `TurnSound`, from `InboxInv`: a fact precedes its notice, an error the notice of the worker that
  failed, a fault that names backends is that of a record in flight (`FactFirst`, `ErrorFirst`, `FaultKeys`,
  `ErrorKeys`). The position in the inbox matters, so the lemmas `Carried`, `Added`, `Descends` say what a
  step does to inbox and records: takes the head, appends, keeps the order.
* `OneOwner` (from `MicInv`) speaks of the runs that take no message: with one it is refuted, section 7.
* `CountsHold` and `BufferHolds` complete `TypeOK`: a turn or a conversation is begun only below its
  limit, and the operators of `ExternalMessageOps` keep `Buffer`.
* `NothingForgotten`, from `Announced`: in IDLE every message present is queued and its signal is in the inbox,
  because `FinishIdle` flushes and announces all it kept; `InOrderLists` proves that the sequence in which
  it does names every one of them.
* `ManagerLives`: `SessionInv`, `ConversationInv` and `CountsInv` give each step its place in
  `SessionLifecycle`: the steps that move the state are one of its actions, all others stutter.

### The streamed speech

`StreamingSpeak_proofs` assumes `ControlAssumption` (limits are positive, a fragment weighs something and no more
than the queue may hold, which `feed()` checks) and `TurnsAssumption` (the turns are a number).

    IInv == TypeOK /\ Flow /\ Limits /\ Endgame /\ Quiet /\ Frames /\ Texts
            /\ Voice /\ Cleanup /\ Record /\ Converging /\ Answers

The first half is about the control, its task and the TTS child. `Flow` is the property proper: while the text can still
be completed, spoken, in flight and pending together are what was admitted, and that is a prefix of the text.
`Limits` is the back-pressure, `Endgame` what the task compared before it waits for its adoption, `Quiet` that a
closed control is not about to speak. Operation, action, task and convergence all call on the control, so these
are not proved per action of the system but per method: `NextMoves` says that every step does nothing to the
control or is one of the calls in `Moves`, and one lemma per method says that it keeps
`Flow`, `Limits` and `Endgame`, whoever calls.

The second half is about the clients, and each part is there because a part before it is not inductive alone.
A fragment is fed in order only if what the child's pipe still holds and what was admitted do not exceed what was
released (`Texts`), for which the pipe may hold but one terminal, as its last frame (`Frames`). A close is silent
only if whoever waits for the task has closed the control and stopped the child first (`Cleanup`), and a TTS child
is busy without a task only after `fail()` killed that task (`Voice`). Which of
these waits can overlap depends on whom the convergence took as its target and what it has stopped
(`Converging`), and that on there being one worker in `_in_flight` with one task or one notice (`Record`).
`Answers` is what `execute()` finds. The proof asked for a clause that the first form of `Record` did not have: an operation
that has a response is over (`after = "response" => op = "over"`); without it the invariant is true but not
inductive.

The weight of the queue is a fold over it. What a fold computes needs induction over its length, which the
library states for operators; the module derives it for sets (`SetInduction`: the finite subsets of a set are
well-founded under strict inclusion) and has from it that a text has one sequence of partial sums
(`FoldExists`, `WeightSums`), so `WeightAppend` and `WeightSplit` hold for every text.

### The language model's child

`LLMChild_proofs` assumes `LLMAssumption` (the bounds are naturals). `LedgersAgree` says nothing unless the
pipes are empty, so `IInv` must say what it means while they are not:

    IInv == Shape /\ ParentInv /\ Together /\ Asked /\ WorkerInv

`Together` is the heart: while the pipe is read and the child lives, there is a sequence of ledgers, one per
event in the pipe and one more, that leads by the protocol's own operators to the child's (`Replays`), and
nothing but a request, a CANCEL, or both separates the adapter's ledger from the first of them (`Follows`). With empty
pipes the two are equal. A CANCEL commutes with every event the child may have written before
it reads it (`CancelCommutes`) except the terminal: then the child is `Doomed`, refuses the CANCEL and ends.
`ParentInv` has the order of the adapter's own waits, from which `EachAnswersItsOwn` follows; `WorkerInv`
follows the native conversation and the measured text through every request, from which `CleanChild` follows.
TLC checked `IInv` first, on the bounds of the run.

### Listening

`ListenChild_proofs` assumes `ListenBounds`. The parts of `IInv` are about one relation each: the call and
its operation (`Placed`), the request and its number (`Allocated`), the microphone and its thread (`MicInv`: a closed
stream has its close behind its reads), the two pipes (`Ordered`, `LastWord`: a terminal is the last word of a
request; `Ready`: a process that says READY has no request and nothing unread), replacement and
destruction (`Boots`, `Gone`, `Forced`, `Remembered`). `QuietBetweenCalls` needs the pipes, `OneEngine` the
replacement, and `NoForgottenDestruction` that only the forced abort may have the report in hand.

### Supervision

`Process_proofs` holds for every graph and every number of failures. `SupervisionBounds` says that the
lists of a plan hold keys of its graph, that what a resource serves is in the graph, and that one with a null
instance takes nothing through its resolver; `GraphAssumption` that no key is listed twice, that a capability
has one owner, and that a core resource directly below an owner takes nothing through the resolver and
rests on no other core resource. `Registry` and the compositions see to it; TLC evaluates both on the product's four plans.

    IInv == TypeOK /\ HeldBelow /\ StartInOrder /\ ArmedAbove
            /\ BatchInStep /\ MissingIsInBatch /\ WaitsForBatch /\ RunningIsKnown /\ CodeIsEarned

`StackMoves` says that a step leaves `started` alone, pushes one key or pops one, and `PushKeeps` and
`PopKeeps` what that leaves of it; `HeldStep` and `ArmedStep` use nothing else of a start or a stop.
`ArmedAbove` is stronger than `ArmedIsServed`, which popping a worker would break: the workers of an armed
source are *below* it, so it is gone before they are. It needs `StartInOrder`: what the gate found in the
catalog is still started when a source is armed, because nothing stops before the start is over.
`MissingIsInBatch` says where a backend that is gone is accounted for until it is rebuilt: dead and not
reported, destroyed by the convergence in hand, or in the batch; `WaitsForBatch` that nobody goes on beside a
batch; `BatchInStep` that the barrier is
down as long as that list is not empty, that a batch runs only over a complete start and never under a
shutdown - so no record it holds is stopped under it. `RunningIsKnown` needs that too: what a batch
rebuilds is on the stack. `CodeIsEarned` follows the exit code from where it is set to the exit. Without the part
of the assumption on null instances `HeldBelow` is not inductive: the null instance starts when the resolver has refused.

`GroundIsFirm` adds `NoNullBehind`, from two invariants of their own: what is still to be started has no
instance (`Fresh`), so a start never changes one that something stands on; and every capability announced has
an owner that is real, over real dependencies, with its own capabilities announced (`Grounded`).

### The front panel

The second half of `Process_proofs` assumes `PanelBounds`. `LineInv` speaks of the queue that tasks and kernel edges make
together (`Waiting`): every press in it is followed by its own release (`Paired`), a press that is down is
answered by its head (`Oldest`), the last press is the finger's (`Newest`). A callback takes the head, so an
event is computed from two edges of one press. `PanelInv` has what the panel last drew (`Lit`, `Drawn`) and
the panel's fields against the manager and the errors still in its inbox (`Follows`).

### The tools

`Evidence_proofs` assumes `SessionBounds` and `LedgerBounds` (the bounds are naturals, the heard cases finitely many,
more than one case is aggregated), `SessionKinds` (each kind has a plan) and `LedgerUnits` (a test is of one kind).

The invariant of a session says whose the children are (`ChildrenInv`: every one belongs to an owner that was
started, and what lives is attached unless it could not be killed), that the loop over the owners has asked each or still
has it before it (`StopsInv`), that what the cleanup looks at covers what lives (`HeldInv`), and how far a wake path
has come (`PathInv`). What a session may rely on depends on the steps already taken, so those parts speak of `Done`,
the steps before the present one; that a plan has its steps in the order that they need (`ListensLast`, `HoldsAll`,
`Placed`) is a lemma over the fifteen plans, and the actions are then never looked at plan by plan.
`EarlyIsCaught` needs of each barrier that a product which listened before it was active when it was stamped.

`SoundIsAccepted` is the converse, and needs an invariant of three more parts. `SoundInv`: while nothing has failed,
every child is alive from its owner's start on (`Manned`), so no operation fails, and the cleanup finds what it looks
for. `PathSound`: no step of the harness refuses a product without a defect (`NotRefused`), because such a product
listens only once both barriers were passed. `LogInv`: the points sampled so far are in the order `derive_thresholds`
wants, for every number of turns. It has how a log begins and ends (`LogEnds`), that turns ascend, replacements are
paired and each turn's window is empty, generated or spoken (`LogOrder`), and what it has met by this step of the plan
(`LogMeets`). `MeasuredMoves` reduces the actions to the labels each adds, and one lemma per operation says what its
points do to the parts; `LogAccepted` is the end of it.

The invariant of the ledger, `LInv`, relates what was said to what stands. `FilesInv`: an aggregate names
partitions of its cases (`RowsOf`), a catalog says of a part what that part was when it was written (`CatalogOf`),
a heard case is judged once, and what its card says was said unless the card was edited (`VerdictOf`). `HeardInv`: each saying was about a file that is
there, recorded, and of the contents shown. `ReviewsInv`: a record of a review is of one file, and there is
one for each digest. `DesignatedInv`: what is designated is there. `JudgedIsFinal` follows because files are only ever
added, marked as edited or torn, so a digest that still fits names the very contents that were judged; an aggregate
has the digest of its rows, so the same cases aggregated twice are one digest: it needs `ReviewsInv`'s second clause.
The verdict on the semantic test folds over its cases in some order; `ListenedIs` gets its value from
`SetInduction` again, for every finite set of them.

### Only model-checked

Liveness, which is out of the prover's reach: `ReadIsServed`, `ConvergenceEnds`, `WakeMovesOn`,
`ConvergenceStops`, `ThinkEnds`, `RequestEnds`, `PerceiveEnds`, `MainEnds`, `AbortedEnds`.

## 7. Where the code and the documents differ

One has a run, whose property, quoted from a document, TLC refutes; `PROJECT.json` quotes both sides:

* `wake_microphone` (`OneMicOwner`): `_enter_wake` suspends the wake listener for a button and a voice
  wake only (`manager.py:570-580`). A session that a message begins never does, and its next turn
  listens: two owners of the microphone. ch04:421 has the suspend for every source, and ch04:117 forbids
  listening without the proof of release. One message and no fault are enough.

The others were met while modelling; each is the shortest scenario the model gave, and the properties
of section 5 are stated so that they hold beside them.

State Manager and convergence:

* the signal of a message that an interrupt discarded makes `assign_to_session` raise, which nobody
  catches: the dispatch loop ends (`manager.py:329`; ch07:223 calls it a stale input, no ERROR);
* a second message during WAKE of a reading session is assigned to turn 0 (`manager.py:324`), which
  has no window yet; the buffer refuses and the loop ends (`Raise("ownership")`; ch04:430 says assign
  or mark pending);
* a shutdown while the convergence waits for its CLOSE: the CLOSE is aborted and its notice dropped
  (`manager.py:445-449`) without leaving phase `conversation_close`, and the loop never stops
  (`manager.py:1032`; ch04:584-586 and :676);
* a shutdown during a read discards the windows (`manager.py:1092`) and then closes the read of that
  window (1073): the buffer raises and the loop ends with an error (ch04:576);
* a shutdown in ACTION while the conversation is being replaced clears the session, and
  `_try_progress`, called after the same item, fails its assertion (`manager.py:863`; `ProgressStop`
  raises), where ch04:584 has an orderly stop;
* a child that dies in OPEN is destroyed by an error that is no `ComponentSystemFault`, so the
  convergence has nothing to report, nothing rebuilds it, and every later OPEN fails
  (`convergence.py:304`; ch_m4b:380 says ERROR with Level 1/2/3);
* an interrupt between the end of OPEN and its notice drops the proven record (`manager.py:972`) while
  `conversation_state` is still "opening": no CLOSE is started and the conversation stays open in IDLE
  (ch04:512);
* a second trigger during a rest does not turn `flush_to_wake` into `discard` unless it is a shutdown
  (`manager.py:958-968`; ch04:552 says discard wins), see `ConvergeAgain`;
* two errors while the notice of a failed ASR is being spoken ask for two recoveries, the second is
  refused (`resource_manager/manager.py:436`) and ends the process (`Raise("rejected")`), where
  ch04:646 says further errors are absorbed;
* a crash or interrupt before the CLOSE of a session whose admission was denied ends the process with
  `PLANNED_RECOVERY_PROOF` (`Raise("unproven")`; `adapter.py:739`); the documents are silent about it.

Streamed speech:

* a press while an adopted streamed speech is synthesized: the child answers CANCELLED, `wait()` in
  `streamed_body` (`speaker.py:61`) lets `AdapterRejected` out, and the manager takes a worker that
  raised outside ERROR for a contract violation (test_spec_M4C.md:142, C15; the one-shot path,
  `speaker.py:98-100`, catches it);
* `fail()` kills the speech task before it asks the child to stop (`streaming.py:202-205`): the child
  stays BUSY without a reader and `fail()` returns only at the timeout of the reasoner. The comment in
  `cancel()` (`streaming.py:171-172`) says why the order must be the other one;
* an interrupt handled after the reasoner's task ended and before its notice: `converge()` skips a task
  that is done (`convergence.py:180-185`), its provisional speech is spoken to the end, waits for an
  adoption for ever, and `begin_streaming` of every later turn raises (test_spec_M4C.md:141, C14);
* a fault of the reasoner declares the LLM backend only, but its `force_abort` also reports the TTS
  when a provisional speech exists (`reasoner.py:603`): the reports differ and the convergence ends
  the program (`convergence.py:229`; `Checked`). The timeout of the reasoner, or of level 1, with a
  speech in progress is enough;
* a TTS fault handled while the convergence of the same error has destroyed the LLM declares a key
  that is not among the destroyed ones (`manager.py:986`; the death in `ConvergenceEnds`);
* a reusable fault of the reasoner that is raised, but not published because an interrupt arrived,
  is a contract violation outside ERROR (`manager.py:414`; `Concludes`).

The children:

* a CANCEL that crosses the terminal in the pipes: `abort()` returns with the engine kept, and the child
  refuses the CANCEL as its next command and exits with 2 (`adapter.py:780`,
  `llm_child_protocol.py:147`, `worker.py:906-914`), though nothing failed (ch02:88); the ASR child
  has the same race with RESULT and NO_SPEECH and exits with 3;
* `abort()` of the ASR adapter waits for `_request_ready` without a bound (`adapter.py:426-431`); a
  capture that fails in the tick of the deadline leaves nobody to set it (`LostRequest`;
  ch_m4a:118 rules out an unbounded wait);
* `force_abort()` of the ASR adapter between the destruction of the child and its flag reports nothing,
  and the convergence ends in `fault_recovery_key_mismatch`, against the comment at `adapter.py:451-452`;
* a level-1 abort that overlaps a protocol failure loses its fault; the destruction is reported by the
  next forced abort, which is what `NoForgottenDestruction` says.

Supervision:

* a backend whose child died under its own adapter (`whispercpp/adapter.py:444-458`) stays started and announced, and
  the barrier up, until a forced abort reports it, which may be in a later session: `BarrierHonest` accounts
  for it (`dead`) instead of excluding it;
* sources are armed before the start is complete, so a session can begin during it; a recovery is then
  refused, and a rollback stops the workers under a running session (`sm.stop()` refuses, main logs it);
* a long press during the start makes `set_external_message_control` or `set_wake_listener` raise: the
  start is rolled back and the exit code is 3;
* a `TerminationProofError` among the rollback's failures is not looked at, exit 3 instead of 4; a failure of
  main's own `prepare_shutdown` is only logged;
* `_run_recovery` catches `Exception` only, so a cancelled batch leaves the barrier down, which is harmless
  as only a shutdown cancels it;
* `speak` keeps the real audio output after the fallback to null (`m2_composition.py:346`; ch05:19 and
  366-368).

Tools (test_spec_M4B.md, 2.5):

* `finalize` without a current aggregate merges case cards whose assertions share names and raises
  `M4B_PV_RESULT_CARD_INVALID` (`Raises`);
* `_write_json` (443-454) fills a file that already has its final name, and `_public_result_cards` (3272-3282)
  parses every result card before it looks whose it is. One command killed inside its write makes the selection
  of every test fail, and all that was judged is Incomplete until the file is removed by hand, where :56-58 and
  :82-83 of the specification promise independent outcomes and that a failed item reruns by itself. In the model it takes four
  steps: run a test, review it, die in another command, finalize. `JudgedIsFinal` therefore asks that every file
  its selection reads is whole (`Legible`, in `Stands`);
* `finalize` takes the verdict of a semantic case from its public card (3974-3991) and compares only the captures
  with their digests: a card edited from Fail to Pass gives Pass without having been heard so. A designation of
  the case, which has the card's digest, is what notices it; `FinalPassIsEarned` names the exception
  (`TakenAsWritten`);
* a torn private capture of one case makes all cases of its test Incomplete (`_case_private_partition`,
  3413-3424, parses all of them), and a designation killed between its directory and its file (3364-3377) takes
  the unit's selection until it is designated again (3305-3308): `Stands` leaves both out;
* a Fail of one heard case is overwritten by Incomplete when a later case's capture is stale (`AfterCase`);
* aggregating the same cases again gives an identical card, whose review counts as recorded but is bound to the
  other locator: Incomplete until something is rerun;
* a review whose public status was not written cannot be recorded again;
* sessions that catch `Exception` only stop no further owner when a Ctrl-C arrives during the cleanup, and
  the 10 s timeout of the harness's cleanup cuts the stops short: `NothingSurvives` excepts both
  (`asked # StartedOwners`, `~clean`).

The causes `rejected`, `unproven`, `level3`, `recovery`, `microphone` are ways for the process to end
that the code chooses (main exits and the service is restarted); `contract` and `invariant` are its
own checks and never happen in `StateManager` (`ChecksHold`), whose workers raise only what they have
published, as the one-shot speech does. That is a statement about the manager among such workers and not about
the product: `StreamingSpeak` shows the worker that breaks this (`speaker.py:61`), and the list above two more; `ownership`,
`not_found` and `assertion` are the cases above.

## 8. What is not modelled, and the plan

Not modelled: device I/O (audio output, camera, the display driver's bytes), configuration, logging, file
hashes, the loaders of the model package and the packaging scripts (`candidate_gate.py`,
`alpha_product.py`, `m4b_llm_product.py`, `m4a_audio_product.py`): sequential programs that compute a
manifest from files or refuse, and keep no state between calls. Left out of `StateManager`: the wiring
calls made before `run`, and a device without a wake listener (the port is optional; without it
`OneMicOwner` is void). Left out of `LLMChild`: the adapter's measurement mode and its fault injector.
Left out of `EvidenceSession`: the harness's recorder and the numbers it measures. The recording of a turn
into text, the parsing of an answer and the layout of the panel are data.

What would come next:

1. Proofs. Beyond safety, the ranking arguments behind the liveness properties, as action
   properties: what each timeout, kill and stop makes smaller.
2. `StreamingSpeak` wants its abstract specification: a speech that is spoken at most once, in
   order, with one completion at most, which `SpokenAsAdmitted` already states; `ListenChild` and
   `LLMChild` one in common: a request with one terminal, on an engine that is rebuilt after it died.
3. The converger with several targets step by step; the refinement target is the choice `Endured` of
   `StateManager`.
