---------------------------- MODULE StateManager ----------------------------
(***************************************************************************)
(* The State Manager (core/state_manager/manager.py): one inbox, one       *)
(* dispatch task, which takes an item, handles it and then tries to make   *)
(* progress.  Composed with what it drives: the worker tasks               *)
(* (core/worker_runtime.py), the converger that aborts them                *)
(* (core/state_manager/convergence.py), the backend conversation of the    *)
(* LLM adapter (cognition/litert_lm/adapter.py), the recovery half of the  *)
(* ResourceManager, the wake listener and the external-message buffer.     *)
(*                                                                         *)
(* A handler is a run of steps, flow.at naming the method about to run.    *)
(* Only the manager changes its own state, and while a handler is suspended*)
(* the others can only append to the inbox and end tasks, which is the same*)
(* as doing so before it began or after it ended, so they take steps when  *)
(* the dispatch loop is at inbox.get(); what the tasks do while converge() *)
(* waits for them is the outcome chosen in its step.                       *)
(***************************************************************************)
EXTENDS ExternalMessageOps, Sequences

CONSTANTS MaxGeneration,   \* bound: conversations opened by one session
          Scenarios        \* what the reasoner is and may answer, and the bounds of
                           \* the inputs and faults; a behaviour is of one of them

Kinds == {"listen", "read", "speak", "rest", "reasoner", "conversation"}
PerceptionKinds == {"listen", "read"}
ActionKinds == {"speak", "rest"}
Routes == {"KEEP_NEXT", "REPLACE_NEXT", "END_SESSION"}
Response == [kind : ActionKinds, route : Routes, next : SUBSET PerceptionKinds]
Inputs == {"button", "wake", "interrupt", "shutdown", "failed", "error", "fault",
           "crash", "reject", "deny", "destroy", "lost", "unrecovered", "mic"}

\* answers: of the reasoner.  product: it is the real one (_product).  budget: how
\* often each input and fault happens.  messages: how many the source takes.
ASSUME ManagerAssumption ==
    /\ MaxGeneration \in Nat \ {0} /\ MaxTurn > 0
    /\ \A s \in Scenarios : /\ s.answers \subseteq Response /\ s.product \in BOOLEAN
                            /\ s.budget \in [Inputs -> Nat]
                            /\ s.messages \in 0 .. MaxMessages
    /\ NoSession = 0 /\ Sessions = 1 .. Cardinality(Sessions)

VARIABLES state,      \* _state
          session,    \* _session, or NoContext
          pending,    \* _pending, or NotPending
          inflight,   \* _in_flight: a set of records with distinct cids
          cids,       \* _correlation_counter
          inbox,      \* _inbox
          flow,       \* where the dispatch task is
          timer,      \* the session _wake_timer is for, or 0
          readOpen,   \* the turn of _read_open, or 0
          faultKeys,  \* _fault_recovery_keys
          asrNotice,  \* _asr_notice_requested
          shutting,   \* _shutting_down
          waiter,     \* the number of _recovery_waiter, or 0
          begun,      \* sessions begun (new_session_id)
          buf,        \* the external-message buffer
          accepted,   \* messages ever accepted by the buffer
          engine,     \* the LLM adapter: its child and its conversation
          rm,         \* ResourceManager: the keys in recovery, tickets issued
          mic,        \* the wake listener and the manager's view of it
          scenario,   \* the member of Scenarios this behaviour is of
          budget      \* inputs and faults still to come

manager == <<state, session, pending>>
tasks == <<inflight, cids>>
flags == <<timer, readOpen, faultKeys, asrNotice, shutting, waiter, begun, scenario>>
world == <<buf, accepted, engine, rm, mic, budget>>
vars == <<manager, tasks, inbox, flow, flags, world>>

-----------------------------------------------------------------------------
\* Data.
NoResponse == [kind |-> "none", route |-> "none", next |-> {}]
NoContext == [id |-> 0, turn |-> 0, sel |-> {}, results |-> {}, resp |-> NoResponse,
              done |-> "none", gen |-> 0, conv |-> "none", ack |-> FALSE,
              blocked |-> TRUE, route |-> "none", next |-> {}, aphase |-> "none",
              streak |-> 0]
NotPending == [trigger |-> "none", policy |-> "none", ticket |-> 0, phase |-> "none",
               proof |-> FALSE, planned |-> FALSE, asr |-> FALSE, noticed |-> FALSE]
NoConversation == <<0, 0>>
Ours == <<session.id, session.gen>>
Converging == pending # NotPending

\* InFlightRecord.  task is what a look at the asyncio task shows: "running",
\* "published" (its fact is out), or how it ended.
Record(cid, phase, kind) ==
    [cid |-> cid, phase |-> phase, kind |-> kind, sid |-> session.id,
     turn |-> session.turn, task |-> "running", fact |-> FALSE, cancel |-> FALSE,
     proven |-> FALSE]
Private(r) == r.phase \in {"open", "close"}
Active(r) == r.task \in {"running", "published"}
StateOf(phase) == CASE phase = "perception" -> "PERCEPTION" [] phase = "think" -> "THINK"
                    [] phase \in {"action_primary", "action_rest"} -> "ACTION"
                    [] phase = "error_notice" -> "ERROR" [] OTHER -> "none"

\* The recovery key of the backend a kind of work uses.
Key(r) == CASE r.kind \in {"reasoner", "conversation"} -> {"llm"}
            [] r.kind = "listen" -> {"asr"} [] r.kind = "speak" -> {"tts"}
            [] OTHER -> {}

Has(cid) == \E r \in inflight : r.cid = cid
The(cid) == CHOOSE r \in inflight : r.cid = cid
Update(r, s) == (inflight \ {r}) \cup {s}

Signal(type) == [type |-> type]
MessageArrived(m) == [type |-> "message", id |-> m]
Fact(r, v) == [type |-> "fact", cid |-> r.cid, value |-> v]
Completed(r) == [type |-> IF Private(r) THEN "lifecycle" ELSE "done", cid |-> r.cid]
ErrorOccurred(ks, asr) == [type |-> "error", keys |-> ks, asr |-> asr]

\* A finite set of numbers in increasing order.  (SetToSortSeq of SequencesExt gives the
\* same sequence; of this one the provers can tell the domain and the elements.)
InOrder(S) == [i \in 1 .. Cardinality(S) |->
                  CHOOSE x \in S : Cardinality({y \in S : y < x}) = i - 1]

\* The completions of a set of tasks, and the signals of a set of messages, in order.
Completions(R) == LET order == InOrder({r.cid : r \in R})
                  IN [i \in DOMAIN order |-> Completed(The(order[i]))]
SignalsFirst(S) == IF S = {} THEN <<>> ELSE <<MessageArrived(Oldest(S))>>  \* mutant
Signals(S) == LET order == InOrder(S)
              IN [i \in DOMAIN order |-> MessageArrived(order[i])]

Init ==
    /\ state = "IDLE" /\ session = NoContext /\ pending = NotPending
    /\ inflight = {} /\ cids = 0
    /\ inbox = <<>> /\ flow = [at |-> "receive", why |-> "none", back |-> "none"]
    /\ timer = 0 /\ readOpen = 0 /\ faultKeys = {} /\ asrNotice = FALSE
    /\ shutting = FALSE /\ waiter = 0 /\ begun = 0
    /\ buf = EmptyBuffer /\ accepted = 0
    /\ engine = [alive |-> TRUE, conv |-> NoConversation, recycle |-> FALSE]
    /\ rm = [keys |-> {}, ticket |-> 0, ready |-> TRUE]
    /\ mic = [held |-> TRUE, released |-> FALSE, failed |-> FALSE]
    /\ scenario \in Scenarios /\ budget = scenario.budget

\* Control: where a method returns to, what it calls, how it raises.
Back == CASE flow.at = "receive" -> "progress" [] flow.at = "progress" -> "receive"
          [] OTHER -> flow.back
Call(method, why) == flow' = [at |-> method, why |-> why, back |-> Back]
Return == flow' = [at |-> Back, why |-> "none", back |-> "none"]
Raise(cause) == /\ flow' = [at |-> "dead", why |-> cause, back |-> "none"]
                /\ UNCHANGED <<manager, tasks, flags, world>>

Receive(type) == /\ flow.at = "receive" /\ inbox # <<>> /\ Head(inbox).type = type
                 /\ inbox' = Tail(inbox)
Entry == Head(inbox)
Spend(input) == /\ budget[input] > 0
                /\ budget' = [budget EXCEPT ![input] = @ - 1]

\* _start_worker and _start_conversation_open/close: one more record.
Launch(rest, phase, kind) == /\ inflight' = rest \cup {Record(cids + 1, phase, kind)}
                             /\ cids' = cids + 1
Clash(rest) == \E r \in rest : Private(r)

-----------------------------------------------------------------------------
\* Items that change nothing: not allowed in this state (guards.py), stale,
\* duplicate, or beyond the bound on sessions.
Ignored(i) ==
    CASE i.type = "button" -> \/ shutting \/ (state = "ERROR" /\ Converging)
                              \/ (state = "IDLE" /\ begun + 1 \notin Sessions)
      [] i.type = "wake" -> state # "IDLE" \/ shutting \/ begun + 1 \notin Sessions
      [] i.type = "message" -> \/ state = "ERROR" \/ shutting
                               \/ (state = "IDLE" /\ begun + 1 \notin Sessions)
      [] i.type = "interrupt" -> state \in {"IDLE", "ERROR"}
      [] i.type = "shutdown" -> shutting
      [] i.type = "ack" -> state # "WAKE" \/ i.id # session.id
      [] i.type = "fact" -> \/ ~Has(i.cid)
                            \/ /\ Has(i.cid)
                               /\ \/ StateOf(The(i.cid).phase) # state
                                  \/ The(i.cid).fact
                                  \/ The(i.cid).sid # session.id
                                  \/ The(i.cid).turn # session.turn
      [] i.type \in {"done", "lifecycle"} -> ~Has(i.cid)
      [] i.type = "recovered" -> \/ ~Converging \/ state # "ERROR"
                                 \/ pending.ticket # i.waiter \/ waiter # i.waiter
      [] i.type = "planned" -> ~Converging \/ ~pending.planned \/ waiter # i.waiter
      [] OTHER -> FALSE

IgnoreItem ==
    /\ flow.at = "receive" /\ inbox # <<>> /\ Ignored(Entry)
    /\ inbox' = Tail(inbox) /\ Return
    /\ UNCHANGED <<manager, tasks, flags, world>>

\* _enter_wake: a new session, its conversation and its wake timer.
BeginSession(selected) ==
    LET id == begun + 1
        new == [NoContext EXCEPT !.id = id, !.gen = 1, !.conv = "opening",
                                 !.sel = selected]
    IN /\ session' = new /\ begun' = id /\ timer' = id /\ state' = "WAKE" /\ UNCHANGED scenario
       /\ inflight' = inflight \cup
             {[Record(cids + 1, "open", "conversation") EXCEPT !.sid = id, !.turn = 0]}
       /\ cids' = cids + 1
       /\ pending' = NotPending /\ Return
       /\ UNCHANGED <<readOpen, faultKeys, asrNotice, shutting, waiter>>

\* _suspend_wake, when it does not fail.
Suspended == IF mic.released THEN mic
             ELSE [mic EXCEPT !.held = FALSE, !.released = TRUE]

\* A wake by button or by voice; the wake listener must give up the microphone.
HandleWake ==
    /\ Receive("button") \/ Receive("wake")
    /\ ~Ignored(Entry) /\ state \in {"IDLE", "ERROR"}
    /\ \/ /\ BeginSession({"listen"})
          /\ mic' = Suspended
          /\ UNCHANGED <<buf, accepted, engine, rm, budget>>
       \/ ~mic.released /\ budget["mic"] > 0 /\ Raise("microphone")

\* ExternalMessageNotFound, or ExternalMessageOwnershipError.
Refused(m) == IF m \in Present(buf) THEN "ownership" ELSE "not_found"

\* A message wakes the device, or is given to the session there is.
HandleMessage ==
    LET m == Entry.id IN
    /\ Receive("message") /\ ~Ignored(Entry)
    /\ IF state = "IDLE"
       THEN IF CanAssignToSession(buf, m, begun + 1)
            THEN /\ buf' = AssignToSession(buf, m, begun + 1)
                 /\ BeginSession({"read"})
                 /\ UNCHANGED <<accepted, engine, rm, mic, budget>>
            ELSE Raise(Refused(m))
       ELSE /\ IF "read" \in session.sel
               THEN /\ CanAssignToTurn(buf, m, session.id, session.turn)
                    /\ buf' = AssignToTurn(buf, m, session.id, session.turn)
               ELSE /\ CanMarkPending(buf, m, session.id)
                    /\ buf' = MarkPending(buf, m, session.id)
            /\ Return
            /\ UNCHANGED <<manager, tasks, flags, accepted, engine, rm, mic, budget>>

\* ... and an id the buffer refuses ends the dispatch loop.
HandleUnknownMessage ==
    LET m == Entry.id IN
    /\ Receive("message") /\ ~Ignored(Entry) /\ state # "IDLE"
    /\ IF "read" \in session.sel THEN ~CanAssignToTurn(buf, m, session.id, session.turn)
                                 ELSE ~CanMarkPending(buf, m, session.id)
    /\ Raise(Refused(m))

HandleInterrupt ==
    /\ Receive("interrupt") \/ (Receive("button") /\ state \notin {"IDLE", "ERROR"})
    /\ ~Ignored(Entry)
    /\ Call("converge", "interrupt")
    /\ UNCHANGED <<manager, tasks, flags, world>>

HandleAck ==
    /\ Receive("ack") /\ ~Ignored(Entry)
    /\ session' = [session EXCEPT !.ack = TRUE]
    /\ Return
    /\ UNCHANGED <<state, pending, tasks, flags, world>>

\* _handle_fact.
HandleFact ==
    LET r == The(Entry.cid) IN
    /\ Receive("fact") /\ ~Ignored(Entry)
    /\ inflight' = Update(r, [r EXCEPT !.fact = TRUE])
    /\ session' = CASE r.phase = "perception" ->
                         [session EXCEPT !.results = @ \cup {<<r.kind, Entry.value>>}]
                    [] r.phase = "think" -> [session EXCEPT !.resp = Entry.value]
                    [] r.phase = "error_notice" -> session
                    [] OTHER -> [session EXCEPT !.done = Entry.value]
    /\ Return
    /\ UNCHANGED <<state, pending, cids, flags, world>>

\* _handle_task_completed.
HandleDone ==
    LET r == The(Entry.cid) IN
    /\ Receive("done") /\ ~Ignored(Entry)
    /\ IF r.task \in {"raised", "fault"} /\ (r.fact \/ state # "ERROR")
       THEN Raise("contract")
       ELSE IF r.task = "returned" /\ ~r.fact /\ ~r.cancel
       THEN Raise("invariant")
       ELSE /\ inflight' = inflight \ {r}
            /\ Return
            /\ UNCHANGED <<manager, cids, flags, world>>

\* _handle_lifecycle_completed.
NextConversationReused(rest, ctx) ==            \* mutant: opens no other conversation
    /\ inflight' = rest /\ session' = [ctx EXCEPT !.conv = "ready", !.blocked = FALSE]
    /\ Return
    /\ UNCHANGED <<state, pending, cids, flags, world>>
NextConversation(rest, ctx) ==
    IF Clash(rest) THEN Raise("invariant")
    ELSE /\ session' = [ctx EXCEPT !.gen = @ + 1, !.conv = "opening", !.blocked = TRUE]
         /\ Launch(rest, "open", "conversation")
         /\ Return
         /\ UNCHANGED <<state, pending, flags, world>>

OpenedBlocked == [session EXCEPT !.conv = "ready"]            \* mutant: stays blocked
Opened == [session EXCEPT !.conv = "ready", !.blocked = FALSE]

HandleOpened ==
    LET r == The(Entry.cid) IN
    /\ Receive("lifecycle") /\ ~Ignored(Entry) /\ r.task = "ready"
    /\ inflight' = inflight \ {r}
    /\ session' = Opened
    /\ Return
    /\ UNCHANGED <<state, pending, cids, flags, world>>

HandleRejected ==
    LET r == The(Entry.cid) IN
    /\ Receive("lifecycle") /\ ~Ignored(Entry) /\ r.task = "rejected"
    /\ IF Converging
       THEN /\ Call("e1", "none")
            /\ UNCHANGED <<manager, tasks, flags, world>>
       ELSE NextConversation(inflight \ {r}, session)

ProvedInPhase == [pending EXCEPT !.proof = TRUE]      \* mutant: the phase stays
Proved == [pending EXCEPT !.proof = TRUE, !.phase = "recovery"]

HandleClosed ==
    LET r == The(Entry.cid)
        rest == inflight \ {r}
        closed == [session EXCEPT !.conv = "none"]
    IN
    /\ Receive("lifecycle") /\ ~Ignored(Entry) /\ r.task = "closed"
    /\ IF ~Converging /\ session.route = "REPLACE_NEXT"
       THEN NextConversation(rest, closed)
       ELSE /\ inflight' = rest
            /\ session' = closed
            /\ pending' = IF Converging THEN Proved ELSE pending
            /\ Return
            /\ UNCHANGED <<state, cids, flags, world>>

HandleLifecycleFailed ==
    LET r == The(Entry.cid) IN
    /\ Receive("lifecycle") /\ ~Ignored(Entry)
    /\ r.task \in {"raised", "fault", "cancelled"}
    /\ IF r.cancel /\ r.proven
       THEN inflight' = inflight \ {r} /\ Return
       ELSE Call("e1", "none") /\ UNCHANGED inflight
    /\ UNCHANGED <<manager, cids, flags, world>>

HandleRecovered ==
    /\ Receive("recovered") /\ ~Ignored(Entry)
    /\ IF Entry.how # "ok" THEN Raise("recovery")
       ELSE /\ pending' = [pending EXCEPT !.ticket = 0]
            /\ waiter' = 0
            /\ Return
            /\ UNCHANGED <<state, session, tasks, timer, readOpen, faultKeys, asrNotice,
                           shutting, begun, scenario, world>>

HandlePlannedRecovery ==
    /\ Receive("planned") /\ ~Ignored(Entry)
    /\ IF Entry.how = "failed" \/ (Entry.how = "cancelled" /\ pending.trigger # "shutdown")
       THEN Raise("recovery")
       ELSE /\ waiter' = 0
            /\ Return
            /\ UNCHANGED <<manager, tasks, timer, readOpen, faultKeys, asrNotice,
                           shutting, begun, scenario, world>>

HandleError ==
    /\ Receive("error")
    /\ IF state = "ERROR"
       THEN /\ pending' = IF Converging THEN [pending EXCEPT !.policy = "discard"]
                          ELSE pending
            /\ IF Converging /\ \E r \in inflight : r.phase = "error_notice"
               THEN Call("e1", "none") ELSE Return
            /\ UNCHANGED <<state, faultKeys, asrNotice>>
       ELSE /\ asrNotice' = Entry.asr
            /\ faultKeys' = IF Entry.keys # {} THEN Entry.keys ELSE faultKeys
            /\ state' = "ERROR"
            /\ Call("converge", "error")
            /\ UNCHANGED pending
    /\ UNCHANGED <<session, tasks, timer, readOpen, shutting, waiter, begun, scenario, world>>

\* _begin_shutdown: the buffer is emptied, the recovery under way is cancelled
\* (prepare_shutdown), and the session converges.
HandleShutdown ==
    /\ flow.at = "receive" /\ inbox # <<>> /\ Entry.type = "shutdown" /\ ~Ignored(Entry)
    /\ shutting' = TRUE /\ timer' = 0
    /\ buf' = EmptyBuffer
    /\ IF rm.keys = {}
       THEN inbox' = Tail(inbox) /\ UNCHANGED <<engine, rm>>
       ELSE /\ inbox' = Append(Tail(inbox),
                    [type |-> IF pending.planned THEN "planned" ELSE "recovered",
                     waiter |-> rm.ticket, how |-> "cancelled"])
            /\ rm' = [rm EXCEPT !.keys = {}, !.ready = FALSE]
            /\ engine' = IF "llm" \in rm.keys
                         THEN [engine EXCEPT !.alive = FALSE, !.conv = NoConversation]
                         ELSE engine
    /\ Call("converge", "shutdown")
    /\ UNCHANGED <<manager, tasks, readOpen, faultKeys, asrNotice, waiter, begun, scenario,
                   accepted, mic, budget>>

ShutdownCleanupFails ==
    /\ Receive("shutdown") /\ ~Ignored(Entry)
    /\ rm.keys # {} /\ budget["unrecovered"] > 0
    /\ Raise("recovery")

-----------------------------------------------------------------------------
\* _try_progress, after every item.
Progress == flow.at = "progress" /\ flow.why # "stop"
Heard == /\ state = "PERCEPTION"
         /\ Cardinality(session.results) = Cardinality(session.sel)
Replaced == /\ session.route = "REPLACE_NEXT" /\ session.conv = "ready"
            /\ ~session.blocked
MayPerceive == session.ack /\ session.conv = "ready" /\ ~session.blocked

ProgressConverging ==
    /\ Progress /\ Converging
    /\ Call("finish", "none")
    /\ UNCHANGED <<manager, tasks, inbox, flags, world>>

ProgressWaits ==
    /\ Progress /\ ~Converging
    /\ \/ inflight # {}
       \/ state \in {"IDLE", "ERROR"}
       \/ state = "WAKE" /\ ~MayPerceive
       \/ state = "PERCEPTION" /\ ~Heard
       \/ state = "THINK" /\ session.resp = NoResponse
       \/ state = "ACTION" /\ session.done = "none" /\ ~Replaced
    /\ Return
    /\ UNCHANGED <<manager, tasks, inbox, flags, world>>

MayProgress == Progress /\ ~Converging /\ inflight = {}

ProgressToPerception ==
    /\ MayProgress
    /\ \/ /\ state = "WAKE" /\ MayPerceive
          /\ UNCHANGED session
       \/ /\ state = "ACTION" /\ session.done = "none" /\ Replaced
          /\ session' = [session EXCEPT !.route = "none"]
    /\ state' = "PERCEPTION"
    /\ Call("perception", "none")
    /\ UNCHANGED <<pending, tasks, inbox, flags, world>>

\* _m4c_no_input_response: the product answers silence without the reasoner.
LocalAnswer(value, streak) ==
    IF value = "several" \/ streak = 0
    THEN [kind |-> "speak", route |-> "KEEP_NEXT", next |-> {"listen"}]
    ELSE [kind |-> "rest", route |-> "END_SESSION", next |-> {}]
Locally == /\ scenario.product /\ session.sel = {"listen"}
           /\ session.results \cap {<<"listen", "silent">>, <<"listen", "several">>} # {}

\* _close_read, for the read window of this turn.
CloseReadRaises == readOpen # 0 /\ ~CanCloseRead(buf, session.id, readOpen)
ReadClosed == IF readOpen = 0 THEN buf ELSE CloseRead(buf, session.id, readOpen)

ProgressHeard ==
    LET silent == <<"listen", "silent">> \in session.results
        answer == LocalAnswer(IF silent THEN "silent" ELSE "several", session.streak)
    IN
    /\ MayProgress /\ Heard /\ ~CloseReadRaises
    /\ buf' = ReadClosed /\ readOpen' = 0
    /\ IF Locally
       THEN /\ session' = [session EXCEPT !.resp = answer, !.route = answer.route,
                               !.next = answer.next,
                               !.streak = IF silent THEN @ + 1 ELSE @]
            /\ state' = "ACTION" /\ Call("action", "none")
       ELSE /\ session' = IF scenario.product /\ session.sel = {"listen"}
                          THEN [session EXCEPT !.streak = 0] ELSE session
            /\ state' = "THINK" /\ Call("think", "none")
    /\ UNCHANGED <<pending, tasks, inbox, timer, faultKeys, asrNotice, shutting, waiter,
                   begun, scenario, accepted, engine, rm, mic, budget>>

\* _validate_response.
Valid(resp) == IF resp.route = "END_SESSION" THEN TRUE
               ELSE resp.kind # "rest" /\ resp.next # {}

ProgressThought ==
    /\ MayProgress /\ state = "THINK" /\ session.resp # NoResponse
    /\ IF Valid(session.resp)
       THEN /\ session' = [session EXCEPT !.route = session.resp.route,
                               !.next = IF session.resp.route = "END_SESSION" THEN {}
                                        ELSE session.resp.next]
            /\ state' = "ACTION" /\ Call("action", "none")
       ELSE state' = "ERROR" /\ Call("converge", "error") /\ UNCHANGED session
    /\ UNCHANGED <<pending, tasks, inbox, flags, world>>

\* An action is over: the session rests, ends, replaces its conversation or goes on.
Acted == MayProgress /\ state = "ACTION" /\ session.done # "none"
Resting == session.aphase = "post_action_rest" \/ session.resp.kind = "rest"
AfterAction == [session EXCEPT !.done = "none", !.aphase = "none"]
Selected == IF session.done = "ok" THEN session.next ELSE {"listen"}

ProgressRest ==
    /\ Acted /\ Resting
    /\ session' = AfterAction
    /\ Call("converge", "rest")
    /\ UNCHANGED <<state, pending, tasks, inbox, flags, world>>

ProgressEnd ==
    /\ Acted /\ ~Resting /\ session.route = "END_SESSION"
    /\ session' = [AfterAction EXCEPT !.aphase = "post_action_rest",
                       !.resp = [kind |-> "rest", route |-> "END_SESSION", next |-> {}]]
    /\ Launch(inflight, "action_rest", "rest")
    /\ Return
    /\ UNCHANGED <<state, pending, inbox, flags, world>>

ProgressReplace ==
    /\ Acted /\ ~Resting /\ session.route = "REPLACE_NEXT"
    /\ session' = [AfterAction EXCEPT !.sel = Selected, !.blocked = TRUE,
                                      !.conv = "closing"]
    /\ Launch(inflight, "close", "conversation")
    /\ Return
    /\ UNCHANGED <<state, pending, inbox, flags, world>>

ProgressKeep ==
    /\ Acted /\ ~Resting /\ session.route = "KEEP_NEXT"
    /\ session' = [AfterAction EXCEPT !.sel = Selected]
    /\ state' = "PERCEPTION"
    /\ Call("perception", "none")
    /\ UNCHANGED <<pending, tasks, inbox, flags, world>>

\* The last item of a shutdown still runs _try_progress, on a session that is gone.
ProgressStop ==
    /\ flow.at = "progress" /\ flow.why = "stop"
    /\ IF state \in {"PERCEPTION", "ACTION"} THEN Raise("assertion")
       ELSE /\ flow' = [at |-> "stopped", why |-> "none", back |-> "none"]
            /\ UNCHANGED <<manager, tasks, flags, world>>
    /\ UNCHANGED inbox

\* _enter_perception.
SameTurn == session.turn                        \* mutant: the turn is not counted
NextTurn == session.turn + 1

EnterPerception ==
    LET turn == NextTurn
        ctx == [session EXCEPT !.turn = turn, !.results = {}, !.resp = NoResponse,
                               !.done = "none"]
        Start(kind, cid) == [Record(cid, "perception", kind) EXCEPT !.turn = turn]
    IN
    /\ flow.at = "perception"
    /\ session' = ctx /\ timer' = 0
    /\ IF "read" \in session.sel /\ ~CanBeginRead(buf, session.id, turn)
       THEN /\ state' = "ERROR" /\ Call("converge", "error")
            /\ UNCHANGED <<tasks, buf, readOpen>>
       ELSE /\ inflight' = inflight \cup
                   (IF session.sel = PerceptionKinds
                    THEN {Start("listen", cids + 1), Start("read", cids + 2)}
                    ELSE {Start(kind, cids + 1) : kind \in session.sel})
            /\ cids' = cids + Cardinality(session.sel)
            /\ IF "read" \in session.sel
               THEN buf' = BeginRead(buf, session.id, turn) /\ readOpen' = turn
               ELSE UNCHANGED <<buf, readOpen>>
            /\ Return /\ UNCHANGED state
    /\ UNCHANGED <<pending, inbox, faultKeys, asrNotice, shutting, waiter, begun, scenario,
                   accepted, engine, rm, mic, budget>>

\* _enter_think and _enter_action.
EnterThink ==
    /\ flow.at = "think"
    /\ IF session.conv # "ready" \/ session.blocked THEN Raise("invariant")
       ELSE /\ Launch(inflight, "think", "reasoner")
            /\ session' = IF scenario.product THEN [session EXCEPT !.results = {}] ELSE session
            /\ Return
            /\ UNCHANGED <<state, pending, flags, world>>
    /\ UNCHANGED inbox

EnterAction ==
    /\ flow.at = "action"
    /\ session' = [session EXCEPT !.aphase = "primary"]
    /\ Launch(inflight, "action_primary", session.resp.kind)
    /\ Return
    /\ UNCHANGED <<state, pending, inbox, flags, world>>

-----------------------------------------------------------------------------
\* DefaultSessionConverger.converge over _in_flight: the targets, and how each ends.
CanOpen == engine.alive /\ engine.conv = NoConversation /\ ~engine.recycle
CanClose == engine.alive /\ engine.conv = Ours
Targets == {r \in inflight : Active(r) \/ (Private(r) /\ ~r.proven) \/ r.task = "fault"}
Endings == {"aborted", "cancelled", "ready", "closed", "proven", "destroyed", "lost"}

\* abort() ends the task; or it, or the task, fails and force_abort() destroys the
\* backend; or that fails too.  An ended private task is proven by an abort() that
\* finds nothing to do, unless it failed with a fault that names its backend.
Ending(r) ==
    (IF r.task = "fault" THEN {"destroyed"}
     ELSE IF ~Active(r) THEN {"proven"}
     ELSE IF r.phase = "open" THEN IF CanOpen THEN {"cancelled", "ready", "destroyed"}
                                              ELSE {"destroyed"}
     ELSE IF r.phase = "close" THEN IF CanClose THEN {"closed", "destroyed"}
                                                ELSE {"destroyed"}
     ELSE IF Key(r) # {} THEN {"aborted", "destroyed"} ELSE {"aborted"})
    \cup (IF budget["lost"] > 0 THEN {"lost"} ELSE {})

\* The bound counts the backends destroyed although a gentler ending was possible.
Costs(r, ending) == /\ ending[r] = "destroyed" /\ r.phase # "close"
                    /\ Ending(r) \ {"lost"} # {"destroyed"}
Endured == {e \in [Targets -> Endings] :
                /\ \A r \in Targets : e[r] \in Ending(r)
                /\ Cardinality({r \in Targets : Costs(r, e)}) <= budget["destroy"]}
Spent(e) == [budget EXCEPT !["destroy"] = @ - Cardinality({r \in Targets : Costs(r, e)})]
Lost(e) == \E r \in Targets : e[r] = "lost"
Destroyed(e) == UNION {Key(r) : r \in {q \in Targets : e[q] = "destroyed"}}

TaskAfter(r, how) ==
    CASE how \in {"cancelled", "ready", "closed"} -> how
      [] how = "proven" \/ ~Active(r) -> r.task
      [] OTHER -> IF Private(r) THEN "raised" ELSE "returned"
Ended(r, e) ==
    IF r \in Targets
    THEN [r EXCEPT !.task = TaskAfter(r, e[r]), !.proven = @ \/ Private(r)] ELSE r
ConvergedUnmarked(r, e) == Ended(r, e)          \* mutant: cancel_requested is not set
Converged(r, e) == [Ended(r, e) EXCEPT !.cancel = TRUE]
RecordsAfter(e) == {Converged(r, e) : r \in inflight}
\* The records of lifecycle operations that are over and proven are dropped.
Kept(e) == {r \in RecordsAfter(e) : ~(Private(r) /\ ~Active(r) /\ r.proven)}
NewCompletionsPrivate(e) ==                     \* mutant: no notice from a worker
    Completions({r \in Targets : Active(r) /\ Private(r)})
NewCompletions(e) == Completions({r \in Targets : Active(r)})
ConversationAfter(e) ==
    IF "llm" \in Destroyed(e) THEN [engine EXCEPT !.alive = FALSE, !.conv = NoConversation]
    ELSE IF \E r \in Targets : e[r] = "ready" THEN [engine EXCEPT !.conv = Ours]
    ELSE IF \E r \in Targets : e[r] = "closed" THEN [engine EXCEPT !.conv = NoConversation]
    ELSE engine
\* A read that is aborted gives its messages back.
BufferAfter == IF \E r \in inflight : r.kind = "read" /\ r.task = "running"
               THEN RestoreAfterRead(buf, session.id, session.turn) ELSE buf

CanRecover == rm.ready /\ ~shutting
Recovery(keys) == [keys |-> keys, ticket |-> rm.ticket + 1, ready |-> FALSE]

\* _begin_convergence.
Converge(e) ==
    LET destroyed == Destroyed(e)
        declared == IF flow.why = "error" THEN faultKeys ELSE {}
        keys == destroyed \cup declared
        recover == keys # {} /\ flow.why # "shutdown"
    IN
    /\ flow.at = "converge" /\ ~Converging
    /\ IF Lost(e) THEN Raise("level3") /\ UNCHANGED inbox
       ELSE IF declared # {} /\ destroyed # {} /\ ~(declared \subseteq destroyed)
       THEN Raise("invariant") /\ UNCHANGED inbox
       ELSE IF recover /\ ~CanRecover THEN Raise("rejected") /\ UNCHANGED inbox
       ELSE /\ session' = IF session = NoContext THEN session
                          ELSE [session EXCEPT !.blocked = TRUE]
            /\ inflight' = Kept(e)
            /\ inbox' = inbox \o NewCompletions(e)
            /\ engine' = ConversationAfter(e) /\ buf' = BufferAfter
            /\ budget' = Spent(e)
            /\ pending' = [NotPending EXCEPT
                    !.trigger = flow.why,
                    !.policy = IF flow.why = "rest" THEN "flush_to_wake" ELSE "discard",
                    !.asr = flow.why = "error" /\ asrNotice,
                    !.ticket = IF recover THEN rm.ticket + 1 ELSE 0,
                    !.phase = IF recover /\ "llm" \in keys THEN "recovery" ELSE "workers"]
            /\ IF recover
               THEN rm' = Recovery(keys) /\ waiter' = rm.ticket + 1 /\ state' = "ERROR"
               ELSE UNCHANGED <<rm, waiter, state>>
            /\ timer' = 0 /\ asrNotice' = FALSE /\ faultKeys' = {}
            /\ Call("finish", "none")
            /\ UNCHANGED <<cids, readOpen, shutting, begun, scenario, accepted, mic>>

\* ... when one is already under way, only a shutdown changes it.
ConvergeAgain ==
    /\ flow.at = "converge" /\ Converging /\ flow.why # "shutdown"
    /\ session' = IF session = NoContext THEN session
                  ELSE [session EXCEPT !.blocked = TRUE]
    /\ timer' = 0
    /\ Return
    /\ UNCHANGED <<state, pending, tasks, inbox, readOpen, faultKeys, asrNotice, shutting,
                   waiter, begun, scenario, world>>

ConvergeToShutdown(e) ==
    /\ flow.at = "converge" /\ Converging /\ flow.why = "shutdown"
    /\ IF Lost(e) THEN Raise("level3") /\ UNCHANGED inbox
       ELSE /\ session' = IF session = NoContext THEN session
                          ELSE [session EXCEPT !.blocked = TRUE]
            /\ pending' = [pending EXCEPT !.trigger = "shutdown", !.policy = "discard",
                                          !.ticket = 0]
            /\ inflight' = RecordsAfter(e)
            /\ inbox' = inbox \o NewCompletions(e)
            /\ engine' = ConversationAfter(e) /\ buf' = BufferAfter
            /\ budget' = Spent(e)
            /\ timer' = 0
            /\ Return
            /\ UNCHANGED <<state, cids, readOpen, faultKeys, asrNotice, shutting, waiter,
                           begun, scenario, accepted, rm, mic>>

\* _lifecycle_e1: a lifecycle operation failed, outside a convergence or within one.
LifecycleError ==
    /\ flow.at = "e1" /\ ~Converging
    /\ IF state = "ERROR" THEN Return /\ UNCHANGED state
       ELSE state' = "ERROR" /\ Call("converge", "error")
    /\ UNCHANGED <<session, pending, tasks, inbox, flags, world>>

LifecycleErrorConverging(e) ==
    LET toShutdown == pending.trigger = "shutdown"
        recover == Destroyed(e) # {} /\ ~toShutdown
    IN
    /\ flow.at = "e1" /\ Converging
    /\ IF Lost(e) THEN Raise("level3") /\ UNCHANGED inbox
       ELSE IF recover /\ ~CanRecover THEN Raise("rejected") /\ UNCHANGED inbox
       ELSE /\ pending' = [pending EXCEPT
                    !.trigger = IF toShutdown THEN @ ELSE "error",
                    !.policy = IF toShutdown THEN @ ELSE "discard",
                    !.phase = "recovery",
                    !.ticket = IF recover THEN rm.ticket + 1 ELSE @]
            /\ inflight' = Kept(e)
            /\ inbox' = inbox \o NewCompletions(e)
            /\ engine' = ConversationAfter(e)
            /\ budget' = Spent(e)
            /\ IF recover THEN rm' = Recovery(Destroyed(e)) /\ waiter' = rm.ticket + 1
               ELSE UNCHANGED <<rm, waiter>>
            /\ IF state = "ERROR" THEN UNCHANGED <<state, session, timer>>
               ELSE /\ state' = "ERROR" /\ timer' = 0
                    /\ session' = [session EXCEPT !.blocked = TRUE]
            /\ Return
            /\ UNCHANGED <<cids, readOpen, faultKeys, asrNotice, shutting, begun, scenario, buf,
                           accepted, mic>>

-----------------------------------------------------------------------------
\* _finish_convergence_if_ready, its early returns and steps in order.
Finishing == flow.at = "finish"
FinishWaitsForRecovery == pending.ticket # 0 \/ (pending.planned /\ waiter # 0)  \* mutant
FinishWaitsForTasks == inflight # {}                                            \* mutant
FinishWaits == \/ inflight # {} \/ pending.ticket # 0
               \/ pending.planned /\ waiter # 0
MustClose == session.conv = "ready" /\ pending.phase = "workers"
MustRecycle == /\ pending.phase = "recovery" /\ pending.trigger # "shutdown"
               /\ ~pending.planned /\ engine.recycle
MustAnnounce == /\ pending.trigger = "error" /\ pending.asr /\ ~pending.noticed
                /\ session # NoContext
FinishReady == /\ Finishing /\ ~FinishWaits /\ ~MustClose
               /\ pending.phase # "conversation_close"
FinishLast == FinishReady /\ ~MustRecycle /\ ~MustAnnounce

FinishLater ==
    /\ Finishing
    /\ FinishWaits \/ (~MustClose /\ pending.phase = "conversation_close")
    /\ Return
    /\ UNCHANGED <<manager, tasks, inbox, flags, world>>

FinishClose ==
    /\ Finishing /\ ~FinishWaits /\ MustClose
    /\ pending' = [pending EXCEPT !.phase = "conversation_close"]
    /\ session' = [session EXCEPT !.conv = "closing", !.blocked = TRUE]
    /\ Launch(inflight, "close", "conversation")
    /\ Return
    /\ UNCHANGED <<state, inbox, flags, world>>

\* The recycling of the engine that the reasoner asked for (authorize_recovery).
FinishRecycle ==
    /\ FinishReady /\ MustRecycle
    /\ IF ~pending.proof THEN Raise("unproven") /\ UNCHANGED inbox
       ELSE IF ~CanRecover THEN Raise("rejected") /\ UNCHANGED inbox
       ELSE /\ pending' = [pending EXCEPT !.planned = TRUE]
            /\ rm' = Recovery({"llm"}) /\ waiter' = rm.ticket + 1
            /\ Return
            /\ UNCHANGED <<state, session, tasks, inbox, timer, readOpen, faultKeys,
                           asrNotice, shutting, begun, scenario, buf, accepted, engine, mic, budget>>

FinishAnnounce ==
    /\ FinishReady /\ ~MustRecycle /\ MustAnnounce
    /\ pending' = [pending EXCEPT !.noticed = TRUE]
    /\ Launch(inflight, "error_notice", "speak")
    /\ Return
    /\ UNCHANGED <<state, session, inbox, flags, world>>

FinishStop ==
    /\ FinishLast /\ pending.trigger = "shutdown"
    /\ IF CloseReadRaises THEN Raise("ownership")
       ELSE /\ buf' = ReadClosed /\ readOpen' = 0
            /\ session' = NoContext /\ pending' = NotPending
            /\ flow' = [at |-> IF Back = "progress" THEN "progress" ELSE "stopped",
                        why |-> "stop", back |-> "none"]
            /\ UNCHANGED <<state, tasks, timer, faultKeys, asrNotice, shutting, waiter,
                           begun, scenario, accepted, engine, rm, mic, budget>>
    /\ UNCHANGED inbox

\* _resume_wake, when it does not fail.
Resumed == [held |-> TRUE, released |-> FALSE, failed |-> FALSE]

\* Back to IDLE: the wake listener gets the microphone again (resume may fail for
\* good), and after a rest the messages that were not read are announced anew.
FinishIdle ==
    LET closed == ReadClosed
        kept == Present(closed)
    IN
    /\ FinishLast /\ pending.trigger # "shutdown"
    /\ IF CloseReadRaises THEN Raise("ownership") /\ UNCHANGED inbox
       ELSE /\ buf' = IF pending.policy = "discard" THEN EmptyBuffer ELSE Flush(closed)
            /\ inbox' = IF pending.policy = "discard" THEN inbox ELSE inbox \o Signals(kept)
            /\ readOpen' = 0 /\ timer' = 0
            /\ state' = "IDLE" /\ session' = NoContext /\ pending' = NotPending
            /\ \/ (mic.failed \/ shutting) /\ UNCHANGED <<mic, budget>>
               \/ /\ ~mic.failed /\ ~shutting
                  /\ mic' = Resumed
                  /\ UNCHANGED budget
               \/ /\ ~mic.failed /\ ~shutting
                  /\ Spend("mic") /\ mic' = [mic EXCEPT !.failed = TRUE]
            /\ Return
            /\ UNCHANGED <<tasks, faultKeys, asrNotice, shutting, waiter, begun, scenario, accepted,
                           engine, rm>>

-----------------------------------------------------------------------------
\* Everything else runs while the dispatch loop waits for an item.
Outside == flow.at = "receive"
Put(items) == inbox' = inbox \o items
Keep == UNCHANGED <<manager, cids, flow, readOpen, faultKeys, asrNotice, shutting,
                    waiter, begun, scenario>>

\* Signals; the wake listener hears nothing while it has no microphone.
Input(type) ==
    /\ Outside /\ Spend(type)
    /\ type = "wake" => mic.held
    /\ Put(<<IF type = "error" THEN ErrorOccurred({}, FALSE) ELSE Signal(type)>>)
    /\ Keep /\ UNCHANGED <<inflight, timer, buf, accepted, engine, rm, mic>>

\* ExternalMessageSource.ingest.
Ingest ==
    /\ Outside /\ accepted < scenario.messages /\ CanStore(buf)
    /\ accepted' = accepted + 1
    /\ buf' = Store(buf, accepted + 1)
    /\ Put(<<MessageArrived(accepted + 1)>>)
    /\ Keep /\ UNCHANGED <<inflight, timer, engine, rm, mic, budget>>

AckElapses ==
    /\ Outside /\ timer # 0
    /\ Put(<<[type |-> "ack", id |-> timer]>>)
    /\ timer' = 0
    /\ Keep /\ UNCHANGED <<inflight, buf, accepted, engine, rm, mic, budget>>

\* A worker publishes its fact.  Bounds: a session that has used its turns or its
\* conversations is not asked to go on.
MoreTurns == session.turn < MaxTurn
Admissible(resp) == /\ resp.route # "END_SESSION" => MoreTurns
                    /\ resp.route = "REPLACE_NEXT" => session.gen < MaxGeneration
Publish(r, value) ==
    /\ Outside /\ r.task = "running" /\ ~Private(r)
    /\ inflight' = Update(r, [r EXCEPT !.task = "published"])
    /\ Put(<<Fact(r, value)>>)
    /\ Keep /\ UNCHANGED <<timer, accepted, rm, mic>>

PublishHeard(r) ==
    /\ r.kind = "listen"
    /\ \/ Publish(r, "words")
       \/ scenario.product /\ MoreTurns /\ (Publish(r, "silent") \/ Publish(r, "several"))
    /\ UNCHANGED <<buf, engine, budget>>

\* consume_for_read takes the messages of the turn, or times out.
PublishRead(r) ==
    /\ r.kind = "read" /\ Publish(r, "text")
    /\ buf' = IF HasWindow(buf, r.sid, r.turn) /\ Matching(buf, r.sid, r.turn) # {}
              THEN Consume(buf, r.sid, r.turn) ELSE RestoreAfterRead(buf, r.sid, r.turn)
    /\ UNCHANGED <<engine, budget>>

\* The reasoner needs the conversation it was given; when memory is short it ends
\* the session and asks for a recycled engine.
PublishThought(r) ==
    /\ r.phase = "think" /\ engine.alive /\ engine.conv = Ours
    /\ \/ /\ \E resp \in scenario.answers : Admissible(resp) /\ Publish(r, resp)
          /\ UNCHANGED <<engine, budget>>
       \/ /\ Spend("deny")
          /\ Publish(r, [kind |-> "rest", route |-> "END_SESSION", next |-> {}])
          /\ engine' = [engine EXCEPT !.recycle = TRUE]
    /\ UNCHANGED buf

PublishDone(r) ==
    /\ r.phase \in {"action_primary", "action_rest", "error_notice"}
    /\ \/ Publish(r, "ok") /\ UNCHANGED budget
       \/ r.phase = "action_primary" /\ Spend("failed") /\ Publish(r, "error")
    /\ UNCHANGED <<buf, engine>>

ReturnWorker(r) ==
    /\ Outside /\ r.task = "published"
    /\ inflight' = Update(r, [r EXCEPT !.task = "returned"])
    /\ Put(<<Completed(r)>>)
    /\ Keep /\ UNCHANGED <<timer, world>>

\* A worker publishes ErrorOccurred, then raises: a fault that needs its backend
\* rebuilt (a reasoner destroys the engine first) or one that does not.
FaultWorker(r, keys) ==
    /\ Outside /\ r.task = "running" /\ ~Private(r)
    /\ IF r.phase = "think" /\ ~CanClose THEN keys = {"llm"} /\ UNCHANGED budget
                                         ELSE keys \in {{}, Key(r)} /\ Spend("fault")
    /\ inflight' = Update(r, [r EXCEPT !.task = IF keys = {} THEN "raised" ELSE "fault"])
    /\ Put(<<ErrorOccurred(keys, r.kind = "listen"), Completed(r)>>)
    /\ engine' = IF keys = {"llm"} THEN [engine EXCEPT !.alive = FALSE, !.conv = NoConversation]
                 ELSE engine
    /\ Keep /\ UNCHANGED <<timer, buf, accepted, rm, mic>>

\* The adapter's side of open_conversation and close_conversation.
EndLifecycle(r, how, eng) ==
    /\ Outside /\ r.task = "running"
    /\ inflight' = Update(r, [r EXCEPT !.task = how])
    /\ Put(<<Completed(r)>>)
    /\ engine' = eng
    /\ Keep /\ UNCHANGED <<timer, buf, accepted, rm, mic>>
Broken == [engine EXCEPT !.alive = FALSE, !.conv = NoConversation]

OpenEnds(r) ==
    /\ r.phase = "open"
    /\ \/ CanOpen /\ EndLifecycle(r, "ready", [engine EXCEPT !.conv = Ours]) /\ UNCHANGED budget
       \/ /\ CanOpen /\ Spend("reject") /\ session.gen < MaxGeneration
          /\ EndLifecycle(r, "rejected", engine)
       \/ CanOpen /\ Spend("crash") /\ EndLifecycle(r, "raised", Broken)
       \/ /\ ~CanOpen /\ UNCHANGED budget
          /\ EndLifecycle(r, "raised", IF engine.recycle THEN engine ELSE Broken)

CloseEnds(r) ==
    /\ r.phase = "close"
    /\ \/ /\ CanClose /\ UNCHANGED budget
          /\ EndLifecycle(r, "closed", [engine EXCEPT !.conv = NoConversation])
       \/ /\ CanClose /\ Spend("crash")
          /\ EndLifecycle(r, "raised", Broken) \/ EndLifecycle(r, "fault", Broken)
       \/ ~CanClose /\ UNCHANGED budget /\ EndLifecycle(r, "raised", Broken)

\* The child of the adapter dies between two requests.
EngineDies ==
    /\ Outside /\ engine.alive /\ Spend("crash")
    /\ engine' = Broken
    /\ Keep /\ UNCHANGED <<inflight, inbox, timer, buf, accepted, rm, mic>>

\* ResourceManager._run_recovery; a recycled engine is recycled no more.
RecoveryEnds(how) ==
    /\ Outside /\ rm.keys # {}
    /\ IF how = "failed" THEN Spend("unrecovered") ELSE UNCHANGED budget
    /\ rm' = [rm EXCEPT !.keys = {}, !.ready = how = "ok"]
    /\ engine' = IF "llm" \notin rm.keys \/ how # "ok" THEN engine
                 ELSE [alive |-> TRUE, conv |-> NoConversation,
                       recycle |-> engine.recycle /\ ~pending.planned]
    /\ Put(<<[type |-> IF pending.planned THEN "planned" ELSE "recovered",
              waiter |-> rm.ticket, how |-> how]>>)
    /\ Keep /\ UNCHANGED <<inflight, timer, buf, accepted, mic>>

-----------------------------------------------------------------------------
Dispatch ==
    \/ IgnoreItem \/ HandleWake \/ HandleMessage \/ HandleUnknownMessage
    \/ HandleInterrupt \/ HandleAck \/ HandleFact \/ HandleDone
    \/ HandleOpened \/ HandleRejected \/ HandleClosed \/ HandleLifecycleFailed
    \/ HandleRecovered \/ HandlePlannedRecovery \/ HandleError
    \/ HandleShutdown \/ ShutdownCleanupFails
    \/ ProgressConverging \/ ProgressWaits \/ ProgressToPerception \/ ProgressHeard
    \/ ProgressThought \/ ProgressRest \/ ProgressEnd \/ ProgressReplace
    \/ ProgressKeep \/ ProgressStop
    \/ EnterPerception \/ EnterThink \/ EnterAction
    \/ \E e \in Endured : Converge(e) \/ ConvergeToShutdown(e) \/ LifecycleErrorConverging(e)
    \/ ConvergeAgain \/ LifecycleError
    \/ FinishLater \/ FinishClose \/ FinishRecycle \/ FinishAnnounce
    \/ FinishStop \/ FinishIdle
Work == \E r \in inflight : \/ PublishHeard(r) \/ PublishRead(r) \/ PublishThought(r)
                            \/ PublishDone(r) \/ ReturnWorker(r)
                            \/ OpenEnds(r) \/ CloseEnds(r)
                            \/ \E keys \in {{}, Key(r)} : FaultWorker(r, keys)
Recover == \E how \in {"ok", "failed"} : RecoveryEnds(how)
Signalled == \E type \in {"button", "wake", "interrupt", "shutdown", "error"} : Input(type)
World == Signalled \/ Ingest \/ EngineDies

Next == Dispatch \/ Work \/ Recover \/ AckElapses \/ World

\* The event loop runs the dispatch task; workers, lifecycle requests, recoveries
\* and the wake timer are all bounded by timeouts.  Nobody has to press a button.
Fairness == /\ WF_vars(Dispatch) /\ WF_vars(Work) /\ WF_vars(Recover)
            /\ WF_vars(AckElapses)

Spec == Init /\ [][Next]_vars
FairSpec == Spec /\ Fairness

-----------------------------------------------------------------------------
\* Types of the state.
Phases == {"perception", "think", "action_primary", "action_rest", "open", "close",
           "error_notice"}
TaskStates == {"running", "published", "returned", "raised", "fault", "ready",
               "rejected", "closed", "cancelled"}
Keys == {"llm", "asr", "tts"}
TypeOK ==
    /\ state \in {"IDLE", "WAKE", "PERCEPTION", "THINK", "ACTION", "ERROR"}
    /\ session.id \in Sessions \cup {0} /\ session.turn \in 0 .. MaxTurn
    /\ session.gen \in 0 .. MaxGeneration /\ session.sel \subseteq PerceptionKinds
    /\ session.conv \in {"none", "opening", "ready", "closing"}
    /\ pending.trigger \in {"none", "rest", "interrupt", "error", "shutdown"}
    /\ pending.phase \in {"none", "workers", "conversation_close", "recovery"}
    /\ \A r \in inflight : /\ r.cid \in 1 .. cids /\ r.phase \in Phases /\ r.kind \in Kinds
                           /\ r.task \in TaskStates
    /\ \A r, q \in inflight : r.cid = q.cid => r = q
    /\ timer \in Sessions \cup {0} /\ readOpen \in 0 .. MaxTurn
    /\ buf \in Buffer /\ accepted \in 0 .. MaxMessages
    /\ rm.keys \subseteq Keys /\ faultKeys \subseteq Keys
    /\ budget \in [Inputs -> Nat]

\* The dispatch task never ends by one of the manager's own checks: no worker
\* contract violation, no second lifecycle operation, no thought without a ready
\* conversation, no recovery for other backends than were destroyed.
ChecksHold == flow.at = "dead" => flow.why \notin {"contract", "invariant"}

\* In IDLE nothing is left of the last session: no record, timer or read window, and
\* the wake listener has its microphone back.
IdleIsQuiet ==
    state = "IDLE" /\ Outside =>
        /\ session = NoContext /\ inflight = {} /\ timer = 0 /\ readOpen = 0
        /\ mic.held \/ mic.failed

\* No completion is lost: the dispatch task, when it waits, still has the notice of
\* every record whose task is over, so a convergence cannot wait for nothing.
EveryTaskReports ==
    Outside => \A r \in inflight :
                   Active(r) \/ \E i \in DOMAIN inbox : inbox[i] = Completed(r)

\* A turn starts with no task of an earlier turn or session in flight.
InFlightIsCurrent ==
    \A r \in inflight : /\ r.sid = session.id
                        /\ flow.at # "perception" => r.turn = session.turn

\* While the reasoner works, the backend holds the conversation of this session and
\* generation, unless the backend died: admission follows the OPEN/CLOSE handshake.
ReasonerHasConversation ==
    \A r \in inflight : r.phase = "think" /\ Active(r) /\ engine.alive =>
                            engine.conv = Ours

\* ch04 2.2: the microphone has one owner, so while a listen task runs the wake
\* listener has released it.  Not so in a session that a message began (README.md).
OneMicOwner == (\E r \in inflight : r.kind = "listen" /\ Active(r)) => ~mic.held

\* What every run of the dispatch loop keeps, whatever was injected: its types and
\* its own checks, a quiet IDLE, no task of an earlier turn, one owner of the
\* microphone, and the handshake with the reasoner's backend.
TurnIsSound ==
    /\ TypeOK /\ ChecksHold /\ IdleIsQuiet
    /\ InFlightIsCurrent /\ ReasonerHasConversation
    /\ scenario.messages = 0 => OneMicOwner

\* A recovery is never left alone: while the ResourceManager rebuilds a backend, the
\* manager converges, waits for that very ticket and lets no turn begin.
RecoveryIsAwaited ==
    rm.keys # {} /\ Outside =>
        /\ Converging /\ waiter = rm.ticket /\ session.blocked
        /\ pending.ticket = rm.ticket \/ pending.planned

\* Back in IDLE no message is forgotten: what the buffer still holds has a signal
\* on its way that will wake the device.
NoForgottenMessage ==
    state = "IDLE" /\ Outside /\ ~shutting /\ begun + 1 \in Sessions =>
        \A m \in Present(buf) : /\ buf.item[m].state = "queued"
                                /\ \E i \in DOMAIN inbox : inbox[i] = MessageArrived(m)

\* The device that the manager implements, see SessionLifecycle; a turn begins with
\* the change of state, the number follows in _enter_perception.
Lifecycle == INSTANCE SessionLifecycle WITH
    session <- session.id, shutdown <- shutting,
    turn <- IF flow.at = "perception" THEN session.turn + 1 ELSE session.turn
ImplementsLifecycle == Lifecycle!LifecycleSpec

\* A session that converges gets back to IDLE: it waits for no notice that does not
\* come, no recovery that does not end.
Over == flow.at \in {"dead", "stopped"}
ConvergenceEnds == Converging /\ ~shutting ~> ~Converging \/ shutting \/ Over

\* A session that was woken is not left there: it reaches perception or ends.
WakeMovesOn == state = "WAKE" ~> state # "WAKE" \/ Over

=============================================================================
