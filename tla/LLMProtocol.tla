---------------------------- MODULE LLMProtocol ----------------------------
(***************************************************************************)
(* The request ledger of snowboard.llm/3 (cognition/llm_child_protocol.py).*)
(* Parent and child keep one each: both apply every command and every      *)
(* event to it, and what it refuses ends the child.  A ticket is named by  *)
(* the request that measured it, a conversation by its generation; digests,*)
(* token counts, clocks and the texts themselves are left out.             *)
(***************************************************************************)
EXTENDS Naturals

Ops == {"OPEN", "MEASURE", "GENERATE", "DISCARD_TICKET", "CLOSE"}
NoRequest == [op |-> "none", generation |-> 0, ticket |-> 0]

\* A frame to the child, and a frame from it.
Frame(op, id, generation, ticket) ==
    [op |-> op, id |-> id, generation |-> generation, ticket |-> ticket]
Reply(event, id, generation, revision, ticket, proven) ==
    [event |-> event, id |-> id, generation |-> generation, revision |-> revision,
     ticket |-> ticket, proven |-> proven]

FreshLedger ==
    [state |-> "ENGINE_READY", claim |-> 0, revision |-> 0, counter |-> 0,
     active |-> NoRequest, ticket |-> 0, consumed |-> 0,
     cancelled |-> FALSE, deferred |-> FALSE, fragments |-> 0]

----------------------------------------------------------------------------
(* Commands *)

\* Which operations a state allows, and the state each one leads to.
Allowed(state) ==
    CASE state = "ENGINE_READY" -> {"OPEN"}
      [] state = "CONVERSATION_READY" -> {"MEASURE", "CLOSE"}
      [] state = "MEASURED" -> {"DISCARD_TICKET", "GENERATE", "CLOSE"}
      [] state = "TAINTED" -> {"CLOSE"}
      [] OTHER -> {}
Doing == [OPEN |-> "OPENING", MEASURE |-> "MEASURING", GENERATE |-> "GENERATING",
          DISCARD_TICKET |-> "DISCARDING", CLOSE |-> "CLOSING"]
Cancellable == {"OPEN", "MEASURE", "GENERATE", "CLOSE"}

AcceptsCancel(l, frame) ==
    /\ l.active.op \in Cancellable
    /\ ~l.cancelled
    /\ frame.id = l.counter

AcceptsCommand(l, frame) ==
    CASE frame.op = "CANCEL" -> AcceptsCancel(l, frame)
      [] frame.op = "SHUTDOWN" -> l.state = "ENGINE_READY" /\ l.active = NoRequest
      [] OTHER -> /\ l.active = NoRequest
                  /\ frame.op \in Allowed(l.state)
                  /\ frame.id = l.counter + 1
                  /\ frame.op # "OPEN" => frame.generation = l.claim
                  /\ frame.op \in {"GENERATE", "DISCARD_TICKET"} =>
                         l.ticket # 0 /\ frame.ticket = l.ticket

\* A GENERATE consumes its ticket, a CLOSE drops whatever ticket there is.
Commanded(l, frame) ==
    CASE frame.op = "CANCEL" -> [l EXCEPT !.cancelled = TRUE]
      [] frame.op = "SHUTDOWN" -> [l EXCEPT !.state = "STOPPING"]
      [] OTHER ->
           [l EXCEPT !.state = Doing[frame.op], !.counter = @ + 1,
                     !.active = [op |-> frame.op, generation |-> frame.generation,
                                 ticket |-> frame.ticket],
                     !.consumed = CASE frame.op = "GENERATE" -> l.ticket
                                    [] frame.op = "CLOSE" -> 0
                                    [] OTHER -> @,
                     !.ticket = IF frame.op \in {"GENERATE", "CLOSE"} THEN 0 ELSE @,
                     !.cancelled = FALSE, !.deferred = FALSE, !.fragments = 0]

----------------------------------------------------------------------------
(* Events *)

\* The request each terminal answers; CANCELLED answers three of them, and
\* only with every proof.
Answers == [OPENED |-> {"OPEN"}, OPEN_REJECTED |-> {"OPEN"}, MEASURED |-> {"MEASURE"},
            TICKET_DISCARDED |-> {"DISCARD_TICKET"}, RESULT |-> {"GENERATE"},
            REQUEST_FAILED |-> {"GENERATE"}, CLOSED |-> {"CLOSE"},
            CANCELLED |-> {"OPEN", "MEASURE", "GENERATE"}]
Terminals == DOMAIN Answers
Terminal(e) == e.event \in Terminals

AcceptsEvent(l, e) ==
    CASE e.event = "SHUTDOWN_ACK" -> l.state = "STOPPING"
      [] e.event = "CANCEL_DEFERRED" ->
             e.id = l.counter /\ l.active # NoRequest /\ l.cancelled /\ ~l.deferred
      [] e.event = "SAFE_TEXT" ->
             e.id = l.counter /\ l.active.op = "GENERATE" /\ e.revision = l.fragments
      [] e.event \in Terminals ->
             /\ e.id = l.counter
             /\ l.active.op \in Answers[e.event]
             /\ e.event = "CANCELLED" => l.cancelled
             /\ e.event # "CANCELLED" => e.generation = l.active.generation
             /\ e.proven
             /\ e.event = "MEASURED" => e.revision = l.revision
             /\ e.event = "TICKET_DISCARDED" => e.ticket = l.active.ticket
             /\ e.event = "RESULT" => e.revision = l.revision + 1 /\ l.consumed # 0
      [] OTHER -> FALSE

AfterCancelled == [OPEN |-> "ENGINE_READY", MEASURE |-> "CONVERSATION_READY",
                   GENERATE |-> "TAINTED"]

Ended(l, e) ==
    CASE e.event = "CANCELLED" ->
             [l EXCEPT !.state = AfterCancelled[l.active.op], !.ticket = 0, !.consumed = 0]
      [] e.event = "OPENED" ->
             [l EXCEPT !.state = "CONVERSATION_READY", !.claim = l.active.generation,
                       !.revision = 0]
      [] e.event = "OPEN_REJECTED" -> [l EXCEPT !.state = "ENGINE_READY"]
      [] e.event = "MEASURED" -> [l EXCEPT !.state = "MEASURED", !.ticket = e.ticket]
      [] e.event = "TICKET_DISCARDED" ->
             [l EXCEPT !.state = "CONVERSATION_READY", !.ticket = 0, !.consumed = 0]
      [] e.event = "RESULT" ->
             [l EXCEPT !.state = "CONVERSATION_READY", !.revision = @ + 1, !.consumed = 0]
      [] e.event = "REQUEST_FAILED" -> [l EXCEPT !.state = "TAINTED", !.consumed = 0]
      [] OTHER ->                                               \* CLOSED
             [l EXCEPT !.state = "ENGINE_READY", !.claim = 0, !.ticket = 0,
                       !.consumed = 0, !.fragments = 0]

Told(l, e) ==
    CASE e.event = "SHUTDOWN_ACK" -> [l EXCEPT !.state = "STOPPED"]
      [] e.event = "CANCEL_DEFERRED" -> [l EXCEPT !.deferred = TRUE]
      [] e.event = "SAFE_TEXT" -> [l EXCEPT !.fragments = @ + 1]
      [] OTHER -> [Ended(l, e) EXCEPT !.active = NoRequest]

============================================================================
