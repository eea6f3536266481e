------------------------- MODULE ExternalMessageOps -------------------------
(***************************************************************************)
(* The locked sections of ExternalMessageBuffer as operators on one value  *)
(* (input_events/external_message/buffer.py).  Each method of the class    *)
(* runs under one asyncio.Condition, so a method is one operator: Can...   *)
(* is the case in which it does not raise, the operator of the same name   *)
(* is the buffer it leaves behind.  No variables: ExternalMessageBuffer    *)
(* checks the buffer on its own, StateManager composes it with its owner.  *)
(*                                                                         *)
(* A message is the number of its arrival (the identity and the sequence   *)
(* number are allocated together, under the lock, at the moment the message*)
(* is accepted), so _order is the numeric order of the present messages.   *)
(***************************************************************************)
EXTENDS Integers, FiniteSets

CONSTANTS MaxMessages,   \* bound: how many messages are ever accepted
          MaxItems,      \* ExternalMessageBuffer.max_items
          Policy,        \* overflow_policy
          Sessions,      \* session identities
          NoSession,     \* None
          MaxTurn        \* bound: turn numbers of a session

Policies == {"drop_oldest", "drop_newest", "reject"}

ASSUME OpsAssumption ==
    /\ MaxMessages \in Nat
    /\ MaxItems \in Nat \ {0}
    /\ Policy \in Policies
    /\ NoSession \notin Sessions
    /\ MaxTurn \in Nat

Messages == 1 .. MaxMessages
Turns == 1 .. MaxTurn

MessageStates == {"absent", "queued", "session", "pending", "turn"}
WindowStates == {"none", "active", "closed"}

\* _BufferedMessage and _ReadWindow; "absent" and "none" stand for no entry.
Item == [state : MessageStates, session : Sessions \cup {NoSession},
         turn : Turns \cup {0}]
Window == [state : WindowStates, turn : Turns \cup {0}]
Buffer == [item : [Messages -> Item], window : [Sessions -> Window]]

Absent == [state |-> "absent", session |-> NoSession, turn |-> 0]
Queued == [state |-> "queued", session |-> NoSession, turn |-> 0]
NoWindow == [state |-> "none", turn |-> 0]

EmptyBuffer == [item |-> [m \in Messages |-> Absent],
                window |-> [s \in Sessions |-> NoWindow]]

Present(b) == {m \in Messages : b.item[m].state # "absent"}
Oldest(S) == CHOOSE m \in S : \A n \in S : m <= n

\* _matching_ids_locked
Matching(b, s, t) == {m \in Messages : /\ b.item[m].state = "turn"
                                       /\ b.item[m].session = s
                                       /\ b.item[m].turn = t}

\* pending_ids
PendingIds(b, s) == {m \in Messages : /\ b.item[m].state = "pending"
                                      /\ b.item[m].session = s}

HasWindow(b, s, t) == b.window[s].state # "none" /\ b.window[s].turn = t
WindowActive(b, s, t) == b.window[s].state = "active" /\ b.window[s].turn = t

-----------------------------------------------------------------------------
\* store and _apply_overflow_locked: a full buffer gives up its oldest message
\* that no open read owns, and refuses the new one if there is none.
Full(b) == Cardinality(Present(b)) >= MaxItems
EvictableAll(b) == Present(b)                     \* mutant: evicts from an open read
Evictable(b) == {m \in Present(b) : b.item[m].state # "turn"}
Evicted(b) == IF Full(b) THEN {Oldest(Evictable(b))} ELSE {}

CanStore(b) == Full(b) => Policy = "drop_oldest" /\ Evictable(b) # {}
Store(b, m) ==
    [item |-> [n \in Messages |-> IF n = m THEN Queued
                                  ELSE IF n \in Evicted(b) THEN Absent ELSE b.item[n]],
     window |-> b.window]

-----------------------------------------------------------------------------
\* The owner's operations.  OwnedOrFree: the message is in one of the states
\* the method accepts and belongs to no other session.
OwnedOrFree(b, m, s, states) == /\ b.item[m].state \in states
                                /\ b.item[m].session \in {NoSession, s}
WithItem(b, m, st, s, t) ==
    [item |-> [b.item EXCEPT ![m] = [state |-> st, session |-> s, turn |-> t]],
     window |-> b.window]

CanAssignToSession(b, m, s) ==
    \/ b.item[m].state = "queued"
    \/ b.item[m].state = "session" /\ b.item[m].session = s
AssignToSession(b, m, s) == WithItem(b, m, "session", s, 0)

CanMarkPending(b, m, s) ==
    \/ b.item[m].state = "pending" /\ b.item[m].session = s
    \/ OwnedOrFree(b, m, s, {"queued", "session"})
MarkPending(b, m, s) == WithItem(b, m, "pending", s, 0)

CanAssignToTurn(b, m, s, t) ==
    \/ m \in Matching(b, s, t)
    \/ /\ OwnedOrFree(b, m, s, {"queued", "session", "pending"})
       /\ HasWindow(b, s, t)
\* A message the turn already has keeps its owner: its window is active
\* (TurnHasActiveWindow), so the early return is the first branch.
AssignToTurn(b, m, s, t) ==
    IF WindowActive(b, s, t) THEN WithItem(b, m, "turn", s, t)
    ELSE WithItem(b, m, "pending", s, 0)

CanBeginRead(b, s, t) == b.window[s].state = "active" => b.window[s].turn = t
BeginRead(b, s, t) ==
    [item |-> [m \in Messages |->
                  IF b.item[m].session = s /\ b.item[m].state \in {"session", "pending"}
                  THEN [state |-> "turn", session |-> s, turn |-> t]
                  ELSE b.item[m]],
     window |-> [b.window EXCEPT ![s] = [state |-> "active", turn |-> t]]]

\* close_read and _close_read_locked: what the open read still owned is pending.
\* A closed window owns nothing, so closing it again (the early return) is the same.
CanCloseRead(b, s, t) == HasWindow(b, s, t)
CloseRead(b, s, t) ==
    [item |-> [m \in Messages |->
                  IF m \in Matching(b, s, t)
                  THEN [state |-> "pending", session |-> s, turn |-> 0]
                  ELSE b.item[m]],
     window |-> [b.window EXCEPT ![s] = [state |-> "closed", turn |-> t]]]

\* _restore_after_read: the same, and nothing when the window is gone.
RestoreAfterRead(b, s, t) == IF HasWindow(b, s, t) THEN CloseRead(b, s, t) ELSE b

\* consume_for_read, its last section: the matching messages leave the buffer.
Consume(b, s, t) ==
    [item |-> [m \in Messages |-> IF m \in Matching(b, s, t) THEN Absent ELSE b.item[m]],
     window |-> [b.window EXCEPT ![s] = [state |-> "closed", turn |-> t]]]

\* flush_to_wake: its locked section; the signals go out afterwards, one by one.
Flush(b) ==
    [item |-> [m \in Messages |-> IF b.item[m].state = "absent" THEN Absent ELSE Queued],
     window |-> [s \in Sessions |-> NoWindow]]

=============================================================================
