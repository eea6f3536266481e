--------------------------- MODULE MessageMailbox ---------------------------
(***************************************************************************)
(* What the external-message buffer promises, with no owner, no window and *)
(* no reader: a bounded mailbox in which each message is delivered at most *)
(* once, a reserved message (one an open read owns) never makes room for a *)
(* newer one, and room is made only when the mailbox is full and only with *)
(* the oldest message that is not reserved.                                *)
(***************************************************************************)
EXTENDS Integers, FiniteSets

CONSTANTS Count,      \* messages 1..Count, numbered in order of arrival
          Capacity

VARIABLE status

Ids == 1 .. Count
In(states) == {m \in Ids : status[m] \in states}
Held == In({"waiting", "reserved"})

MailboxInit == status = [m \in Ids |-> "new"]

\* Message m arrives; the messages of D, at most one, make room for it.
Accept(m, D) ==
    /\ status[m] = "new"
    /\ \A n \in Ids : n < m => status[n] # "new"
    /\ \/ D = {} /\ Cardinality(Held) < Capacity
       \/ /\ Cardinality(Held) >= Capacity
          /\ \E d \in In({"waiting"}) :
                 D = {d} /\ \A n \in In({"waiting"}) : d <= n
    /\ status' = [n \in Ids |-> IF n = m THEN "waiting"
                                ELSE IF n \in D THEN "dropped" ELSE status[n]]

\* Reads open and close: held messages are reserved or released.
Reserve(S) ==
    status' = [n \in Ids |-> IF n \notin Held THEN status[n]
                             ELSE IF n \in S THEN "reserved" ELSE "waiting"]

Deliver(S) ==
    /\ S # {}
    /\ status' = [n \in Ids |-> IF n \in S THEN "delivered" ELSE status[n]]

Clear == status' = [n \in Ids |-> IF n \in Held THEN "dropped" ELSE status[n]]

MailboxNext ==
    \/ \E m \in Ids, D \in SUBSET Ids : Accept(m, D)
    \/ \E S \in SUBSET Held : Reserve(S)
    \/ \E S \in SUBSET In({"reserved"}) : Deliver(S)
    \/ Clear

MailboxSpec == MailboxInit /\ [][MailboxNext]_status

=============================================================================
