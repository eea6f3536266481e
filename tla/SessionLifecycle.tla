-------------------------- MODULE SessionLifecycle --------------------------
(***************************************************************************)
(* What the State Manager promises to a person in front of the device, with*)
(* no workers, notices or convergence: sessions come one after the other,  *)
(* a session is a sequence of turns, a turn is perception, then at most one*)
(* thought, then an action; a session only ends by going back to IDLE      *)
(* (through ERROR or not); after a shutdown no session begins.             *)
(***************************************************************************)
EXTENDS Integers

VARIABLES state,      \* the public state of the device
          session,    \* number of the current session, 0 when there is none
          begun,      \* number of sessions begun so far
          turn,       \* turn of the current session
          shutdown    \* a shutdown was requested

public == <<state, session, begun, turn, shutdown>>

LifecycleInit == /\ state = "IDLE" /\ session = 0 /\ begun = 0 /\ turn = 0
                 /\ shutdown = FALSE

Same == UNCHANGED <<session, begun, turn, shutdown>>
Move(from, to) == state = from /\ state' = to

BeginSession == /\ Move("IDLE", "WAKE") /\ ~shutdown
                /\ begun' = begun + 1 /\ session' = begun' /\ turn' = 0
                /\ UNCHANGED shutdown
BeginTurn == /\ Move("WAKE", "PERCEPTION") \/ Move("ACTION", "PERCEPTION")
             /\ turn' = turn + 1
             /\ UNCHANGED <<session, begun, shutdown>>
Think == Move("PERCEPTION", "THINK") /\ Same
Act == (Move("THINK", "ACTION") \/ Move("PERCEPTION", "ACTION")) /\ Same
Fail == state' = "ERROR" /\ Same
End == state' = "IDLE" /\ session' = 0 /\ turn' = 0 /\ UNCHANGED <<begun, shutdown>>
Shutdown == shutdown' = TRUE /\ UNCHANGED <<state, session, begun, turn>>
\* The last step of a shutdown drops the session without leaving its state.
Stop == shutdown /\ session' = 0 /\ turn' = 0 /\ UNCHANGED <<state, begun, shutdown>>

LifecycleNext == \/ BeginSession \/ BeginTurn \/ Think \/ Act
                 \/ Fail \/ End \/ Shutdown \/ Stop

LifecycleSpec == LifecycleInit /\ [][LifecycleNext]_public

=============================================================================
