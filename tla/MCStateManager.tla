--------------------------- MODULE MCStateManager ---------------------------
(* Instances of StateManager for TLC: what the reasoner answers and how often  *)
(* each input and each fault happens, one definition per run.                  *)
EXTENDS StateManager

Answer(kind, route, next) == [kind |-> kind, route |-> route, next |-> next]
Keeps == Answer("speak", "KEEP_NEXT", {"listen"})
KeepsBoth == Answer("speak", "KEEP_NEXT", {"listen", "read"})
KeepsReading == Answer("speak", "KEEP_NEXT", {"read"})
Replaces == Answer("speak", "REPLACE_NEXT", {"listen"})
Ends == Answer("speak", "END_SESSION", {})
Rests == Answer("rest", "END_SESSION", {})
Wrong == Answer("rest", "KEEP_NEXT", {"listen"})

Times(given) == [input \in Inputs |-> IF input \in DOMAIN given THEN given[input] ELSE 0]

\* Talk: two sessions by button, which interrupts too, every answer, an error, a
\* failed action and the fault of one worker.
Talk == {[answers |-> {Keeps, Replaces, Ends, Wrong}, product |-> TRUE, messages |-> 0,
          budget |-> Times([button |-> 2, error |-> 1, failed |-> 1, destroy |-> 1,
                            fault |-> 1])]}

\* Faults: one session in which everything that can fail may fail.
Faults == [answers |-> {Replaces, Rests}, product |-> TRUE, messages |-> 0,
           budget |-> Times([button |-> 1, fault |-> 2, crash |-> 1, reject |-> 1,
                             deny |-> 1, destroy |-> 1, lost |-> 1, unrecovered |-> 1,
                             mic |-> 1, shutdown |-> 1, error |-> 2])]

\* Again: two sessions, or an interrupt, around the recovery of the backend.
Again == [Faults EXCEPT !.budget =
              Times([button |-> 2, fault |-> 1, crash |-> 1, destroy |-> 1,
                     unrecovered |-> 1, shutdown |-> 1, error |-> 1])]

\* Reading: sessions that a message begins, turns that read.
Reading == [answers |-> {KeepsReading, KeepsBoth, Ends}, product |-> FALSE, messages |-> 2,
            budget |-> Times([wake |-> 1, interrupt |-> 1])]
FaultsOrMessages == {Faults, Again, Reading}

\* One message, for what the documents say of the microphone (README.md).
OneMessage == {[Reading EXCEPT !.messages = 1]}

=============================================================================
