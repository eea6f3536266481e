-------------------------- MODULE MCStreamingSpeak --------------------------
\* Instances of StreamingSpeak for TLC: the second fragment weighs two.
EXTENDS StreamingSpeak

MCSize == [f \in Fragments |-> IF f = 1 THEN 2 ELSE 1]

=============================================================================
