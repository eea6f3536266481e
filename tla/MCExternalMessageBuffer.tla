---------------------- MODULE MCExternalMessageBuffer ----------------------
(* Instances of ExternalMessageBuffer for TLC.  Sessions are interchangeable *)
(* (the buffer only compares them), so they are symmetric in safety runs.    *)
EXTENDS ExternalMessageBuffer, TLC

Symmetry == Permutations(Sessions)

=============================================================================
