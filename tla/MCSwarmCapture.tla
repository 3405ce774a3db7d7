--------------------------- MODULE MCSwarmCapture ---------------------------
(* SwarmCapture on small sets, for TLC. *)
EXTENDS SwarmCapture, TLC

Symmetry == Permutations(Jobs)
=============================================================================
