------------------------------ MODULE MCA2ATask ------------------------------
(* A2ATask on small sets, for TLC. *)
EXTENDS A2ATask, TLC

Symmetry == Permutations(Jobs) \union Permutations(Submissions) \union Permutations(TaskIds)
=============================================================================
