---------------------------- MODULE MCSeedPublish ----------------------------
(* Model-checking instance of SeedPublish. *)
EXTENDS SeedPublish, TLC

Symmetry == Permutations(Jobs) \cup Permutations(Execs)
=============================================================================
