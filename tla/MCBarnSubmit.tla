---------------------------- MODULE MCBarnSubmit ----------------------------
(* Model-checking instance of BarnSubmit: symmetry over interchangeable ids. *)
EXTENDS BarnSubmit, TLC

Symmetry == Permutations(Clones) \cup Permutations(Attempts)
            \cup Permutations(Jobs) \cup Permutations(Installers)
=============================================================================
