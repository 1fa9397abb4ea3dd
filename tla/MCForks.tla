------------------------------ MODULE MCForks -------------------------------
(* Instances of Forks for TLC. *)
EXTENDS Forks, TLC

Symmetry == Permutations(Ids) \cup Permutations(Callers)
=============================================================================
