------------------------------ MODULE MCEngine ------------------------------
(* Small instances of Engine for TLC. *)
EXTENDS Engine, TLC

Symmetry == Permutations(Proc) \cup Permutations(Data)
=============================================================================
