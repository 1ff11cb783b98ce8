----------------------------- MODULE MCConfirm -----------------------------
(* Small instances of Confirm for TLC. *)
EXTENDS Confirm, TLC

Symmetry == Permutations(Session) \cup Permutations(Unit) \cup
            Permutations(Config) \cup Permutations(Data)
=============================================================================
