------------------------------- MODULE MCStore -------------------------------
(* Small instances of Store for TLC. *)
EXTENDS Store, TLC

Symmetry == Permutations(Proc) \cup Permutations(Value) \cup Permutations(Inode)

\* The bytes of a free inode are never read again: CreateTemp truncates them.
View == <<[i \in Inode \ Free |-> data[i]], synced \ Free, entry, onDisk, temp,
          call, history>>
=============================================================================
