------------------------------- MODULE MCSetup -------------------------------
(* Small instances of Setup for TLC. *)
EXTENDS Setup, TLC

Symmetry == Permutations(Session) \cup Permutations(Nic)
                \cup Permutations(Device \ Addressless)

\* The same of every link, pinned or not: what ClaimUnpinned.cfg refutes.
EveryLinkOnChosen == routes # None => routes = Chosen(configFile)
=============================================================================
