---------------------------- MODULE MCUserAccounts ----------------------------
(* Small instances of UserAccounts for TLC. *)
EXTENDS UserAccounts, TLC

Symmetry == Permutations(Calls)
=============================================================================
