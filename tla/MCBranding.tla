------------------------------ MODULE MCBranding ------------------------------
(* Small instances of Branding for TLC. *)
EXTENDS Branding, TLC

Symmetry == Permutations(Calls) \cup Permutations(Kinds) \cup Permutations(Files)
=============================================================================
