------------------------ MODULE MCProactiveDelivery ------------------------
(* Small instances of ProactiveDelivery for TLC. *)
EXTENDS ProactiveDelivery, TLC

Symmetry == Permutations(Calls) \cup Permutations(Conversations)
=============================================================================
