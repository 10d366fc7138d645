------------------------- MODULE MCProactiveTriggers -------------------------
(* Small instances of ProactiveTriggers for TLC. *)
EXTENDS ProactiveTriggers, TLC

Symmetry == Permutations(Evaluators) \cup Permutations(Narrators) \cup Permutations(Texts)

\* Redis is up: whatever is enqueued reaches the queue.
QueueUp == figures' # figures => due'
SpecQueueUp == Init /\ [][Next /\ QueueUp]_vars /\ Fairness
=============================================================================
