------------------------- MODULE MCAdvisorConversation -------------------------
(* Bounds of the conversation model for TLC: the messages are alike. *)
EXTENDS AdvisorConversation, TLC

Symmetry == Permutations(Messages)

\* What follows once two messages overlapped is explored only while no premise is kept: of
\* the properties only the types say anything of it.
PremisesUntilOverlap == overlapped => context.premises = << >>

=============================================================================
