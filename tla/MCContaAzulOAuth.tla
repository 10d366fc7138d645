--------------------------- MODULE MCContaAzulOAuth ---------------------------
(* Small instances of ContaAzulOAuth for TLC. *)
EXTENDS ContaAzulOAuth, TLC

Symmetry == Permutations(Calls) \cup Permutations(Flows) \cup Permutations(Grants)
            \cup Permutations(Companies) \cup Permutations(Tenants)

\* No process dies between a failure and the markError that follows it.
ErrorsAreWritten ==
    \A c \in Calls : At(c, "error") /\ call'[c].pc # "error"
                        => status'[T(c)] \in {"NONE", "ERROR"}
SpecWithoutLostErrors == Init /\ [][Next /\ ErrorsAreWritten]_vars
=============================================================================
