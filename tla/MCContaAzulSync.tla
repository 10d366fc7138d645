--------------------------- MODULE MCContaAzulSync ---------------------------
(* Small instances of ContaAzulSync for TLC. *)
EXTENDS ContaAzulSync, TLC

\* Run identifiers, calls, workers and companies are interchangeable.
Symmetry == Permutations(Runs) \cup Permutations(Calls)
            \cup Permutations(Workers) \cup Permutations(Accounts)

\* Bounds on the environment, each used by the runs whose question lies elsewhere.
TenantStaysEnabled == tenantActive'
StaysConnected     == integration' = integration
WorkersStayUp      == \A w \in Workers : engine'[w].pc # "down"
LocksAreRenewed    == \A r \in Runs : job'[r].stalls = 0
InitiallyConnected == integration.status = "CONNECTED"
=============================================================================
