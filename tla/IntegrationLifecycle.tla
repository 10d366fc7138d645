------------------------- MODULE IntegrationLifecycle -------------------------
(***************************************************************************)
(* What the synchronisation may rely on about the integration of its       *)
(* tenant: its status, the company its credential is for and the company   *)
(* it was identified as.  The renewals, locks, requests and states behind  *)
(* these changes are ContaAzulOAuth's, which implements this specification *)
(* for every tenant; ContaAzulSync takes its steps as its environment.     *)
(***************************************************************************)
CONSTANTS Accounts, NoAccount

VARIABLE integration

IntegrationRow == [status: {"CONNECTED", "DISCONNECTED", "ERROR"},
                   credential: Accounts \cup {NoAccount},
                   identity: Accounts \cup {NoAccount}]

NotConnected == [status |-> "DISCONNECTED", credential |-> NoAccount, identity |-> NoAccount]

IntegrationInit ==
    \/ integration = NotConnected
    \/ \E a \in Accounts :
          integration = [status |-> "CONNECTED", credential |-> a, identity |-> a]

\* persistConnectedTokens: another company's tokens come with no company identified.
Connect(a) ==
    integration' = [status |-> "CONNECTED", credential |-> a, identity |-> NoAccount]

\* upsertExternalAccount writes the company of the token that asked for it, which a
\* callback or a disconnect may have replaced since.
StoreIdentity(a) == integration' = [integration EXCEPT !.identity = a]

\* markHealthy, and a renewal that succeeds, clear the error.
ClearError ==
    /\ integration.status # "DISCONNECTED"
    /\ integration' = [integration EXCEPT !.status = "CONNECTED"]

\* markError has no condition on the status.
MarkError == integration' = [integration EXCEPT !.status = "ERROR"]

\* The disconnect deletes the rows it found; what was stored since may be left.
EraseConnection ==
    \E a \in {NoAccount, integration.credential}, b \in {NoAccount, integration.identity} :
        integration' = [status |-> "DISCONNECTED", credential |-> a, identity |-> b]

IntegrationNext ==
    \/ \E a \in Accounts : Connect(a) \/ StoreIdentity(a)
    \/ ClearError \/ MarkError \/ EraseConnection

IntegrationSpec == IntegrationInit /\ [][IntegrationNext]_integration
=============================================================================
