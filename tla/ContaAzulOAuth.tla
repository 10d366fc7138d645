---------------------------- MODULE ContaAzulOAuth ----------------------------
(***************************************************************************)
(* The OAuth grant of the Conta Azul integration: the rows integrations,   *)
(* integration_credentials and integration_external_accounts of several    *)
(* tenants, the single-use states kept in Redis, the calls that connect,   *)
(* renew, identify and disconnect, and the provider, which replaces the    *)
(* refresh token of a grant each time it is used.                          *)
(*                                                                         *)
(* The three transactions are taken apart into the statements that may     *)
(* wait for a row lock; a transaction's writes appear when it commits and  *)
(* vanish when it is rolled back.  A refresh token is its grant and the    *)
(* number of rotations that produced it.                                   *)
(***************************************************************************)
EXTENDS Naturals, FiniteSets

CONSTANTS
    Tenants,
    Calls,          \* requests and engine executions in progress
    Flows,          \* OAuth states that may ever be stored (bound)
    Grants,         \* authorisations the provider may ever issue (bound)
    Companies,      \* Conta Azul companies a grant is for
    NoCall, NoGrant, NoCompany, NoTenant, NoFlow,
    MaxRotations    \* bound on the rotations of one grant

ASSUME OAuthAssumption ==
    /\ NoCall \notin Calls
    /\ NoGrant \notin Grants
    /\ NoCompany \notin Companies
    /\ NoTenant \notin Tenants
    /\ NoFlow \notin Flows
    /\ MaxRotations \in Nat

VARIABLES
    status,      \* integrations.status; "NONE" while there is no row
    credential,  \* integration_credentials: refresh token, and whether the access token is fresh
    account,     \* integration_external_accounts
    rowLock,     \* the transaction that holds the integrations row
    childLock,   \* the disconnect that holds the rows it deletes
    state,       \* the OAuth states in Redis, and the tenant each one is bound to
    provider,    \* the grants as Conta Azul knows them
    call,        \* what each call is doing
    lost         \* history: grants whose newest refresh token was rolled back

vars == << status, credential, account, rowLock, childLock, state, provider, call, lost >>
database == << status, credential, account, rowLock, childLock >>

-----------------------------------------------------------------------------
(* Data *)

Statuses == {"NONE", "CONNECTED", "DISCONNECTED", "ERROR"}
Rotations == 0..MaxRotations

Credential == [grant: Grants \cup {NoGrant}, gen: Rotations, fresh: BOOLEAN]
NoCredential == [grant |-> NoGrant, gen |-> 0, fresh |-> FALSE]

StateRow == [phase: {"unused", "stored", "gone"}, tenant: Tenants \cup {NoTenant}]
Issued == [company: Companies \cup {NoCompany}, gen: Rotations, valid: BOOLEAN]
Unissued == [company |-> NoCompany, gen |-> 0, valid |-> FALSE]

Purposes == {"callback", "identify", "token", "force", "disconnect"}
Pcs == {"idle", "exchange", "persist", "persistCommit", "load", "lock", "ask", "late",
        "refreshCommit", "whoami", "conflict", "store", "mark", "error",
        "erase", "disconnectRow"}
CallRow == [pc: Pcs, purpose: Purposes, tenant: Tenants \cup {NoTenant},
            flow: Flows \cup {NoFlow}, grant: Grants \cup {NoGrant}, gen: Rotations,
            company: Companies \cup {NoCompany}, conflict: BOOLEAN,
            hadCredential: BOOLEAN, hadAccount: BOOLEAN]
Idle == [pc |-> "idle", purpose |-> "token", tenant |-> NoTenant, flow |-> NoFlow,
         grant |-> NoGrant, gen |-> 0, company |-> NoCompany, conflict |-> FALSE,
         hadCredential |-> FALSE, hadAccount |-> FALSE]

TypeOK ==
    /\ status \in [Tenants -> Statuses]
    /\ credential \in [Tenants -> Credential]
    /\ account \in [Tenants -> Companies \cup {NoCompany}]
    /\ rowLock \in [Tenants -> Calls \cup {NoCall}]
    /\ childLock \in [Tenants -> Calls \cup {NoCall}]
    /\ state \in [Flows -> StateRow]
    /\ provider \in [Grants -> Issued]
    /\ call \in [Calls -> CallRow]
    /\ lost \subseteq Grants
    /\ \A c \in Calls :
          /\ call[c].pc # "idle" => call[c].tenant \in Tenants
          /\ call[c].pc \in {"persist", "persistCommit", "ask", "late", "refreshCommit", "whoami"}
                => call[c].grant \in Grants

Init ==
    /\ status = [t \in Tenants |-> "NONE"]
    /\ credential = [t \in Tenants |-> NoCredential]
    /\ account = [t \in Tenants |-> NoCompany]
    /\ rowLock = [t \in Tenants |-> NoCall]
    /\ childLock = [t \in Tenants |-> NoCall]
    /\ state = [f \in Flows |-> [phase |-> "unused", tenant |-> NoTenant]]
    /\ provider = [g \in Grants |-> Unissued]
    /\ call = [c \in Calls |-> Idle]
    /\ lost = {}

-----------------------------------------------------------------------------
(* Calls and row locks *)

At(c, pc)   == call[c].pc = pc
Goto(c, pc) == call' = [call EXCEPT ![c].pc = pc]
Finish(c)   == call' = [call EXCEPT ![c] = Idle]
T(c)        == call[c].tenant

Free(lock, t) == lock[t] = NoCall
Granted(lock, c) == [lock EXCEPT ![T(c)] = c]
Released(lock, c) == [t \in Tenants |-> IF lock[t] = c THEN NoCall ELSE lock[t]]
ReleaseAll(c) == /\ rowLock' = Released(rowLock, c)
                 /\ childLock' = Released(childLock, c)

\* A disconnect locks the rows it found to delete.
Unlocked(t, found) == \A d \in Calls : childLock[t] = d => ~ call[d][found]

HasCredential(t) == credential[t].grant # NoGrant
\* Mutant: the status alone tells whether there is a credential.
UsableByStatus(t) == status[t] \notin {"NONE", "DISCONNECTED"}

Usable(t) == status[t] \notin {"NONE", "DISCONNECTED"} /\ HasCredential(t)

\* The refresh token a call holds is the newest one, and dies with it.
Loses(c) == IF At(c, "refreshCommit") THEN {call[c].grant} ELSE {}

-----------------------------------------------------------------------------
(* Connecting: startConnect and handleCallback *)

StartConnect(f, t) ==
    /\ state[f].phase = "unused"
    /\ state' = [state EXCEPT ![f] = [phase |-> "stored", tenant |-> t]]
    /\ UNCHANGED << database, provider, call, lost >>

StateExpires(f) ==
    /\ state[f].phase = "stored"
    /\ state' = [state EXCEPT ![f].phase = "gone"]
    /\ UNCHANGED << database, provider, call, lost >>

Callback(c, f) == [Idle EXCEPT !.pc = "exchange", !.purpose = "callback",
                               !.tenant = state[f].tenant, !.flow = f]

\* Mutant: the state is read, and removed only once the callback is through.
ConsumeLater(c, f) ==
    /\ At(c, "idle")
    /\ state[f].phase = "stored"
    /\ call' = [call EXCEPT ![c] = Callback(c, f)]
    /\ UNCHANGED << database, state, provider, lost >>

\* GETDEL: a second callback with the same state finds nothing.  The callback may be
\* of another session, refused by the user, or carry no code.
Consume(c, f) ==
    /\ At(c, "idle")
    /\ state[f].phase = "stored"
    /\ state' = [state EXCEPT ![f].phase = "gone"]
    /\ call' \in {call, [call EXCEPT ![c] = Callback(c, f)]}
    /\ UNCHANGED << database, provider, lost >>

Exchange(c) ==
    /\ At(c, "exchange")
    /\ \E g \in Grants, k \in Companies :
          /\ provider[g] = Unissued
          /\ provider' = [provider EXCEPT ![g] = [company |-> k, gen |-> 0, valid |-> TRUE]]
          /\ call' = [call EXCEPT ![c].pc = "persist", ![c].grant = g]
    /\ UNCHANGED << database, state, lost >>

ExchangeFails(c) ==
    /\ At(c, "exchange")
    /\ Finish(c)
    /\ UNCHANGED << database, state, provider, lost >>

\* persistConnectedTokens: the integration is written first, which locks its row.
Persist(c) ==
    /\ At(c, "persist")
    /\ Free(rowLock, T(c))
    /\ rowLock' = Granted(rowLock, c)
    /\ Goto(c, "persistCommit")
    /\ UNCHANGED << status, credential, account, childLock, state, provider, lost >>

\* Then the credential and the account, which waits for a disconnect deleting them.
PersistCommit(c) ==
    LET t == T(c) IN
    /\ At(c, "persistCommit")
    /\ Free(childLock, t)
    /\ status' = [status EXCEPT ![t] = "CONNECTED"]
    /\ credential' = [credential EXCEPT ![t] = [grant |-> call[c].grant, gen |-> 0,
                                                fresh |-> TRUE]]
    /\ account' = [account EXCEPT ![t] = NoCompany]
    /\ ReleaseAll(c)
    /\ call' = [call EXCEPT ![c] = [Idle EXCEPT !.pc = "load", !.purpose = "identify",
                                                !.tenant = t]]
    /\ UNCHANGED << state, provider, lost >>

-----------------------------------------------------------------------------
(* Tokens: getValidAccessToken, forceRefresh, refreshTokensInLock *)

\* The engine and the identification ask for a token; the engine asks for a new one
\* after a 401, and gives up after a second.
AskToken(c, purpose, t) ==
    /\ At(c, "idle")
    /\ call' = [call EXCEPT ![c] = [Idle EXCEPT !.pc = "load", !.purpose = purpose,
                                                !.tenant = t]]
    /\ UNCHANGED << database, state, provider, lost >>

WithToken(c, g) ==
    \/ call[c].purpose = "identify" /\ call' = [call EXCEPT ![c].pc = "whoami", ![c].grant = g]
    \/ call[c].purpose \in {"token", "force"} /\ Finish(c)
    \/ call[c].purpose = "token" /\ call' = [call EXCEPT ![c].pc = "lock", ![c].purpose = "force"]
    \/ call[c].purpose = "force" /\ Goto(c, "error")

Load(c) ==
    /\ At(c, "load")
    /\ \/ ~ Usable(T(c)) /\ Finish(c)
       \/ Usable(T(c)) /\ credential[T(c)].fresh /\ WithToken(c, credential[T(c)].grant)
       \/ Usable(T(c)) /\ ~ credential[T(c)].fresh /\ Goto(c, "lock")
    /\ UNCHANGED << database, state, provider, lost >>

Reusable(c) == credential[T(c)].fresh /\ call[c].purpose # "force"

Holding(c) == [call EXCEPT ![c].pc = "ask", ![c].grant = credential[T(c)].grant,
                           ![c].gen = credential[T(c)].gen]

\* Mutant: the integration is read without FOR UPDATE.
LockWithoutForUpdate(c) ==
    /\ At(c, "lock")
    /\ Usable(T(c))
    /\ ~ Reusable(c)
    /\ call' = Holding(c)
    /\ UNCHANGED << database, state, provider, lost >>

\* SELECT ... FOR UPDATE; what another call renewed meanwhile is used again.
Lock(c) ==
    LET t == T(c) IN
    /\ At(c, "lock")
    /\ Free(rowLock, t)
    /\ \/ ~ HasCredential(t) /\ Finish(c) /\ UNCHANGED rowLock
       \/ HasCredential(t) /\ (~ Usable(t) \/ Reusable(c))
             /\ WithToken(c, credential[t].grant) /\ UNCHANGED rowLock
       \/ Usable(t) /\ ~ Reusable(c)
             /\ call' = Holding(c) /\ rowLock' = Granted(rowLock, c)
    /\ UNCHANGED << status, credential, account, childLock, state, provider, lost >>

Accepted(c) == LET p == provider[call[c].grant] IN
    p.valid /\ p.gen = call[c].gen /\ p.gen < MaxRotations
Rotated(c) == [provider EXCEPT ![call[c].grant].gen = @ + 1]

\* The provider answers with a new pair of tokens.
Ask(c) ==
    /\ At(c, "ask")
    /\ Accepted(c)
    /\ provider' = Rotated(c)
    /\ call' = [call EXCEPT ![c].pc = "refreshCommit", ![c].gen = @ + 1]
    /\ UNCHANGED << database, state, lost >>

\* Mutant: a refresh that fails leaves its transaction open.
AskFailsHolding(c) ==
    /\ At(c, "ask")
    /\ Goto(c, "error")
    /\ UNCHANGED << database, state, provider, lost >>

\* It refuses, cannot be reached, or has rotated the token but its answer is lost.
AskFails(c) ==
    /\ At(c, "ask")
    /\ \/ UNCHANGED << provider, lost >>
       \/ Accepted(c) /\ provider' = Rotated(c) /\ lost' = lost \cup {call[c].grant}
    /\ ReleaseAll(c)
    /\ Goto(c, "error")
    /\ UNCHANGED << status, credential, account, state >>

\* The transaction's 20 s, waiting for the lock included, run out during the request:
\* it is rolled back while the request goes on.
TransactionExpires(c) ==
    /\ At(c, "ask")
    /\ ReleaseAll(c)
    /\ Goto(c, "late")
    /\ UNCHANGED << status, credential, account, state, provider, lost >>

AnswerLate(c) ==
    /\ At(c, "late")
    /\ \/ UNCHANGED << provider, lost >>
       \/ Accepted(c) /\ provider' = Rotated(c) /\ lost' = lost \cup {call[c].grant}
    /\ Goto(c, "error")
    /\ UNCHANGED << database, state >>

\* Mutant: the new access token is stored, the new refresh token is not.
RefreshCommitAccessOnly(c) ==
    LET t == T(c) IN
    /\ At(c, "refreshCommit")
    /\ Unlocked(t, "hadCredential")
    /\ credential' = [credential EXCEPT ![t].fresh = TRUE]
    /\ status' = [status EXCEPT ![t] = "CONNECTED"]
    /\ ReleaseAll(c)
    /\ WithToken(c, call[c].grant)
    /\ UNCHANGED << account, state, provider, lost >>

\* Both tokens are replaced and the error is cleared, in the same transaction.
RefreshCommit(c) ==
    LET t == T(c) IN
    /\ At(c, "refreshCommit")
    /\ Unlocked(t, "hadCredential")
    /\ credential' = [credential EXCEPT ![t] = [grant |-> call[c].grant,
                                                gen |-> call[c].gen, fresh |-> TRUE]]
    /\ status' = [status EXCEPT ![t] = "CONNECTED"]
    /\ ReleaseAll(c)
    /\ WithToken(c, call[c].grant)
    /\ UNCHANGED << account, state, provider, lost >>

\* markError: whatever made the call fail, the row goes to ERROR, if there is one.
MarkError(c) ==
    LET t == T(c) IN
    /\ At(c, "error")
    /\ Free(rowLock, t)
    /\ status' = IF status[t] = "NONE" THEN status ELSE [status EXCEPT ![t] = "ERROR"]
    /\ Finish(c)
    /\ UNCHANGED << credential, account, rowLock, childLock, state, provider, lost >>

-----------------------------------------------------------------------------
(* Identification *)

\* The token tells its company; a revoked one is refused; any request may fail.
WhoAmI(c) ==
    LET p == provider[call[c].grant] IN
    /\ At(c, "whoami")
    /\ \/ p.valid /\ call' = [call EXCEPT ![c].pc = "conflict", ![c].company = p.company]
       \/ Goto(c, "error")
       \/ Finish(c)
    /\ UNCHANGED << database, state, provider, lost >>

\* findConnectedConflict: another CONNECTED integration has the company already.
FindConflict(c) ==
    /\ At(c, "conflict")
    /\ call' = [call EXCEPT ![c].pc = "store", ![c].conflict =
                   \E u \in Tenants \ {T(c)} :
                       status[u] = "CONNECTED" /\ account[u] = call[c].company]
    /\ UNCHANGED << database, state, provider, lost >>

\* The holder of the integration's row took it with SELECT ... FOR UPDATE, which a foreign
\* key check (FOR KEY SHARE) waits for, as it does not for the lock of an UPDATE.
ForUpdate(d) == call[d].pc \in {"ask", "refreshCommit"}

\* The account row is written whatever the integration has become meanwhile; only a
\* disconnect that is deleting it makes the upsert wait, or, where it inserts the row, a
\* renewal that holds the integration's.
StoreAccount(c) ==
    LET t == T(c) IN
    /\ At(c, "store")
    /\ Unlocked(t, "hadAccount")
    /\ account[t] = NoCompany => \A d \in Calls : rowLock[t] = d => ~ ForUpdate(d)
    /\ account' = [account EXCEPT ![t] = call[c].company]
    /\ Goto(c, IF call[c].conflict THEN "error" ELSE "mark")
    /\ UNCHANGED << status, credential, rowLock, childLock, state, provider, lost >>

\* Mutant: the status is not asked for.
MarkHealthyAlways(c) ==
    LET t == T(c) IN
    /\ At(c, "mark")
    /\ Free(rowLock, t)
    /\ status' = [status EXCEPT ![t] = "CONNECTED"]
    /\ Finish(c)
    /\ UNCHANGED << credential, account, rowLock, childLock, state, provider, lost >>

\* markHealthy: a row that was disconnected meanwhile stays so.
MarkHealthy(c) ==
    LET t == T(c) IN
    /\ At(c, "mark")
    /\ Free(rowLock, t)
    /\ status' = IF status[t] \in {"CONNECTED", "ERROR"}
                   THEN [status EXCEPT ![t] = "CONNECTED"] ELSE status
    /\ Finish(c)
    /\ UNCHANGED << credential, account, rowLock, childLock, state, provider, lost >>

-----------------------------------------------------------------------------
(* Disconnecting *)

StartDisconnect(c, t) ==
    /\ At(c, "idle")
    /\ call' = [call EXCEPT ![c] = [Idle EXCEPT !.pc = "erase", !.purpose = "disconnect",
                                                !.tenant = t]]
    /\ UNCHANGED << database, state, provider, lost >>

\* deleteMany of the credential and the account, which locks the rows it finds: the
\* reverse of the order in which a refresh takes its locks.
Erase(c) ==
    LET t == T(c) IN
    /\ At(c, "erase")
    /\ status[t] # "NONE"
    /\ Free(childLock, t)
    /\ childLock' = IF HasCredential(t) \/ account[t] # NoCompany
                       THEN Granted(childLock, c) ELSE childLock
    /\ call' = [call EXCEPT ![c].pc = "disconnectRow",
                            ![c].hadCredential = HasCredential(t),
                            ![c].hadAccount = account[t] # NoCompany]
    /\ UNCHANGED << status, credential, account, rowLock, state, provider, lost >>

\* There is no row yet: it is created, unless a callback creates it first.
CreateDisconnected(c) ==
    LET t == T(c) IN
    /\ At(c, "erase")
    /\ status[t] = "NONE"
    /\ Free(rowLock, t)
    /\ status' = [status EXCEPT ![t] = "DISCONNECTED"]
    /\ Finish(c)
    /\ UNCHANGED << credential, account, rowLock, childLock, state, provider, lost >>

DisconnectCommit(c) ==
    LET t == T(c) IN
    /\ At(c, "disconnectRow")
    /\ Free(rowLock, t)
    /\ status' = [status EXCEPT ![t] = "DISCONNECTED"]
    /\ credential' = IF call[c].hadCredential
                       THEN [credential EXCEPT ![t] = NoCredential] ELSE credential
    /\ account' = IF call[c].hadAccount THEN [account EXCEPT ![t] = NoCompany] ELSE account
    /\ ReleaseAll(c)
    /\ Finish(c)
    /\ UNCHANGED << state, provider, lost >>

-----------------------------------------------------------------------------
(* Failures and the environment *)

InTransaction(c) == call[c].pc \in {"persist", "persistCommit", "lock", "refreshCommit",
                                    "erase", "disconnectRow"}

\* A statement fails: the connection, the pool, the time limit or a deadlock.
TransactionFails(c) ==
    /\ InTransaction(c)
    /\ ReleaseAll(c)
    /\ lost' = lost \cup Loses(c)
    /\ IF call[c].pc \in {"lock", "refreshCommit"} THEN Goto(c, "error") ELSE Finish(c)
    /\ UNCHANGED << status, credential, account, state, provider >>

\* Whose row lock the next statement of a call needs.
WaitsFor(c, d) ==
    LET t == T(c) IN
    \/ call[c].pc \in {"persist", "lock", "error", "mark", "disconnectRow"} /\ rowLock[t] = d
    \/ At(c, "erase") /\ d = IF status[t] = "NONE" THEN rowLock[t] ELSE childLock[t]
    \/ At(c, "persistCommit") /\ childLock[t] = d
    \/ At(c, "refreshCommit") /\ childLock[t] = d /\ call[d].hadCredential
    \/ At(c, "store") /\ childLock[t] = d /\ call[d].hadAccount
    \/ At(c, "store") /\ account[t] = NoCompany /\ rowLock[t] = d /\ ForUpdate(d)

\* Each waits for a row the other holds; longer cycles do not occur (WaitsEnd).
Deadlocked(c) == \E d \in Calls \ {c} : WaitsFor(c, d) /\ WaitsFor(d, c)

Crash(c) ==
    /\ ~ At(c, "idle")
    /\ ReleaseAll(c)
    /\ lost' = lost \cup Loses(c)
    /\ Finish(c)
    /\ UNCHANGED << status, credential, account, state, provider >>

AccessExpires(t) ==
    /\ credential[t].fresh
    /\ credential' = [credential EXCEPT ![t].fresh = FALSE]
    /\ UNCHANGED << status, account, rowLock, childLock, state, provider, call, lost >>

\* The company withdraws its authorisation.
Revoke(g) ==
    /\ provider[g].valid
    /\ provider' = [provider EXCEPT ![g].valid = FALSE]
    /\ UNCHANGED << database, state, call, lost >>

-----------------------------------------------------------------------------

ConnectStep(c) ==
    \/ Exchange(c) \/ ExchangeFails(c) \/ Persist(c) \/ PersistCommit(c)

TokenStep(c) ==
    \/ Load(c) \/ Lock(c) \/ Ask(c) \/ AskFails(c) \/ AnswerLate(c)
    \/ RefreshCommit(c) \/ MarkError(c)

IdentifyStep(c) == WhoAmI(c) \/ FindConflict(c) \/ StoreAccount(c) \/ MarkHealthy(c)

DisconnectStep(c) == Erase(c) \/ CreateDisconnected(c) \/ DisconnectCommit(c)

Progress(c) == ConnectStep(c) \/ TokenStep(c) \/ IdentifyStep(c) \/ DisconnectStep(c)

Begin(c) ==
    \/ \E f \in Flows : Consume(c, f)
    \/ \E t \in Tenants : StartDisconnect(c, t)
    \/ \E t \in Tenants, p \in {"identify", "token"} : AskToken(c, p, t)

Next ==
    \/ \E c \in Calls : Begin(c) \/ Progress(c) \/ TransactionExpires(c)
                            \/ TransactionFails(c) \/ Crash(c)
    \/ \E f \in Flows : StateExpires(f) \/ \E t \in Tenants : StartConnect(f, t)
    \/ \E t \in Tenants : AccessExpires(t)
    \/ \E g \in Grants : Revoke(g)

Spec == Init /\ [][Next]_vars

(* Fairness.  Every request has a time limit, PostgreSQL grants row locks in the *)
(* order they are asked for, and it aborts one transaction of a deadlock.        *)
Fairness ==
    \A c \in Calls : SF_vars(Progress(c)) /\ WF_vars(Deadlocked(c) /\ TransactionFails(c))

FairSpec == Spec /\ Fairness

-----------------------------------------------------------------------------
(* What the grant promises *)

\* One OAuth state lets at most one callback through, and is gone by then.
StateUsedOnce ==
    \A f \in Flows, c \in Calls : call[c].flow = f =>
        /\ state[f].phase = "gone" /\ state[f].tenant = T(c)
        /\ \A d \in Calls : call[d].flow = f => d = c

\* Only a callback that connects a tenant gives it another grant: a renewal that was
\* under way neither restores the replaced grant nor revives a removed one.
RenewalKeepsGrant ==
    [][\A t \in Tenants :
          credential'[t].grant \notin {credential[t].grant, NoGrant}
             => \E c \in Calls : At(c, "persistCommit") /\ T(c) = t /\ call'[c] # call[c]
      ]_credential

\* The stored refresh token is the provider's newest one, or its renewal is about to
\* commit: concurrent renewals never overwrite it with an older one, and only a
\* renewal that was rolled back loses it.
StoredTokenIsNewest ==
    \A t \in Tenants :
        LET k == credential[t] IN
        HasCredential(t) /\ k.grant \notin lost =>
            \/ k.gen = provider[k.grant].gen
            \/ \E c \in Calls : At(c, "refreshCommit") /\ T(c) = t /\ rowLock[t] = c

\* What the synchronisation sees of a tenant: the status, the company its credential is
\* for and the company it was identified as.
IntegrationOf(t) ==
    [status     |-> IF status[t] = "NONE" THEN "DISCONNECTED" ELSE status[t],
     credential |-> IF HasCredential(t) THEN provider[credential[t].grant].company
                                        ELSE NoCompany,
     identity   |-> account[t]]

\* Seen from there, every step of the grant is one the synchronisation reckons with: calls
\* that overlap, expire, deadlock or die half-way produce no other change, for no tenant.
Integration(t) == INSTANCE IntegrationLifecycle
    WITH Accounts <- Companies, NoAccount <- NoCompany, integration <- IntegrationOf(t)
ImplementsIntegration ==
    /\ \A t \in Tenants : Integration(t)!IntegrationInit
    /\ [][\A t \in Tenants : [Integration(t)!IntegrationNext]_(IntegrationOf(t))]_vars

\* Rows are held by transactions in progress only, so whoever a call waits for goes on,
\* waits for one that goes on, or is in a deadlock, which PostgreSQL ends: a disconnect and
\* a renewal lock the rows in opposite orders, but no third call closes a longer cycle.
WaitsEnd ==
    \A c, d \in Calls : WaitsFor(c, d) =>
        /\ ~ At(d, "idle")
        /\ \/ Deadlocked(d)
           \/ \A e, f \in Calls : ~ (WaitsFor(d, e) /\ WaitsFor(e, f))

\* Every call ends: none waits forever for a row, also when a disconnect and a renewal
\* lock the rows in opposite orders.
EveryCallEnds == \A c \in Calls : call[c].pc # "idle" ~> call[c].pc = "idle"

-----------------------------------------------------------------------------
(* What the documentation says and the code does not keep *)

\* docs/18, 6: a company that another CONNECTED integration has leads to ERROR, so when
\* no call is under way no two tenants are connected to the same company.
CompanyConnectedOnce ==
    (\A c \in Calls : At(c, "idle")) =>
        \A t, u \in Tenants :
            t # u /\ status[t] = "CONNECTED" /\ status[u] = "CONNECTED"
                  /\ account[t] # NoCompany
                => account[t] # account[u]
=============================================================================
