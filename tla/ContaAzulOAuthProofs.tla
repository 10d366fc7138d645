------------------------ MODULE ContaAzulOAuthProofs ------------------------
(***************************************************************************)
(* What holds of ContaAzulOAuth for any tenants, calls, OAuth states,      *)
(* grants and companies, and any number of rotations.                      *)
(***************************************************************************)
EXTENDS ContaAzulOAuth, TLAPS

-----------------------------------------------------------------------------
(* The inductive invariant *)

\* A stored state is bound to a tenant.
StatesBound == \A f \in Flows : state[f].phase = "stored" => state[f].tenant \in Tenants

\* A transaction that is about to write the credential holds its row.
HoldsRow ==
    \A c \in Calls : call[c].pc \in {"persistCommit", "ask", "refreshCommit"}
                        => rowLock[T(c)] = c

\* Whatever grant is stored or used has been issued, so that the next one is another.
IsIssued(g) == provider[g].company \in Companies
GrantsAreIssued ==
    /\ \A t \in Tenants : HasCredential(t) => IsIssued(credential[t].grant)
    /\ \A c \in Calls : call[c].grant # NoGrant => IsIssued(call[c].grant)

\* A grant belongs to one tenant.
GrantsAreSeparate ==
    \A t, u \in Tenants : HasCredential(t) /\ credential[t].grant = credential[u].grant => t = u

\* A callback that has not written its grant is the only one to know it.
Persisting(c) == call[c].pc \in {"persist", "persistCommit"}
NewGrantIsUnused ==
    \A c \in Calls : Persisting(c) =>
        /\ provider[call[c].grant].gen = 0
        /\ \A t \in Tenants : credential[t].grant # call[c].grant
        /\ \A d \in Calls : call[d].grant = call[c].grant => d = c

\* A renewal that holds its row uses the refresh token stored there; one whose
\* transaction has run out uses that one or an older one.
RenewsStored(c) ==
    At(c, "ask") => /\ credential[T(c)].grant = call[c].grant
                    /\ credential[T(c)].gen = call[c].gen
StoresRenewed(c) ==
    At(c, "refreshCommit") => /\ credential[T(c)].grant = call[c].grant
                              /\ credential[T(c)].gen + 1 = call[c].gen
                              /\ provider[call[c].grant].gen = call[c].gen
LateIsOld(c) ==
    At(c, "late") => \A t \in Tenants : credential[t].grant = call[c].grant
                                            => call[c].gen <= credential[t].gen
Renewals == \A c \in Calls : RenewsStored(c) /\ StoresRenewed(c) /\ LateIsOld(c)

GrantInvariant ==
    /\ StatesBound
    /\ StateUsedOnce
    /\ HoldsRow
    /\ GrantsAreIssued
    /\ GrantsAreSeparate
    /\ NewGrantIsUnused
    /\ Renewals
    /\ StoredTokenIsNewest

-----------------------------------------------------------------------------
(* What a step does to the call that takes it *)

GrantUsers == {"persist", "persistCommit", "ask", "late", "refreshCommit", "whoami"}
CallOK(row) ==
    /\ row \in CallRow
    /\ row.pc # "idle" => row.tenant \in Tenants
    /\ row.pc \in GrantUsers => row.grant \in Grants

\* Only the call of the step changes.
OnlyCall(c) == call' = [call EXCEPT ![c] = call'[c]] /\ CallOK(call'[c])

\* It keeps its state, if it has one, and learns of no new grant.
KeepsFlow(c) ==
    call'[c].flow # NoFlow => call'[c].flow = call[c].flow /\ call'[c].tenant = T(c)
KeepsGrants(c) ==
    \/ call'[c].grant \in {NoGrant, call[c].grant}
    \/ T(c) \in Tenants /\ call'[c].grant = credential[T(c)].grant

\* Most steps end where the call neither renews nor connects.
Critical == {"persist", "persistCommit", "ask", "late", "refreshCommit"}
Walked(c) == OnlyCall(c) /\ KeepsFlow(c) /\ KeepsGrants(c) /\ call'[c].pc \notin Critical

LEMMA CallsAreOK ==
    ASSUME TypeOK
    PROVE  call \in [Calls -> CallRow] /\ \A c \in Calls : CallOK(call[c])
BY DEF TypeOK, CallOK, GrantUsers

LEMMA Replacing ==
    ASSUME TypeOK, NEW c \in Calls, NEW row, CallOK(row), call' = [call EXCEPT ![c] = row]
    PROVE  call'[c] = row /\ OnlyCall(c)
BY CallsAreOK DEF OnlyCall

LEMMA Finishing ==
    ASSUME TypeOK, NEW c \in Calls, Finish(c)
    PROVE  Walked(c) /\ call'[c] = Idle
<1>1. CallOK(Idle)
  BY OAuthAssumption DEF CallOK, Idle, CallRow, Pcs, Purposes, Rotations, GrantUsers
<1>2. call'[c] = Idle /\ OnlyCall(c)
  BY <1>1, Replacing DEF Finish
<1> QED BY <1>2 DEF Walked, Idle, KeepsFlow, KeepsGrants, Critical

LEMMA Going ==
    ASSUME TypeOK, NEW c \in Calls, ~ At(c, "idle"), NEW pc \in Pcs, Goto(c, pc),
           pc \notin GrantUsers \/ call[c].grant \in Grants
    PROVE  /\ OnlyCall(c)
           /\ call'[c] = [call[c] EXCEPT !.pc = pc]
           /\ pc \notin Critical => Walked(c)
<1> DEFINE row == [call[c] EXCEPT !.pc = pc]
<1>1. CallOK(call[c]) /\ call[c].pc # "idle" /\ call[c] \in CallRow
  BY CallsAreOK DEF At, CallOK
<1>2. CallOK(row)
  BY <1>1 DEF CallOK, CallRow
<1>3. call' = [call EXCEPT ![c] = row]
  BY DEF Goto
<1>4. call'[c] = row /\ OnlyCall(c)
  BY <1>2, <1>3, Replacing
<1>5. /\ row.flow = call[c].flow
      /\ row.tenant = call[c].tenant
      /\ row.grant = call[c].grant
      /\ row.pc = pc
  BY <1>1 DEF CallRow
<1>6. call'[c] = [call[c] EXCEPT !.pc = pc]
  BY <1>4
<1> HIDE DEF row
<1>7. call'[c].pc = pc /\ KeepsFlow(c) /\ KeepsGrants(c)
  BY <1>4, <1>5 DEF KeepsFlow, KeepsGrants, T
<1>8. pc \notin Critical => Walked(c)
  BY <1>4, <1>7 DEF Walked
<1> QED BY <1>4, <1>6, <1>8

LEMMA Beginning ==
    ASSUME TypeOK, NEW c \in Calls, NEW t \in Tenants, NEW p \in Purposes,
           NEW pc \in {"load", "erase"},
           call' = [call EXCEPT ![c] = [Idle EXCEPT !.pc = pc, !.purpose = p, !.tenant = t]]
    PROVE  Walked(c)
<1> DEFINE row == [Idle EXCEPT !.pc = pc, !.purpose = p, !.tenant = t]
<1>1. 0 \in Rotations
  BY OAuthAssumption DEF Rotations
<1>2. row \in CallRow
  BY <1>1 DEF Idle, CallRow, Pcs
<1>3. row.pc = pc /\ row.tenant = t /\ row.flow = NoFlow /\ row.grant = NoGrant
  BY DEF Idle
<1> HIDE DEF row
<1>4. CallOK(row)
  BY <1>2, <1>3 DEF CallOK, GrantUsers
<1>5. call'[c] = row /\ OnlyCall(c)
  BY <1>4, Replacing DEF row
<1> QED BY <1>3, <1>5 DEF Walked, KeepsFlow, KeepsGrants, Critical

\* A call that has its token goes on with what it wanted it for.
LEMMA HavingToken ==
    ASSUME TypeOK, NEW c \in Calls, ~ At(c, "idle"), NEW g \in Grants, WithToken(c, g),
           g \in {call[c].grant, credential[T(c)].grant}
    PROVE  Walked(c)
<1>1. call[c] \in CallRow /\ CallOK(call[c]) /\ call[c].pc # "idle" /\ T(c) \in Tenants
  BY CallsAreOK DEF CallOK, At, T
<1>2. CASE Finish(c)
  BY <1>2, Finishing
<1>3. CASE Goto(c, "error")
  BY <1>3, Going DEF Pcs, GrantUsers, Critical
<1>4. CASE call' = [call EXCEPT ![c].pc = "lock", ![c].purpose = "force"]
  <2> DEFINE row == [call[c] EXCEPT !.pc = "lock", !.purpose = "force"]
  <2>1. CallOK(row)
    BY <1>1 DEF CallOK, CallRow, Pcs, Purposes, GrantUsers
  <2>2. call' = [call EXCEPT ![c] = row]
    BY <1>4
  <2>3. call'[c] = row /\ OnlyCall(c)
    BY <2>1, <2>2, Replacing
  <2> QED BY <2>3, <1>1 DEF Walked, CallRow, KeepsFlow, KeepsGrants, Critical, T
<1>5. CASE call' = [call EXCEPT ![c].pc = "whoami", ![c].grant = g]
  <2> DEFINE row == [call[c] EXCEPT !.pc = "whoami", !.grant = g]
  <2>1. CallOK(row)
    BY <1>1 DEF CallOK, CallRow, Pcs, GrantUsers
  <2>2. call' = [call EXCEPT ![c] = row]
    BY <1>5
  <2>3. call'[c] = row /\ OnlyCall(c)
    BY <2>1, <2>2, Replacing
  <2> QED BY <2>3, <1>1 DEF Walked, CallRow, KeepsFlow, KeepsGrants, Critical, T
<1> QED BY <1>2, <1>3, <1>4, <1>5 DEF WithToken

\* A call past its beginning has a tenant, and the grant its step is about.
LEMMA CallFacts ==
    ASSUME TypeOK, NEW c \in Calls, ~ At(c, "idle")
    PROVE  /\ call[c] \in CallRow
           /\ T(c) \in Tenants
           /\ call[c].pc \in GrantUsers => call[c].grant \in Grants
           /\ credential[T(c)] \in Credential
BY DEF TypeOK, At, T, GrantUsers

Walking(c) ==
    \/ ExchangeFails(c) \/ PersistCommit(c) \/ Load(c) \/ AskFails(c) \/ AnswerLate(c)
    \/ RefreshCommit(c) \/ MarkError(c) \/ IdentifyStep(c) \/ DisconnectStep(c)
    \/ TransactionFails(c) \/ Crash(c)
    \/ \E t \in Tenants : StartDisconnect(c, t)
    \/ \E t \in Tenants, p \in {"identify", "token"} : AskToken(c, p, t)

LEMMA WalkingCall ==
    ASSUME TypeOK, NEW c \in Calls, Walking(c)
    PROVE  Walked(c)
<1>1. CASE Finish(c)
  BY <1>1, Finishing
<1>2. ASSUME NEW pc \in {"lock", "error", "store", "mark", "disconnectRow"},
             Goto(c, pc), ~ At(c, "idle")
      PROVE  Walked(c)
  BY <1>2, Going DEF Pcs, GrantUsers, Critical
<1>3. CASE ExchangeFails(c) \/ MarkError(c) \/ MarkHealthy(c) \/ CreateDisconnected(c)
           \/ DisconnectCommit(c) \/ Crash(c)
  BY <1>1, <1>3 DEF ExchangeFails, MarkError, MarkHealthy, CreateDisconnected,
                    DisconnectCommit, Crash
<1>4. CASE PersistCommit(c)
  <2>1. T(c) \in Tenants
    BY <1>4, CallFacts DEF PersistCommit, At
  <2> QED BY <1>4, <2>1, Beginning DEF PersistCommit, Purposes
<1>5. CASE Load(c)
  <2>1. ~ At(c, "idle") /\ T(c) \in Tenants /\ credential[T(c)] \in Credential
    BY <1>5, CallFacts DEF Load, At
  <2>2. Usable(T(c)) => credential[T(c)].grant \in Grants
    BY <2>1 DEF Usable, HasCredential, Credential
  <2>3. CASE Finish(c) \/ Goto(c, "lock")
    BY <2>1, <2>3, <1>1, <1>2
  <2>4. CASE Usable(T(c)) /\ WithToken(c, credential[T(c)].grant)
    BY <2>1, <2>2, <2>4, HavingToken
  <2> QED BY <1>5, <2>3, <2>4 DEF Load
<1>6. CASE AskFails(c) \/ AnswerLate(c)
  BY <1>2, <1>6 DEF AskFails, AnswerLate, At
<1>7. CASE RefreshCommit(c)
  <2>1. ~ At(c, "idle") /\ call[c].grant \in Grants
    BY <1>7, CallFacts DEF RefreshCommit, At, GrantUsers
  <2> QED BY <1>7, <2>1, HavingToken DEF RefreshCommit
<1>8. CASE WhoAmI(c)
  <2>1. ~ At(c, "idle") /\ call[c] \in CallRow /\ CallOK(call[c])
    BY <1>8, CallFacts, CallsAreOK DEF WhoAmI, At
  <2>2. CASE Finish(c) \/ Goto(c, "error")
    BY <2>1, <2>2, <1>1, <1>2
  <2>3. CASE /\ provider[call[c].grant].valid
             /\ call' = [call EXCEPT ![c].pc = "conflict",
                                    ![c].company = provider[call[c].grant].company]
    <3> DEFINE row == [call[c] EXCEPT !.pc = "conflict",
                                      !.company = provider[call[c].grant].company]
    <3>1. provider[call[c].grant].company \in Companies \cup {NoCompany}
      BY <1>8, CallFacts DEF WhoAmI, At, GrantUsers, TypeOK, Issued
    <3>2. CallOK(row)
      BY <2>1, <3>1 DEF CallOK, CallRow, Pcs, GrantUsers, At
    <3>3. call' = [call EXCEPT ![c] = row]
      BY <2>3
    <3>4. call'[c] = row /\ OnlyCall(c)
      BY <3>2, <3>3, Replacing
    <3> QED BY <3>4, <2>1 DEF Walked, CallRow, KeepsFlow, KeepsGrants, Critical, T
  <2> QED BY <1>8, <2>2, <2>3 DEF WhoAmI
<1>9. CASE FindConflict(c)
  <2> DEFINE found == \E u \in Tenants \ {T(c)} :
                         status[u] = "CONNECTED" /\ account[u] = call[c].company
             row == [call[c] EXCEPT !.pc = "store", !.conflict = found]
  <2>1. ~ At(c, "idle") /\ call[c] \in CallRow /\ CallOK(call[c]) /\ found \in BOOLEAN
    BY <1>9, CallFacts, CallsAreOK DEF FindConflict, At
  <2>2. call' = [call EXCEPT ![c] = row]
    BY <1>9 DEF FindConflict
  <2> HIDE DEF found
  <2>3. CallOK(row)
    BY <2>1 DEF CallOK, CallRow, Pcs, GrantUsers, At
  <2>4. call'[c] = row /\ OnlyCall(c)
    BY <2>2, <2>3, Replacing
  <2> QED BY <2>4, <2>1 DEF Walked, CallRow, KeepsFlow, KeepsGrants, Critical, T
<1>10. CASE StoreAccount(c)
  BY <1>2, <1>10 DEF StoreAccount, At
<1>11. CASE Erase(c)
  <2> DEFINE k == HasCredential(T(c))
             a == account[T(c)] # NoCompany
             row == [call[c] EXCEPT !.pc = "disconnectRow", !.hadCredential = k, !.hadAccount = a]
  <2>1. ~ At(c, "idle") /\ call[c] \in CallRow /\ CallOK(call[c])
    BY <1>11, CallFacts, CallsAreOK DEF Erase, At
  <2>2. k \in BOOLEAN /\ a \in BOOLEAN
    BY DEF HasCredential
  <2> HIDE DEF k, a
  <2>3. CallOK(row)
    <3>1. row \in CallRow
      BY <2>1, <2>2 DEF CallRow, Pcs
    <3>2. row.pc = "disconnectRow" /\ row.tenant = call[c].tenant
      BY <2>1 DEF CallRow
    <3> QED BY <2>1, <3>1, <3>2 DEF CallOK, GrantUsers, At
  <2>4. call' = [call EXCEPT ![c] = row]
    BY <1>11 DEF Erase, k, a
  <2>5. call'[c] = row /\ OnlyCall(c)
    BY <2>3, <2>4, Replacing
  <2> QED BY <2>5, <2>1 DEF Walked, CallRow, KeepsFlow, KeepsGrants, Critical, T
<1>12. CASE TransactionFails(c)
  BY <1>1, <1>2, <1>12 DEF TransactionFails, InTransaction, At
<1>13. CASE \E t \in Tenants : StartDisconnect(c, t)
  BY <1>13, Beginning DEF StartDisconnect, Purposes
<1>14. CASE \E t \in Tenants, p \in {"identify", "token"} : AskToken(c, p, t)
  BY <1>14, Beginning DEF AskToken, Purposes
<1> QED BY <1>3, <1>4, <1>5, <1>6, <1>7, <1>8, <1>9, <1>10, <1>11, <1>12, <1>13, <1>14
        DEF Walking, IdentifyStep, DisconnectStep

\* The other steps of a call.
LEMMA ConsumingCall ==
    ASSUME TypeOK, StatesBound, NEW c \in Calls, NEW f \in Flows, Consume(c, f)
    PROVE  \/ call' = call
           \/ OnlyCall(c) /\ call'[c] = Callback(c, f)
<1>1. 0 \in Rotations /\ state[f].tenant \in Tenants
  BY OAuthAssumption DEF Rotations, Consume, StatesBound
<1>2. CallOK(Callback(c, f))
  BY <1>1 DEF Callback, CallOK, Idle, CallRow, Pcs, Purposes, GrantUsers
<1>3. CASE call' = [call EXCEPT ![c] = Callback(c, f)]
  BY <1>2, <1>3, Replacing
<1> QED BY <1>3 DEF Consume

LEMMA ExchangingCall ==
    ASSUME TypeOK, NEW c \in Calls, NEW g \in Grants, At(c, "exchange"),
           call' = [call EXCEPT ![c].pc = "persist", ![c].grant = g]
    PROVE  OnlyCall(c) /\ call'[c] = [call[c] EXCEPT !.pc = "persist", !.grant = g]
<1> DEFINE row == [call[c] EXCEPT !.pc = "persist", !.grant = g]
<1>1. call[c] \in CallRow /\ CallOK(call[c])
  BY CallsAreOK DEF CallOK
<1>2. CallOK(row)
  BY <1>1 DEF CallOK, CallRow, Pcs, GrantUsers, At
<1>3. call' = [call EXCEPT ![c] = row]
  OBVIOUS
<1> QED BY <1>2, <1>3, Replacing

LEMMA PersistingCall ==
    ASSUME TypeOK, NEW c \in Calls, Persist(c)
    PROVE  OnlyCall(c) /\ call'[c] = [call[c] EXCEPT !.pc = "persistCommit"]
BY Going, CallFacts DEF Persist, Pcs, GrantUsers, At

LEMMA ExpiringCall ==
    ASSUME TypeOK, NEW c \in Calls, TransactionExpires(c)
    PROVE  OnlyCall(c) /\ call'[c] = [call[c] EXCEPT !.pc = "late"]
BY Going, CallFacts DEF TransactionExpires, Pcs, GrantUsers, At

LEMMA AskingCall ==
    ASSUME TypeOK, NEW c \in Calls, Ask(c)
    PROVE  /\ OnlyCall(c)
           /\ call'[c] = [call[c] EXCEPT !.pc = "refreshCommit", !.gen = call[c].gen + 1]
<1> DEFINE row == [call[c] EXCEPT !.pc = "refreshCommit", !.gen = call[c].gen + 1]
<1>1. /\ call[c] \in CallRow /\ CallOK(call[c])
      /\ call[c].pc = "ask" /\ call[c].grant \in Grants /\ call[c].tenant \in Tenants
  BY CallsAreOK, CallFacts DEF CallOK, Ask, At, GrantUsers, T
<1>2. call[c].gen + 1 \in Rotations
  BY <1>1, OAuthAssumption DEF Ask, Accepted, CallRow, TypeOK, Issued, Rotations
<1>3. CallOK(row)
  BY <1>1, <1>2 DEF CallOK, CallRow, Pcs, GrantUsers
<1>4. call' = [call EXCEPT ![c] = row]
  BY <1>1 DEF Ask, CallRow
<1> QED BY <1>3, <1>4, Replacing

\* A call that asks for the lock gets it, or ends, or finds a token.
LEMMA LockingCall ==
    ASSUME TypeOK, NEW c \in Calls, Lock(c)
    PROVE  \/ Walked(c) /\ UNCHANGED rowLock
           \/ /\ OnlyCall(c)
              /\ call'[c].pc = "ask" /\ KeepsFlow(c) /\ call'[c].tenant = T(c)
              /\ call'[c].grant = credential[T(c)].grant
              /\ call'[c].gen = credential[T(c)].gen
              /\ Usable(T(c)) /\ HasCredential(T(c)) /\ rowLock' = Granted(rowLock, c)
<1>1. ~ At(c, "idle") /\ T(c) \in Tenants /\ credential[T(c)] \in Credential
      /\ call[c] \in CallRow /\ CallOK(call[c])
  BY CallFacts, CallsAreOK DEF Lock, At
<1>2. HasCredential(T(c)) => credential[T(c)].grant \in Grants
  BY <1>1 DEF HasCredential, Credential
<1>3. CASE Finish(c) /\ UNCHANGED rowLock
  BY <1>3, Finishing
<1>4. CASE /\ HasCredential(T(c))
           /\ WithToken(c, credential[T(c)].grant)
           /\ UNCHANGED rowLock
  BY <1>1, <1>2, <1>4, HavingToken
<1>5. CASE Usable(T(c)) /\ call' = Holding(c) /\ rowLock' = Granted(rowLock, c)
  <2> DEFINE row == [call[c] EXCEPT !.pc = "ask", !.grant = credential[T(c)].grant,
                                    !.gen = credential[T(c)].gen]
  <2>1. HasCredential(T(c)) /\ credential[T(c)].grant \in Grants
    BY <1>2, <1>5 DEF Usable
  <2>2. CallOK(row)
    BY <1>1, <2>1 DEF CallOK, CallRow, Credential, Pcs, GrantUsers, At
  <2>3. call' = [call EXCEPT ![c] = row]
    BY <1>5 DEF Holding
  <2>4. call'[c] = row /\ OnlyCall(c)
    BY <2>2, <2>3, Replacing
  <2>5. /\ row.pc = "ask" /\ row.tenant = T(c) /\ row.flow = call[c].flow
        /\ row.grant = credential[T(c)].grant /\ row.gen = credential[T(c)].gen
    BY <1>1 DEF CallRow, T
  <2> QED BY <2>1, <2>4, <2>5, <1>5 DEF KeepsFlow
<1> QED BY <1>3, <1>4, <1>5 DEF Lock

-----------------------------------------------------------------------------
(* Types *)

\* The calls keep their types in every step.
LEMMA CallsKeepTypes ==
    ASSUME TypeOK, \/ call' = call \/ \E c \in Calls : OnlyCall(c)
    PROVE  call' \in [Calls -> CallRow] /\ \A d \in Calls : CallOK(call'[d])
BY CallsAreOK DEF OnlyCall, CallOK

LEMMA OtherCalls ==
    ASSUME TypeOK, NEW c \in Calls, OnlyCall(c)
    PROVE  \A d \in Calls : d # c => call'[d] = call[d]
BY DEF TypeOK, OnlyCall

\* Everything but the calls.
DatabaseOK ==
    /\ status \in [Tenants -> Statuses]
    /\ credential \in [Tenants -> Credential]
    /\ account \in [Tenants -> Companies \cup {NoCompany}]
    /\ rowLock \in [Tenants -> Calls \cup {NoCall}]
    /\ childLock \in [Tenants -> Calls \cup {NoCall}]
EnvironmentOK ==
    /\ state \in [Flows -> StateRow]
    /\ provider \in [Grants -> Issued]
    /\ lost \subseteq Grants

LEMMA TypesFromParts ==
    ASSUME DatabaseOK', EnvironmentOK', call' \in [Calls -> CallRow],
           \A d \in Calls : CallOK(call'[d])
    PROVE  TypeOK'
BY DEF DatabaseOK, EnvironmentOK, CallOK, GrantUsers, TypeOK

LEMMA Releasing ==
    ASSUME TypeOK, NEW c \in Calls, ReleaseAll(c)
    PROVE  /\ rowLock' \in [Tenants -> Calls \cup {NoCall}]
           /\ childLock' \in [Tenants -> Calls \cup {NoCall}]
           /\ \A t \in Tenants : rowLock'[t] = IF rowLock[t] = c THEN NoCall ELSE rowLock[t]
BY DEF ReleaseAll, Released, TypeOK

LEMMA DatabaseTypes ==
    ASSUME TypeOK, [Next]_vars
    PROVE  DatabaseOK'
<1>1. DatabaseOK /\ NoCredential \in Credential
  BY OAuthAssumption DEF DatabaseOK, TypeOK, NoCredential, Credential, Rotations
<1>2. CASE UNCHANGED database
  BY <1>1, <1>2 DEF database, DatabaseOK
<1>3. ASSUME NEW c \in Calls, Persist(c) \/ Lock(c) \/ Erase(c)
      PROVE  DatabaseOK'
  BY <1>1, <1>3 DEF Persist, Lock, Erase, Granted, DatabaseOK
<1>4. ASSUME NEW c \in Calls, AskFails(c) \/ TransactionExpires(c) \/ TransactionFails(c)
                               \/ Crash(c)
      PROVE  DatabaseOK'
  BY <1>1, <1>4, Releasing
     DEF AskFails, TransactionExpires, TransactionFails, Crash, DatabaseOK
<1>5. ASSUME NEW c \in Calls, MarkError(c) \/ MarkHealthy(c) \/ CreateDisconnected(c)
      PROVE  DatabaseOK'
  BY <1>1, <1>5 DEF MarkError, MarkHealthy, CreateDisconnected, DatabaseOK, Statuses
<1>6. ASSUME NEW c \in Calls, PersistCommit(c)
      PROVE  DatabaseOK'
  <2>1. [grant |-> call[c].grant, gen |-> 0, fresh |-> TRUE] \in Credential
    BY <1>6, CallFacts, OAuthAssumption
       DEF PersistCommit, At, GrantUsers, Credential, Rotations
  <2> QED BY <1>1, <1>6, <2>1, Releasing DEF PersistCommit, DatabaseOK, Statuses
<1>7. ASSUME NEW c \in Calls, RefreshCommit(c)
      PROVE  DatabaseOK'
  <2>1. [grant |-> call[c].grant, gen |-> call[c].gen, fresh |-> TRUE] \in Credential
    BY <1>7, CallFacts DEF RefreshCommit, At, GrantUsers, Credential, CallRow
  <2> QED BY <1>1, <1>7, <2>1, Releasing DEF RefreshCommit, DatabaseOK, Statuses
<1>8. ASSUME NEW c \in Calls, StoreAccount(c)
      PROVE  DatabaseOK'
  <2>1. call[c].company \in Companies \cup {NoCompany}
    BY <1>8, CallFacts DEF StoreAccount, At, CallRow
  <2> QED BY <1>1, <1>8, <2>1 DEF StoreAccount, DatabaseOK
<1>9. ASSUME NEW c \in Calls, DisconnectCommit(c)
      PROVE  DatabaseOK'
  BY <1>1, <1>9, Releasing DEF DisconnectCommit, DatabaseOK, Statuses
<1>10. ASSUME NEW t \in Tenants, AccessExpires(t)
       PROVE  DatabaseOK'
  BY <1>1, <1>10 DEF AccessExpires, DatabaseOK, Credential
<1>11. ASSUME NEW c \in Calls,
              \/ \E f \in Flows : Consume(c, f)
              \/ \E t \in Tenants : StartDisconnect(c, t)
              \/ \E t \in Tenants, p \in {"identify", "token"} : AskToken(c, p, t)
              \/ Exchange(c) \/ ExchangeFails(c) \/ Load(c) \/ Ask(c) \/ AnswerLate(c)
              \/ WhoAmI(c) \/ FindConflict(c)
       PROVE  UNCHANGED database
  BY <1>11 DEF Consume, StartDisconnect, AskToken, Exchange, ExchangeFails, Load, Ask,
               AnswerLate, WhoAmI, FindConflict
<1>12. ASSUME \/ \E f \in Flows : StateExpires(f) \/ \E t \in Tenants : StartConnect(f, t)
              \/ \E g \in Grants : Revoke(g)
              \/ UNCHANGED vars
       PROVE  UNCHANGED database
  BY <1>12 DEF StateExpires, StartConnect, Revoke, vars, database
<1> QED BY <1>2, <1>3, <1>4, <1>5, <1>6, <1>7, <1>8, <1>9, <1>10, <1>11, <1>12
        DEF Next, Begin, Progress, ConnectStep, TokenStep, IdentifyStep, DisconnectStep

\* The provider forgets no grant it has issued, nor the company it is for.
IssuesStand == \A g \in Grants : IsIssued(g) => provider'[g].company = provider[g].company

LEMMA EnvironmentTypes ==
    ASSUME TypeOK, [Next]_vars
    PROVE  /\ EnvironmentOK'
           /\ IssuesStand
<1>1. EnvironmentOK
  BY DEF EnvironmentOK, TypeOK
<1>2. CASE UNCHANGED << state, provider, lost >>
  BY <1>1, <1>2 DEF EnvironmentOK, IsIssued, IssuesStand
<1>3. ASSUME NEW f \in Flows, StateExpires(f) \/ \E t \in Tenants : StartConnect(f, t)
      PROVE  /\ EnvironmentOK'
             /\ IssuesStand
  BY <1>1, <1>3 DEF StateExpires, StartConnect, EnvironmentOK, StateRow, IsIssued, IssuesStand
<1>12. ASSUME NEW c \in Calls, NEW f \in Flows, Consume(c, f)
       PROVE  /\ EnvironmentOK'
              /\ IssuesStand
  BY <1>1, <1>12 DEF Consume, EnvironmentOK, StateRow, IsIssued, IssuesStand
<1>4. ASSUME NEW c \in Calls, Exchange(c)
      PROVE  /\ EnvironmentOK'
             /\ IssuesStand
  <2>1. PICK g \in Grants, k \in Companies :
            /\ provider[g] = Unissued
            /\ provider' = [provider EXCEPT ![g] = [company |-> k, gen |-> 0, valid |-> TRUE]]
    BY <1>4 DEF Exchange
  <2>2. [company |-> k, gen |-> 0, valid |-> TRUE] \in Issued
    BY OAuthAssumption DEF Issued, Rotations
  <2>3. UNCHANGED << state, lost >>
    BY <1>4 DEF Exchange
  <2>4. ~ IsIssued(g)
    BY <2>1, OAuthAssumption DEF IsIssued, Unissued
  <2> QED BY <1>1, <2>1, <2>2, <2>3, <2>4 DEF EnvironmentOK, IsIssued, IssuesStand
<1>5. ASSUME NEW c \in Calls, Ask(c) \/ AskFails(c) \/ AnswerLate(c)
      PROVE  /\ EnvironmentOK'
             /\ IssuesStand
  <2>1. call[c].grant \in Grants
    BY <1>5, CallFacts DEF Ask, AskFails, AnswerLate, At, GrantUsers
  <2>2. CASE UNCHANGED << state, provider, lost >>
    BY <1>2, <2>2
  <2>3. CASE Accepted(c) /\ provider' = Rotated(c)
    <3>1. /\ provider'[call[c].grant] = [provider[call[c].grant] EXCEPT !.gen = @ + 1]
          /\ \A g \in Grants : g # call[c].grant => provider'[g] = provider[g]
          /\ provider' = [provider EXCEPT ![call[c].grant] = provider'[call[c].grant]]
      BY <1>1, <2>1, <2>3 DEF Rotated, EnvironmentOK, Issued
    <3>2. provider[call[c].grant].gen + 1 \in Rotations /\ provider[call[c].grant].valid
      BY <1>1, <2>1, <2>3, OAuthAssumption DEF Accepted, EnvironmentOK, Issued, Rotations
    <3>3. provider' \in [Grants -> Issued]
      BY <1>1, <2>1, <3>1, <3>2 DEF EnvironmentOK, Issued
    <3>4. provider'[call[c].grant].company = provider[call[c].grant].company
      BY <1>1, <2>1, <3>1, <3>2 DEF EnvironmentOK, Issued
    <3>5. state' = state /\ lost' \subseteq Grants
      BY <1>1, <1>5, <2>1 DEF Ask, AskFails, AnswerLate, EnvironmentOK
    <3> QED BY <1>1, <3>1, <3>3, <3>4, <3>5 DEF EnvironmentOK, IsIssued, IssuesStand
  <2> QED BY <1>5, <2>2, <2>3 DEF Ask, AskFails, AnswerLate, IsIssued, IssuesStand
<1>6. ASSUME NEW c \in Calls, TransactionFails(c) \/ Crash(c)
      PROVE  /\ EnvironmentOK'
             /\ IssuesStand
  <2>1. Loses(c) \subseteq Grants
    BY CallFacts DEF Loses, At, GrantUsers
  <2> QED BY <1>1, <1>6, <2>1 DEF TransactionFails, Crash, EnvironmentOK, IsIssued, IssuesStand
<1>7. ASSUME NEW g \in Grants, Revoke(g)
      PROVE  /\ EnvironmentOK'
             /\ IssuesStand
  <2>1. provider[g] \in Issued /\ provider[g].valid
    BY <1>1, <1>7 DEF Revoke, EnvironmentOK
  <2>2. provider' = [provider EXCEPT ![g] = [provider[g] EXCEPT !.valid = FALSE]]
    BY <1>1, <1>7 DEF Revoke, EnvironmentOK
  <2>3. /\ [provider[g] EXCEPT !.valid = FALSE] \in Issued
        /\ [provider[g] EXCEPT !.valid = FALSE].company = provider[g].company
    BY <2>1 DEF Issued
  <2>4. UNCHANGED << state, lost >>
    BY <1>7 DEF Revoke
  <2> QED BY <1>1, <2>2, <2>3, <2>4 DEF EnvironmentOK, IsIssued, IssuesStand
<1>8. ASSUME NEW c \in Calls,
             \/ \E t \in Tenants : StartDisconnect(c, t)
             \/ \E t \in Tenants, p \in {"identify", "token"} : AskToken(c, p, t)
             \/ ExchangeFails(c) \/ Persist(c) \/ PersistCommit(c) \/ Load(c) \/ Lock(c)
             \/ RefreshCommit(c) \/ MarkError(c) \/ IdentifyStep(c) \/ DisconnectStep(c)
             \/ TransactionExpires(c)
      PROVE  UNCHANGED << state, provider, lost >>
  BY <1>8 DEF StartDisconnect, AskToken, ExchangeFails, Persist, PersistCommit, Load, Lock,
              RefreshCommit, MarkError, IdentifyStep, WhoAmI, FindConflict, StoreAccount,
              MarkHealthy, DisconnectStep, Erase, CreateDisconnected, DisconnectCommit,
              TransactionExpires
<1>9. ASSUME (\E t \in Tenants : AccessExpires(t)) \/ UNCHANGED vars
      PROVE  UNCHANGED << state, provider, lost >>
  BY <1>9 DEF AccessExpires, vars
<1>10. ASSUME NEW c \in Calls, Begin(c) \/ Progress(c)
       PROVE  EnvironmentOK' /\ IssuesStand
  BY <1>2, <1>4, <1>5, <1>8, <1>10, <1>12 DEF Begin, Progress, ConnectStep, TokenStep
<1>11. ASSUME NEW c \in Calls, TransactionExpires(c) \/ TransactionFails(c) \/ Crash(c)
       PROVE  EnvironmentOK' /\ IssuesStand
  BY <1>2, <1>6, <1>8, <1>11
<1> QED BY <1>2, <1>3, <1>7, <1>9, <1>10, <1>11 DEF Next

\* The steps, told apart by what they mean to the grants.
LEMMA Regrouped ==
    ASSUME Next
    PROVE  \/ \E c \in Calls : \/ Walking(c) \/ \E f \in Flows : Consume(c, f)
                               \/ Exchange(c) \/ Persist(c) \/ Lock(c) \/ Ask(c)
                               \/ TransactionExpires(c)
           \/ \E f \in Flows : StateExpires(f) \/ \E t \in Tenants : StartConnect(f, t)
           \/ \E t \in Tenants : AccessExpires(t)
           \/ \E g \in Grants : Revoke(g)
BY DEF Next, Begin, Progress, ConnectStep, TokenStep, Walking

LEMMA TypesPreserved ==
    ASSUME TypeOK, StatesBound, [Next]_vars
    PROVE  TypeOK'
<1>1. CASE UNCHANGED call
  BY <1>1, CallsKeepTypes, DatabaseTypes, EnvironmentTypes, TypesFromParts
<1>2. ASSUME NEW c \in Calls, OnlyCall(c)
      PROVE  TypeOK'
  BY <1>2, CallsKeepTypes, DatabaseTypes, EnvironmentTypes, TypesFromParts
<1>3. ASSUME NEW c \in Calls, Walking(c)
      PROVE  TypeOK'
  BY <1>2, <1>3, WalkingCall DEF Walked
<1>4. ASSUME NEW c \in Calls, NEW f \in Flows, Consume(c, f)
      PROVE  TypeOK'
  BY <1>1, <1>2, <1>4, ConsumingCall
<1>5. ASSUME NEW c \in Calls, Exchange(c)
      PROVE  TypeOK'
  BY <1>2, <1>5, ExchangingCall DEF Exchange
<1>6. ASSUME NEW c \in Calls, Persist(c) \/ Ask(c) \/ TransactionExpires(c)
      PROVE  TypeOK'
  BY <1>2, <1>6, PersistingCall, AskingCall, ExpiringCall
<1>7. ASSUME NEW c \in Calls, Lock(c)
      PROVE  TypeOK'
  BY <1>2, <1>7, LockingCall DEF Walked
<1>8. ASSUME \/ \E f \in Flows : StateExpires(f) \/ \E t \in Tenants : StartConnect(f, t)
             \/ \E t \in Tenants : AccessExpires(t)
             \/ \E g \in Grants : Revoke(g)
             \/ UNCHANGED vars
      PROVE  UNCHANGED call
  BY <1>8 DEF StateExpires, StartConnect, AccessExpires, Revoke, vars
<1> QED BY <1>1, <1>3, <1>4, <1>5, <1>6, <1>7, <1>8, Regrouped

-----------------------------------------------------------------------------
(* What the steps do to the database and the provider *)

StoresRotated(c) ==
    credential' = [credential EXCEPT ![T(c)] = [grant |-> call[c].grant, gen |-> call[c].gen,
                                                fresh |-> TRUE]]

\* Only a transaction that may writes the credential, and only its own tenant's.
ChangesCredential(c) ==
    \/ UNCHANGED credential
    \/ /\ Free(rowLock, T(c)) /\ T(c) \in Tenants
       /\ credential' = [credential EXCEPT ![T(c)] = NoCredential]
    \/ /\ At(c, "persistCommit") /\ UNCHANGED provider
       /\ credential' = [credential EXCEPT ![T(c)] = [grant |-> call[c].grant, gen |-> 0,
                                                      fresh |-> TRUE]]
    \/ At(c, "refreshCommit") /\ StoresRotated(c) /\ UNCHANGED provider
ChangesProvider(c) ==
    \/ UNCHANGED provider
    \/ /\ At(c, "ask") \/ At(c, "late")
       /\ Accepted(c) /\ provider' = Rotated(c) /\ call[c].grant \in lost'
FreesOwnRows(c) ==
    \A t \in Tenants : rowLock'[t] = rowLock[t] \/ (rowLock[t] = c /\ rowLock'[t] = NoCall)
WalkedData(c) ==
    /\ UNCHANGED state
    /\ lost \subseteq lost'
    /\ ChangesCredential(c)
    /\ ChangesProvider(c)
    /\ FreesOwnRows(c)
    /\ At(c, "refreshCommit") => call[c].grant \in lost' \/ StoresRotated(c)

LEMMA WalkingData ==
    ASSUME TypeOK, NEW c \in Calls, Walking(c)
    PROVE  WalkedData(c)
<1>1. ReleaseAll(c) => FreesOwnRows(c)
  BY Releasing DEF FreesOwnRows
<1>2. UNCHANGED rowLock => FreesOwnRows(c)
  BY DEF FreesOwnRows
<1>3. CASE ExchangeFails(c) \/ Load(c) \/ MarkError(c) \/ IdentifyStep(c) \/ Erase(c)
           \/ CreateDisconnected(c)
           \/ (\E t \in Tenants : StartDisconnect(c, t))
           \/ (\E t \in Tenants, p \in {"identify", "token"} : AskToken(c, p, t))
  <2>1. UNCHANGED << state, lost, credential, provider, rowLock >> /\ ~ At(c, "refreshCommit")
    BY <1>3 DEF ExchangeFails, Load, MarkError, IdentifyStep, WhoAmI, FindConflict,
                StoreAccount, MarkHealthy, Erase, CreateDisconnected, StartDisconnect,
                AskToken, database, At
  <2> QED BY <1>2, <2>1 DEF WalkedData, ChangesCredential, ChangesProvider
<1>4. CASE PersistCommit(c)
  <2>1. ~ At(c, "refreshCommit")
    BY <1>4 DEF PersistCommit, At
  <2> QED BY <1>1, <1>4, <2>1 DEF PersistCommit, WalkedData, ChangesCredential, ChangesProvider
<1>5. CASE AskFails(c)
  <2>1. ~ At(c, "refreshCommit")
    BY <1>5 DEF AskFails, At
  <2> QED BY <1>1, <1>5, <2>1 DEF AskFails, WalkedData, ChangesCredential, ChangesProvider
<1>6. CASE AnswerLate(c)
  <2>1. ~ At(c, "refreshCommit")
    BY <1>6 DEF AnswerLate, At
  <2> QED BY <1>2, <1>6, <2>1
          DEF AnswerLate, database, WalkedData, ChangesCredential, ChangesProvider
<1>7. CASE DisconnectCommit(c)
  <2>1. ~ At(c, "refreshCommit") /\ T(c) \in Tenants
    BY <1>7, CallFacts DEF DisconnectCommit, At
  <2> QED BY <1>1, <1>7, <2>1
          DEF DisconnectCommit, WalkedData, ChangesCredential, ChangesProvider
<1>8. CASE TransactionFails(c) \/ Crash(c)
  <2>1. At(c, "refreshCommit") => call[c].grant \in lost'
    BY <1>8 DEF TransactionFails, Crash, Loses
  <2> QED BY <1>1, <1>8, <2>1
          DEF TransactionFails, Crash, WalkedData, ChangesCredential, ChangesProvider
<1>9. CASE RefreshCommit(c)
  BY <1>1, <1>9
     DEF RefreshCommit, WalkedData, ChangesCredential, ChangesProvider, StoresRotated
<1> QED BY <1>3, <1>4, <1>5, <1>6, <1>7, <1>8, <1>9 DEF Walking, DisconnectStep

\* The tenant's part of a credential a walking call may have written.
LEMMA WalkedCredential ==
    ASSUME TypeOK, HoldsRow, NEW c \in Calls, WalkedData(c), NEW t \in Tenants
    PROVE  \/ credential'[t] = credential[t]
           \/ credential'[t].grant = NoGrant /\ rowLock[t] = NoCall
           \/ /\ t = T(c) /\ rowLock[t] = c /\ UNCHANGED provider
              /\ credential'[t].grant = call[c].grant
              /\ \/ At(c, "persistCommit") /\ credential'[t].gen = 0
                 \/ At(c, "refreshCommit") /\ credential'[t].gen = call[c].gen
BY DEF TypeOK, HoldsRow, WalkedData, ChangesCredential, StoresRotated, NoCredential, Free, At

-----------------------------------------------------------------------------
(* Single-use states *)

LEMMA StatesStayBound ==
    ASSUME TypeOK, StatesBound, [Next]_vars
    PROVE  StatesBound'
<1>1. CASE UNCHANGED state
  BY <1>1 DEF StatesBound
<1>2. ASSUME NEW f \in Flows, \/ StateExpires(f) \/ \E t \in Tenants : StartConnect(f, t)
                             \/ \E c \in Calls : Consume(c, f)
      PROVE  StatesBound'
  BY <1>2 DEF StateExpires, StartConnect, Consume, StatesBound, TypeOK, StateRow
<1>3. ASSUME NEW c \in Calls, Walking(c)
      PROVE  UNCHANGED state
  BY <1>3, WalkingData DEF WalkedData
<1>4. ASSUME NEW c \in Calls, \/ Exchange(c) \/ Persist(c) \/ Lock(c) \/ Ask(c)
                              \/ TransactionExpires(c)
      PROVE  UNCHANGED state
  BY <1>4 DEF Exchange, Persist, Lock, Ask, TransactionExpires
<1>5. ASSUME \/ \E t \in Tenants : AccessExpires(t)
             \/ \E g \in Grants : Revoke(g)
             \/ UNCHANGED vars
      PROVE  UNCHANGED state
  BY <1>5 DEF AccessExpires, Revoke, vars
<1> QED BY <1>1, <1>2, <1>3, <1>4, <1>5, Regrouped

\* A call that keeps its state, or gives it up, leaves the others' alone.
LEMMA KeepingStates ==
    ASSUME TypeOK, StateUsedOnce, UNCHANGED state, NEW c \in Calls, OnlyCall(c), KeepsFlow(c)
    PROVE  StateUsedOnce'
BY OtherCalls, OAuthAssumption DEF StateUsedOnce, KeepsFlow, T

LEMMA KeepingFlow ==
    ASSUME TypeOK, NEW c \in Calls, NEW pc, NEW g, NEW n,
           \/ call'[c] = [call[c] EXCEPT !.pc = pc]
           \/ call'[c] = [call[c] EXCEPT !.pc = pc, !.grant = g]
           \/ call'[c] = [call[c] EXCEPT !.pc = pc, !.gen = n]
    PROVE  KeepsFlow(c)
<1>1. call[c] \in CallRow
  BY CallsAreOK
<1>2. call'[c].flow = call[c].flow /\ call'[c].tenant = call[c].tenant
  BY <1>1 DEF CallRow
<1> QED BY <1>2 DEF KeepsFlow, T

LEMMA StatesStayUsedOnce ==
    ASSUME TypeOK, StatesBound, StateUsedOnce, [Next]_vars
    PROVE  StateUsedOnce'
<1>1. CASE UNCHANGED << state, call >>
  BY <1>1 DEF StateUsedOnce, T
<1>2. ASSUME NEW c \in Calls, Walking(c)
      PROVE  StateUsedOnce'
  BY <1>2, WalkingCall, WalkingData, KeepingStates DEF Walked, WalkedData
<1>3. ASSUME NEW c \in Calls, NEW f \in Flows, Consume(c, f)
      PROVE  StateUsedOnce'
  <2>1. /\ state[f].phase = "stored"
        /\ state' = [state EXCEPT ![f].phase = "gone"]
        /\ state[f] \in StateRow
    BY <1>3 DEF Consume, TypeOK
  <2>2. /\ state'[f].phase = "gone" /\ state'[f].tenant = state[f].tenant
        /\ \A e \in Flows : e # f => state'[e] = state[e]
    BY <2>1 DEF TypeOK, StateRow
  <2>3. \A d \in Calls : call[d].flow # f
    BY <2>1 DEF StateUsedOnce
  <2>4. CASE UNCHANGED call
    BY <2>2, <2>3, <2>4 DEF StateUsedOnce, T
  <2>5. CASE OnlyCall(c) /\ call'[c] = Callback(c, f)
    <3>1. call'[c].flow = f /\ call'[c].tenant = state[f].tenant
      BY <2>5 DEF Callback, Idle
    <3>2. \A d \in Calls : d # c => call'[d] = call[d]
      BY <2>5, OtherCalls
    <3> QED BY <2>2, <2>3, <3>1, <3>2 DEF StateUsedOnce, T
  <2> QED BY <1>3, <2>4, <2>5, ConsumingCall
<1>4. ASSUME NEW c \in Calls, Exchange(c)
      PROVE  StateUsedOnce'
  <2>1. UNCHANGED state /\ \E g \in Grants : At(c, "exchange")
            /\ call' = [call EXCEPT ![c].pc = "persist", ![c].grant = g]
    BY <1>4 DEF Exchange
  <2>2. OnlyCall(c) /\ \E g \in Grants : call'[c] = [call[c] EXCEPT !.pc = "persist", !.grant = g]
    BY <2>1, ExchangingCall
  <2>3. KeepsFlow(c)
    BY <2>2, KeepingFlow
  <2> QED BY <2>1, <2>2, <2>3, KeepingStates
<1>5. ASSUME NEW c \in Calls, Persist(c) \/ Ask(c) \/ TransactionExpires(c)
      PROVE  StateUsedOnce'
  <2>1. OnlyCall(c)
    BY <1>5, PersistingCall, AskingCall, ExpiringCall
  <2>2. KeepsFlow(c)
    <3>1. CASE call'[c] = [call[c] EXCEPT !.pc = "persistCommit"]
               \/ call'[c] = [call[c] EXCEPT !.pc = "late"]
      BY <3>1, KeepingFlow
    <3>2. CASE call'[c] = [call[c] EXCEPT !.pc = "refreshCommit", !.gen = call[c].gen + 1]
      BY <3>2, KeepingFlow
    <3> QED BY <1>5, <3>1, <3>2, PersistingCall, AskingCall, ExpiringCall
  <2>3. UNCHANGED state
    BY <1>5 DEF Persist, Ask, TransactionExpires
  <2> QED BY <2>1, <2>2, <2>3, KeepingStates
<1>6. ASSUME NEW c \in Calls, Lock(c)
      PROVE  StateUsedOnce'
  <2>1. CASE Walked(c)
    BY <2>1, <1>6, KeepingStates DEF Walked, Lock
  <2>2. CASE OnlyCall(c) /\ KeepsFlow(c)
    BY <2>2, <1>6, KeepingStates DEF Lock
  <2> QED BY <1>6, <2>1, <2>2, LockingCall
<1>7. ASSUME NEW f \in Flows, StateExpires(f) \/ \E t \in Tenants : StartConnect(f, t)
      PROVE  StateUsedOnce'
  <2>1. /\ state[f].phase # "gone" /\ UNCHANGED call
        /\ \A e \in Flows : e # f => state'[e] = state[e]
    BY <1>7 DEF StateExpires, StartConnect, TypeOK
  <2>2. \A d \in Calls : call[d].flow # f
    BY <2>1 DEF StateUsedOnce
  <2> QED BY <2>1, <2>2 DEF StateUsedOnce, T
<1>8. ASSUME \/ \E t \in Tenants : AccessExpires(t)
             \/ \E g \in Grants : Revoke(g)
             \/ UNCHANGED vars
      PROVE  UNCHANGED << state, call >>
  BY <1>8 DEF AccessExpires, Revoke, vars
<1> QED BY <1>1, <1>2, <1>3, <1>4, <1>5, <1>6, <1>7, <1>8, Regrouped

-----------------------------------------------------------------------------
(* Row locks and grants: the steps of a call that walks *)

LEMMA WalkingKeepsRows ==
    ASSUME TypeOK, HoldsRow, NEW c \in Calls, Walked(c), WalkedData(c)
    PROVE  HoldsRow'
<1>1. Walked(c) /\ FreesOwnRows(c)
  BY DEF WalkedData
<1>2. ASSUME NEW d \in Calls, call'[d].pc \in {"persistCommit", "ask", "refreshCommit"}
      PROVE  rowLock'[call'[d].tenant] = d
  <2>1. d # c /\ call'[d] = call[d]
    BY <1>1, <1>2, OtherCalls DEF Walked, Critical
  <2>2. rowLock[T(d)] = d /\ T(d) \in Tenants
    BY <1>2, <2>1, CallFacts DEF HoldsRow, At
  <2> QED BY <1>1, <2>1, <2>2 DEF FreesOwnRows, T
<1> QED BY <1>2 DEF HoldsRow, T

LEMMA WalkingKeepsIssued ==
    ASSUME TypeOK, HoldsRow, GrantsAreIssued, IssuesStand, TypeOK',
           NEW c \in Calls, Walked(c), WalkedData(c)
    PROVE  GrantsAreIssued'
<1>1. Walked(c) /\ WalkedData(c)
  OBVIOUS
<1>2. ASSUME NEW t \in Tenants, credential'[t].grant # NoGrant
      PROVE  provider'[credential'[t].grant].company \in Companies
  <2>1. credential'[t].grant \in {credential[t].grant, call[c].grant}
    BY <1>1, <1>2, WalkedCredential
  <2>2. credential'[t].grant \in Grants
    BY <1>2 DEF TypeOK, Credential
  <2>3. IsIssued(credential'[t].grant)
    BY <1>2, <2>1 DEF GrantsAreIssued, HasCredential, IsIssued
  <2> QED BY <2>2, <2>3 DEF IssuesStand, IsIssued
<1>3. ASSUME NEW d \in Calls, call'[d].grant # NoGrant
      PROVE  provider'[call'[d].grant].company \in Companies
  <2>1. call'[d].grant \in Grants
    BY <1>3 DEF TypeOK, CallRow
  <2>2. IsIssued(call'[d].grant)
    BY <1>1, <1>3, OtherCalls
       DEF Walked, KeepsGrants, GrantsAreIssued, HasCredential, IsIssued
  <2> QED BY <2>1, <2>2 DEF IssuesStand, IsIssued
<1> QED BY <1>2, <1>3 DEF GrantsAreIssued, HasCredential, IsIssued

LEMMA WalkingKeepsSeparate ==
    ASSUME TypeOK, HoldsRow, GrantsAreSeparate, NewGrantIsUnused, Renewals,
           NEW c \in Calls, Walked(c), WalkedData(c)
    PROVE  GrantsAreSeparate'
<1>1. WalkedData(c)
  OBVIOUS
<1>2. ASSUME NEW t \in Tenants
      PROVE  \/ credential'[t].grant \in {credential[t].grant, NoGrant}
             \/ t = T(c) /\ \A u \in Tenants : credential[u].grant # credential'[t].grant
  BY <1>1, WalkedCredential DEF NewGrantIsUnused, Persisting, Renewals, StoresRenewed, At
<1> QED BY <1>2 DEF GrantsAreSeparate, HasCredential

LEMMA WalkingKeepsUnused ==
    ASSUME TypeOK, HoldsRow, NewGrantIsUnused, NEW c \in Calls, Walked(c), WalkedData(c)
    PROVE  NewGrantIsUnused'
<1>1. Walked(c) /\ WalkedData(c)
  OBVIOUS
<1>2. ASSUME NEW d \in Calls, call'[d].pc \in {"persist", "persistCommit"}
      PROVE  /\ provider'[call'[d].grant].gen = 0
             /\ \A t \in Tenants : credential'[t].grant # call'[d].grant
             /\ \A e \in Calls : call'[e].grant = call'[d].grant => e = d
  <2>1. d # c /\ call'[d] = call[d] /\ \A e \in Calls : e # c => call'[e] = call[e]
    BY <1>1, <1>2, OtherCalls DEF Walked, Critical
  <2>2. /\ call[d].grant \in Grants
        /\ provider[call[d].grant].gen = 0
        /\ \A t \in Tenants : credential[t].grant # call[d].grant
        /\ \A e \in Calls : call[e].grant = call[d].grant => e = d
    BY <1>2, <2>1, CallFacts DEF NewGrantIsUnused, Persisting, At, GrantUsers
  <2>3. provider'[call[d].grant] = provider[call[d].grant]
    BY <1>1, <2>1, <2>2 DEF WalkedData, ChangesProvider, Rotated, TypeOK
  <2>4. \A t \in Tenants : credential'[t].grant # call[d].grant
    BY <1>1, <2>1, <2>2, WalkedCredential, OAuthAssumption
  <2>5. call'[c].grant # call[d].grant
    BY <1>1, <2>1, <2>2, OAuthAssumption DEF Walked, KeepsGrants
  <2> QED BY <2>1, <2>2, <2>3, <2>4, <2>5
<1> QED BY <1>2 DEF NewGrantIsUnused, Persisting

\* While one renewal holds the rotated token, no other is accepted.
LEMMA OnlyNewestAccepted ==
    ASSUME TypeOK, GrantsAreSeparate, Renewals, NEW c \in Calls, NEW d \in Calls,
           At(c, "ask") \/ At(c, "late"), Accepted(c), At(d, "refreshCommit")
    PROVE  call[c].grant # call[d].grant
<1>1. /\ T(d) \in Tenants /\ call[d].grant \in Grants /\ call[d].gen \in Nat
      /\ credential[T(d)].gen \in Nat
      /\ credential[T(d)].grant = call[d].grant
      /\ credential[T(d)].gen + 1 = call[d].gen
      /\ provider[call[d].grant].gen = call[d].gen
  BY CallFacts DEF At, GrantUsers, CallRow, Rotations, Credential, Renewals, StoresRenewed
<1>2. call[c].gen \in Nat /\ provider[call[c].grant].gen = call[c].gen
  BY CallsAreOK DEF Accepted, CallRow, Rotations
<1>3. CASE At(c, "ask") /\ call[c].grant = call[d].grant
  <2>1. /\ T(c) \in Tenants
        /\ credential[T(c)].grant = call[c].grant /\ credential[T(c)].gen = call[c].gen
    BY <1>3, CallFacts DEF At, Renewals, RenewsStored
  <2>2. T(c) = T(d)
    BY <1>1, <1>3, <2>1, OAuthAssumption DEF GrantsAreSeparate, HasCredential
  <2> QED BY <1>1, <1>2, <1>3, <2>1, <2>2
<1>4. CASE At(c, "late") /\ call[c].grant = call[d].grant
  <2>1. call[c].gen <= credential[T(d)].gen
    BY <1>1, <1>4 DEF Renewals, LateIsOld
  <2> QED BY <1>1, <1>2, <1>4, <2>1
<1> QED BY <1>3, <1>4

LEMMA WalkingKeepsRenewals ==
    ASSUME TypeOK, HoldsRow, GrantsAreSeparate, NewGrantIsUnused, Renewals,
           NEW c \in Calls, Walked(c), WalkedData(c)
    PROVE  Renewals'
<1>1. Walked(c) /\ WalkedData(c)
  OBVIOUS
<1>2. ASSUME NEW d \in Calls, call'[d].pc \in {"ask", "late", "refreshCommit"}
      PROVE  /\ call'[d] = call[d] /\ d # c
             /\ call[d].grant \in Grants /\ T(d) \in Tenants
             /\ call[d].gen \in Nat
  BY <1>1, <1>2, OtherCalls, CallFacts
     DEF Walked, Critical, At, GrantUsers, CallRow, Rotations
<1>3. ASSUME NEW d \in Calls, call'[d].pc \in {"ask", "refreshCommit"}
      PROVE  credential'[T(d)] = credential[T(d)]
  <2>1. T(d) \in Tenants /\ rowLock[T(d)] = d /\ d # c /\ d # NoCall
    BY <1>2, <1>3, OAuthAssumption DEF HoldsRow
  <2> QED BY <1>1, <2>1, WalkedCredential
<1>4. ASSUME NEW d \in Calls, call'[d].pc = "ask"
      PROVE  RenewsStored(d)'
  BY <1>2, <1>3, <1>4 DEF Renewals, RenewsStored, At, T
<1>5. ASSUME NEW d \in Calls, call'[d].pc = "refreshCommit"
      PROVE  StoresRenewed(d)'
  <2>1. call'[d] = call[d] /\ At(d, "refreshCommit") /\ call[d].grant \in Grants
    BY <1>2, <1>5 DEF At
  <2>2. credential'[T(d)] = credential[T(d)]
    BY <1>3, <1>5
  <2>3. provider'[call[d].grant] = provider[call[d].grant]
    BY <1>1, <2>1, OnlyNewestAccepted DEF WalkedData, ChangesProvider, Rotated, TypeOK
  <2> QED BY <2>1, <2>2, <2>3 DEF Renewals, StoresRenewed, At, T
<1>6. ASSUME NEW d \in Calls, call'[d].pc = "late"
      PROVE  LateIsOld(d)'
  <2>1. call'[d] = call[d] /\ At(d, "late") /\ call[d].grant \in Grants /\ d # c
        /\ call[d].gen \in Nat
    BY <1>2, <1>6 DEF At
  <2>2. ASSUME NEW t \in Tenants, credential'[t].grant = call[d].grant
        PROVE  call[d].gen <= credential'[t].gen
    <3>1. CASE credential'[t] = credential[t]
      BY <2>1, <2>2, <3>1 DEF Renewals, LateIsOld
    <3>2. CASE /\ At(c, "refreshCommit") /\ t = T(c)
               /\ credential'[t].grant = call[c].grant /\ credential'[t].gen = call[c].gen
      <4>1. credential[t].grant = call[c].grant /\ credential[t].gen + 1 = call[c].gen
            /\ credential[t].gen \in Nat
        BY <3>2 DEF Renewals, StoresRenewed, TypeOK, Credential, Rotations
      <4>2. call[d].gen <= credential[t].gen
        BY <2>1, <2>2, <3>2, <4>1 DEF Renewals, LateIsOld
      <4> QED BY <2>1, <3>2, <4>1, <4>2
    <3>3. ~ (At(c, "persistCommit") /\ credential'[t].grant = call[c].grant)
      BY <2>1, <2>2 DEF NewGrantIsUnused, Persisting, At
    <3>4. credential'[t].grant # NoGrant
      BY <2>1, <2>2, OAuthAssumption
    <3> QED BY <1>1, <3>1, <3>2, <3>3, <3>4, WalkedCredential
  <2> QED BY <2>1, <2>2 DEF LateIsOld
<1> QED BY <1>4, <1>5, <1>6 DEF Renewals, RenewsStored, StoresRenewed, LateIsOld, At

LEMMA WalkingKeepsNewest ==
    ASSUME TypeOK, HoldsRow, GrantsAreSeparate, NewGrantIsUnused, Renewals,
           StoredTokenIsNewest, NEW c \in Calls, Walked(c), WalkedData(c)
    PROVE  StoredTokenIsNewest'
<1>1. Walked(c) /\ WalkedData(c) /\ HoldsRow'
  BY WalkingKeepsRows
<1> SUFFICES ASSUME NEW t \in Tenants, credential'[t].grant # NoGrant,
                    credential'[t].grant \notin lost'
             PROVE  \/ credential'[t].gen = provider'[credential'[t].grant].gen
                    \/ \E d \in Calls : call'[d].pc = "refreshCommit" /\ call'[d].tenant = t
                                          /\ rowLock'[t] = d
  BY DEF StoredTokenIsNewest, HasCredential, At, T
<1>2. CASE /\ t = T(c) /\ rowLock[t] = c /\ UNCHANGED provider
           /\ credential'[t].grant = call[c].grant
           /\ \/ At(c, "persistCommit") /\ credential'[t].gen = 0
              \/ At(c, "refreshCommit") /\ credential'[t].gen = call[c].gen
  BY <1>2 DEF NewGrantIsUnused, Persisting, Renewals, StoresRenewed, At
<1>3. CASE credential'[t] = credential[t]
  <2>1. credential[t].grant \notin lost /\ HasCredential(t) /\ credential[t].grant \in Grants
    BY <1>1, <1>3 DEF WalkedData, HasCredential, TypeOK, Credential
  <2>2. provider'[credential[t].grant] = provider[credential[t].grant]
    BY <1>1, <1>3, <2>1 DEF WalkedData, ChangesProvider, Rotated, TypeOK
  <2>3. CASE credential[t].gen = provider[credential[t].grant].gen
    BY <1>3, <2>2, <2>3
  <2>4. ASSUME NEW d \in Calls, At(d, "refreshCommit"), T(d) = t, rowLock[t] = d, d # c
        PROVE  call'[d].pc = "refreshCommit" /\ call'[d].tenant = t /\ rowLock'[t] = d
    BY <1>1, <2>4, OtherCalls DEF Walked, WalkedData, FreesOwnRows, At, T
  <2>5. CASE At(c, "refreshCommit") /\ T(c) = t
    <3>1. credential[t].grant = call[c].grant /\ provider[call[c].grant].gen = call[c].gen
      BY <2>5 DEF Renewals, StoresRenewed
    <3>2. StoresRotated(c)
      BY <1>1, <1>3, <2>5, <3>1 DEF WalkedData
    <3>3. credential'[t].gen = call[c].gen
      BY <2>5, <3>2 DEF StoresRotated, TypeOK
    <3> QED BY <1>3, <2>2, <3>1, <3>3
  <2> QED BY <2>1, <2>3, <2>4, <2>5 DEF StoredTokenIsNewest
<1> QED BY <1>1, <1>2, <1>3, WalkedCredential

-----------------------------------------------------------------------------
(* Row locks and grants: the steps that connect and renew *)

\* The invariant but for the states.
GrantsInvariant ==
    /\ HoldsRow
    /\ GrantsAreIssued
    /\ GrantsAreSeparate
    /\ NewGrantIsUnused
    /\ Renewals
    /\ StoredTokenIsNewest

LEMMA WalkingPreserves ==
    ASSUME TypeOK, GrantsInvariant, TypeOK', IssuesStand, NEW c \in Calls, Walked(c), WalkedData(c)
    PROVE  GrantsInvariant'
BY WalkingKeepsRows, WalkingKeepsIssued, WalkingKeepsSeparate, WalkingKeepsUnused,
   WalkingKeepsRenewals, WalkingKeepsNewest DEF GrantsInvariant

\* A step that only lets a call go on elsewhere, with the grants it knows.
LEMMA ElsewherePreserves ==
    ASSUME TypeOK, GrantsInvariant,
           UNCHANGED << credential, provider, lost, rowLock >>,
           \/ UNCHANGED call
           \/ \E c \in Calls : /\ OnlyCall(c) /\ call'[c].pc \notin Critical
                               /\ call'[c].grant = NoGrant
                               /\ ~ At(c, "refreshCommit")
    PROVE  GrantsInvariant'
<1>1. CASE UNCHANGED call
  BY <1>1 DEF GrantsInvariant, HoldsRow, GrantsAreIssued, IsIssued, HasCredential,
              GrantsAreSeparate, NewGrantIsUnused, Persisting, Renewals, RenewsStored,
              StoresRenewed, LateIsOld, StoredTokenIsNewest, At, T
<1>2. ASSUME NEW c \in Calls, OnlyCall(c), call'[c].pc \notin Critical,
             call'[c].grant = NoGrant, ~ At(c, "refreshCommit")
      PROVE  GrantsInvariant'
  <2>1. \A d \in Calls : d # c => call'[d] = call[d]
    BY <1>2, OtherCalls
  <2>2. HoldsRow'
    BY <1>2, <2>1 DEF GrantsInvariant, HoldsRow, Critical, T
  <2>3. GrantsAreIssued' /\ GrantsAreSeparate'
    BY <1>2, <2>1 DEF GrantsInvariant, GrantsAreIssued, IsIssued, HasCredential,
                      GrantsAreSeparate
  <2>4. NewGrantIsUnused'
    <3>1. ASSUME NEW d \in Calls, call'[d].pc \in {"persist", "persistCommit"}
          PROVE  /\ d # c /\ call'[d] = call[d] /\ call[d].grant # NoGrant
                 /\ provider[call[d].grant].gen = 0
                 /\ \A t \in Tenants : credential[t].grant # call[d].grant
                 /\ \A e \in Calls : call[e].grant = call[d].grant => e = d
      BY <1>2, <2>1, <3>1, CallFacts, OAuthAssumption
         DEF GrantsInvariant, NewGrantIsUnused, Persisting, Critical, At, GrantUsers
    <3> QED BY <1>2, <2>1, <3>1 DEF NewGrantIsUnused, Persisting
  <2>5. Renewals'
    BY <1>2, <2>1 DEF GrantsInvariant, Renewals, RenewsStored, StoresRenewed, LateIsOld,
                      Critical, At, T
  <2>6. StoredTokenIsNewest'
    BY <1>2, <2>1 DEF GrantsInvariant, StoredTokenIsNewest, HasCredential, At, T
  <2> QED BY <2>2, <2>3, <2>4, <2>5, <2>6 DEF GrantsInvariant
<1> QED BY <1>1, <1>2

LEMMA ConsumePreserves ==
    ASSUME TypeOK, StatesBound, GrantsInvariant, NEW c \in Calls, NEW f \in Flows, Consume(c, f)
    PROVE  GrantsInvariant'
<1>1. /\ UNCHANGED << credential, provider, lost, rowLock >>
      /\ ~ At(c, "refreshCommit")
  BY DEF Consume, database, At
<1>2. CASE OnlyCall(c) /\ call'[c] = Callback(c, f)
  <2>1. call'[c].pc \notin Critical /\ call'[c].grant = NoGrant
    BY <1>2 DEF Callback, Idle, Critical
  <2> QED BY <1>1, <1>2, <2>1, ElsewherePreserves
<1> QED BY <1>1, <1>2, ConsumingCall, ElsewherePreserves

\* The provider issues a grant nobody has heard of.
LEMMA ExchangePreserves ==
    ASSUME TypeOK, GrantsInvariant, TypeOK', NEW c \in Calls, Exchange(c)
    PROVE  GrantsInvariant'
<1>1. PICK g \in Grants, k \in Companies :
          /\ provider[g] = Unissued
          /\ provider' = [provider EXCEPT ![g] = [company |-> k, gen |-> 0, valid |-> TRUE]]
          /\ call' = [call EXCEPT ![c].pc = "persist", ![c].grant = g]
  BY DEF Exchange
<1>2. /\ At(c, "exchange") /\ UNCHANGED << credential, lost, rowLock >>
  BY DEF Exchange, database
<1>3. OnlyCall(c) /\ call'[c] = [call[c] EXCEPT !.pc = "persist", !.grant = g]
  BY <1>1, <1>2, ExchangingCall
<1>4. /\ \A d \in Calls : d # c => call'[d] = call[d]
      /\ call'[c].pc = "persist" /\ call'[c].grant = g
  BY <1>3, OtherCalls, CallsAreOK DEF CallRow
<1>5. /\ provider'[g].gen = 0 /\ provider'[g].company \in Companies
      /\ \A h \in Grants : h # g => provider'[h] = provider[h]
  BY <1>1 DEF TypeOK
<1>6. /\ \A t \in Tenants : credential[t].grant # g
      /\ \A d \in Calls : call[d].grant # g
  <2>1. g # NoGrant /\ ~ IsIssued(g)
    BY <1>1, OAuthAssumption DEF IsIssued, Unissued
  <2> QED BY <2>1 DEF GrantsInvariant, GrantsAreIssued, HasCredential
<1>7. HoldsRow'
  BY <1>2, <1>4 DEF GrantsInvariant, HoldsRow, T
<1>8. GrantsAreIssued'
  <2>1. ASSUME NEW t \in Tenants, credential[t].grant # NoGrant
        PROVE  provider'[credential[t].grant].company \in Companies
    BY <1>5, <1>6, <2>1
       DEF GrantsInvariant, GrantsAreIssued, HasCredential, IsIssued, TypeOK, Credential
  <2>2. ASSUME NEW d \in Calls, d # c, call[d].grant # NoGrant
        PROVE  provider'[call[d].grant].company \in Companies
    <3>1. call[d].grant \in Grants
      BY <2>2, CallsAreOK DEF CallRow
    <3> QED BY <1>5, <1>6, <2>2, <3>1 DEF GrantsInvariant, GrantsAreIssued, IsIssued
  <2> QED BY <1>2, <1>4, <1>5, <2>1, <2>2 DEF GrantsAreIssued, HasCredential, IsIssued
<1>9. GrantsAreSeparate'
  BY <1>2 DEF GrantsInvariant, GrantsAreSeparate, HasCredential
<1>10. NewGrantIsUnused'
  <2>1. ASSUME NEW d \in Calls, d # c, Persisting(d)
        PROVE  /\ provider'[call[d].grant].gen = 0
               /\ \A t \in Tenants : credential[t].grant # call[d].grant
               /\ \A e \in Calls : call[e].grant = call[d].grant => e = d
               /\ call[d].grant # g
    <3>1. call[d].grant \in Grants
      BY <2>1, CallFacts DEF Persisting, At, GrantUsers
    <3> QED BY <1>5, <1>6, <2>1, <3>1 DEF GrantsInvariant, NewGrantIsUnused
  <2> QED BY <1>2, <1>4, <1>5, <1>6, <2>1 DEF NewGrantIsUnused, Persisting
<1>11. Renewals'
  <2>1. ASSUME NEW d \in Calls, d # c, At(d, "refreshCommit")
        PROVE  provider'[call[d].grant] = provider[call[d].grant]
    BY <1>5, <1>6, <2>1, CallFacts DEF At, GrantUsers
  <2> QED BY <1>2, <1>4, <2>1
          DEF GrantsInvariant, Renewals, RenewsStored, StoresRenewed, LateIsOld, At, T
<1>12. StoredTokenIsNewest'
  <2>1. ASSUME NEW t \in Tenants, credential[t].grant # NoGrant
        PROVE  provider'[credential[t].grant] = provider[credential[t].grant]
    BY <1>5, <1>6, <2>1 DEF TypeOK, Credential
  <2> QED BY <1>2, <1>4, <2>1 DEF GrantsInvariant, StoredTokenIsNewest, HasCredential, At, T
<1> QED BY <1>7, <1>8, <1>9, <1>10, <1>11, <1>12 DEF GrantsInvariant

\* A lock is granted on a row nobody holds.
LEMMA Granting ==
    ASSUME TypeOK, NEW c \in Calls, T(c) \in Tenants, Free(rowLock, T(c)),
           rowLock' = Granted(rowLock, c)
    PROVE  /\ rowLock'[T(c)] = c
           /\ \A t \in Tenants : \A d \in Calls : rowLock[t] = d => rowLock'[t] = d
BY OAuthAssumption DEF TypeOK, Free, Granted

LEMMA PersistPreserves ==
    ASSUME TypeOK, GrantsInvariant, NEW c \in Calls, Persist(c)
    PROVE  GrantsInvariant'
<1>1. /\ At(c, "persist") /\ Free(rowLock, T(c)) /\ rowLock' = Granted(rowLock, c)
      /\ UNCHANGED << credential, provider, lost >>
  BY DEF Persist
<1>2. /\ \A d \in Calls : d # c => call'[d] = call[d]
      /\ call'[c].pc = "persistCommit" /\ call'[c].grant = call[c].grant
      /\ call'[c].tenant = T(c) /\ T(c) \in Tenants
  BY <1>1, PersistingCall, OtherCalls, CallFacts DEF CallRow, T, At
<1>3. /\ rowLock'[T(c)] = c
      /\ \A t \in Tenants : \A d \in Calls : rowLock[t] = d => rowLock'[t] = d
  BY <1>1, <1>2, Granting
<1>4. HoldsRow'
  BY <1>2, <1>3, CallFacts DEF GrantsInvariant, HoldsRow, T, At
<1>5. GrantsAreIssued' /\ GrantsAreSeparate'
  BY <1>1, <1>2
     DEF GrantsInvariant, GrantsAreIssued, IsIssued, HasCredential, GrantsAreSeparate
<1>6. NewGrantIsUnused'
  BY <1>1, <1>2 DEF GrantsInvariant, NewGrantIsUnused, Persisting, At
<1>7. Renewals'
  BY <1>1, <1>2 DEF GrantsInvariant, Renewals, RenewsStored, StoresRenewed, LateIsOld, At, T
<1>8. StoredTokenIsNewest'
  BY <1>1, <1>2, <1>3 DEF GrantsInvariant, StoredTokenIsNewest, HasCredential, At, T
<1> QED BY <1>4, <1>5, <1>6, <1>7, <1>8 DEF GrantsInvariant

LEMMA LockPreserves ==
    ASSUME TypeOK, GrantsInvariant, NEW c \in Calls, Lock(c),
           HasCredential(T(c)), OnlyCall(c), rowLock' = Granted(rowLock, c),
           call'[c].pc = "ask", call'[c].tenant = T(c),
           call'[c].grant = credential[T(c)].grant, call'[c].gen = credential[T(c)].gen
    PROVE  GrantsInvariant'
<1>1. /\ At(c, "lock") /\ Free(rowLock, T(c))
      /\ UNCHANGED << credential, provider, lost >>
  BY DEF Lock
<1>2. T(c) \in Tenants
  BY <1>1, CallFacts DEF At
<1>3. \A d \in Calls : d # c => call'[d] = call[d]
  BY OtherCalls
<1>4. /\ rowLock'[T(c)] = c
      /\ \A t \in Tenants : \A d \in Calls : rowLock[t] = d => rowLock'[t] = d
  BY <1>1, <1>2, Granting
<1>5. HoldsRow'
  BY <1>3, <1>4, CallFacts DEF GrantsInvariant, HoldsRow, T, At
<1>6. GrantsAreIssued' /\ GrantsAreSeparate'
  BY <1>1, <1>2, <1>3
     DEF GrantsInvariant, GrantsAreIssued, IsIssued, HasCredential, GrantsAreSeparate
<1>7. NewGrantIsUnused'
  BY <1>1, <1>2, <1>3 DEF GrantsInvariant, NewGrantIsUnused, Persisting
<1>8. Renewals'
  BY <1>1, <1>3
     DEF GrantsInvariant, Renewals, RenewsStored, StoresRenewed, LateIsOld, At, T
<1>9. StoredTokenIsNewest'
  BY <1>1, <1>3, <1>4 DEF GrantsInvariant, StoredTokenIsNewest, HasCredential, At, T
<1> QED BY <1>5, <1>6, <1>7, <1>8, <1>9 DEF GrantsInvariant

\* The token is rotated under the row lock.
LEMMA AskPreserves ==
    ASSUME TypeOK, GrantsInvariant, IssuesStand, NEW c \in Calls, Ask(c)
    PROVE  GrantsInvariant'
<1> DEFINE g == call[c].grant
<1>1. /\ At(c, "ask") /\ Accepted(c) /\ provider' = Rotated(c)
      /\ UNCHANGED << credential, lost, rowLock >>
  BY DEF Ask, database
<1>2. T(c) \in Tenants /\ g \in Grants /\ call[c] \in CallRow /\ rowLock[T(c)] = c
  BY <1>1, CallFacts DEF At, GrantUsers, GrantsInvariant, HoldsRow
<1>3. /\ \A d \in Calls : d # c => call'[d] = call[d]
      /\ call'[c].pc = "refreshCommit" /\ call'[c].tenant = T(c)
      /\ call'[c].grant = g /\ call'[c].gen = call[c].gen + 1
  <2>1. /\ OnlyCall(c)
        /\ call'[c] = [call[c] EXCEPT !.pc = "refreshCommit", !.gen = call[c].gen + 1]
    BY AskingCall
  <2>2. /\ call'[c].pc = "refreshCommit" /\ call'[c].tenant = call[c].tenant
        /\ call'[c].grant = call[c].grant /\ call'[c].gen = call[c].gen + 1
    BY <1>2, <2>1 DEF CallRow
  <2> QED BY <2>1, <2>2, OtherCalls DEF T
<1>4. /\ credential[T(c)].grant = g /\ credential[T(c)].gen = call[c].gen
      /\ provider[g].gen = call[c].gen
  <2>1. RenewsStored(c)
    BY DEF GrantsInvariant, Renewals
  <2> QED BY <1>1, <2>1 DEF RenewsStored, Accepted
<1>5. /\ provider'[g].gen = call[c].gen + 1
      /\ \A h \in Grants : h # g => provider'[h] = provider[h]
  <2>1. provider' = [provider EXCEPT ![g].gen = @ + 1] /\ provider \in [Grants -> Issued]
    BY <1>1 DEF Rotated, TypeOK
  <2>2. provider'[g] = [provider[g] EXCEPT !.gen = provider[g].gen + 1]
    BY <1>2, <2>1 DEF Issued
  <2> QED BY <1>2, <1>4, <2>1, <2>2 DEF Issued
<1>6. \A t \in Tenants : credential[t].grant = g => t = T(c)
  BY <1>2, <1>4, OAuthAssumption DEF GrantsInvariant, GrantsAreSeparate, HasCredential
<1> HIDE DEF g
<1>7. HoldsRow'
  BY <1>1, <1>2, <1>3 DEF GrantsInvariant, HoldsRow, T
<1>8. GrantsAreIssued' /\ GrantsAreSeparate'
  <2>1. ASSUME NEW t \in Tenants, credential[t].grant # NoGrant
        PROVE  provider'[credential[t].grant].company \in Companies
    BY <2>1 DEF GrantsInvariant, GrantsAreIssued, HasCredential, IsIssued, IssuesStand,
                TypeOK, Credential
  <2>2. ASSUME NEW d \in Calls, call[d].grant # NoGrant
        PROVE  provider'[call[d].grant].company \in Companies
    <3>1. call[d].grant \in Grants
      BY <2>2, CallsAreOK DEF CallRow
    <3> QED BY <2>2, <3>1 DEF GrantsInvariant, GrantsAreIssued, IsIssued, IssuesStand
  <2> QED BY <1>1, <1>3, <2>1, <2>2
          DEF g, GrantsInvariant, GrantsAreIssued, HasCredential, IsIssued, GrantsAreSeparate
<1>9. NewGrantIsUnused'
  <2>1. ASSUME NEW d \in Calls, d # c, Persisting(d)
        PROVE  call[d].grant # g /\ call[d].grant \in Grants
    BY <2>1, CallFacts DEF g, Persisting, At, GrantUsers, GrantsInvariant, NewGrantIsUnused
  <2> QED BY <1>1, <1>3, <1>5, <2>1 DEF g, GrantsInvariant, NewGrantIsUnused, Persisting
<1>10. Renewals'
  <2>1. ASSUME NEW d \in Calls, d # c, At(d, "refreshCommit")
        PROVE  provider'[call[d].grant] = provider[call[d].grant]
    <3>1. /\ T(d) \in Tenants /\ call[d].grant \in Grants /\ rowLock[T(d)] = d
          /\ credential[T(d)].grant = call[d].grant
      BY <2>1, CallFacts
         DEF At, GrantUsers, GrantsInvariant, HoldsRow, Renewals, StoresRenewed
    <3> QED BY <1>2, <1>5, <1>6, <2>1, <3>1
  <2>2. RenewsStored(c)' /\ LateIsOld(c)' /\ StoresRenewed(c)'
    BY <1>1, <1>3, <1>4, <1>5 DEF RenewsStored, LateIsOld, StoresRenewed, At, T
  <2> QED BY <1>1, <1>3, <2>1, <2>2
          DEF GrantsInvariant, Renewals, RenewsStored, StoresRenewed, LateIsOld, At, T
<1>11. StoredTokenIsNewest'
  <2>1. ASSUME NEW t \in Tenants, credential[t].grant # NoGrant, credential[t].grant # g
        PROVE  provider'[credential[t].grant] = provider[credential[t].grant]
    BY <1>5, <2>1 DEF TypeOK, Credential
  <2> QED BY <1>1, <1>2, <1>3, <1>6, <2>1
          DEF GrantsInvariant, StoredTokenIsNewest, HasCredential, At, T
<1> QED BY <1>7, <1>8, <1>9, <1>10, <1>11 DEF GrantsInvariant

\* The transaction is rolled back; the request goes on with the token it has read.
LEMMA ExpiryPreserves ==
    ASSUME TypeOK, GrantsInvariant, NEW c \in Calls, TransactionExpires(c)
    PROVE  GrantsInvariant'
<1>1. /\ At(c, "ask") /\ UNCHANGED << credential, provider, lost >>
      /\ \A t \in Tenants : \A d \in Calls : d # c /\ rowLock[t] = d => rowLock'[t] = d
  BY Releasing DEF TransactionExpires
<1>2. /\ \A d \in Calls : d # c => call'[d] = call[d]
      /\ call'[c].pc = "late" /\ call'[c].grant = call[c].grant /\ call'[c].gen = call[c].gen
  <2>1. OnlyCall(c) /\ call'[c] = [call[c] EXCEPT !.pc = "late"] /\ call[c] \in CallRow
    BY ExpiringCall, CallsAreOK
  <2>2. call'[c].pc = "late" /\ call'[c].grant = call[c].grant /\ call'[c].gen = call[c].gen
    BY <2>1 DEF CallRow
  <2> QED BY <2>1, <2>2, OtherCalls
<1>3. /\ T(c) \in Tenants /\ call[c].grant \in Grants /\ call[c].gen \in Nat
      /\ credential[T(c)].grant = call[c].grant /\ credential[T(c)].gen = call[c].gen
  BY <1>1, CallFacts
     DEF At, GrantUsers, CallRow, Rotations, GrantsInvariant, Renewals, RenewsStored
<1>4. HoldsRow'
  BY <1>1, <1>2, CallFacts DEF GrantsInvariant, HoldsRow, T, At
<1>5. GrantsAreIssued' /\ GrantsAreSeparate'
  BY <1>1, <1>2
     DEF GrantsInvariant, GrantsAreIssued, IsIssued, HasCredential, GrantsAreSeparate
<1>6. NewGrantIsUnused'
  BY <1>1, <1>2 DEF GrantsInvariant, NewGrantIsUnused, Persisting
<1>7. Renewals'
  <2>1. ASSUME NEW t \in Tenants, credential[t].grant = call[c].grant
        PROVE  t = T(c)
    BY <1>3, <2>1, OAuthAssumption DEF GrantsInvariant, GrantsAreSeparate, HasCredential
  <2>2. LateIsOld(c)'
    BY <1>1, <1>2, <1>3, <2>1 DEF LateIsOld
  <2>3. RenewsStored(c)' /\ StoresRenewed(c)'
    BY <1>2 DEF RenewsStored, StoresRenewed, At
  <2> QED BY <1>1, <1>2, <2>2, <2>3
          DEF GrantsInvariant, Renewals, RenewsStored, StoresRenewed, LateIsOld, At, T
<1>8. StoredTokenIsNewest'
  BY <1>1, <1>2 DEF GrantsInvariant, StoredTokenIsNewest, HasCredential, At, T
<1> QED BY <1>4, <1>5, <1>6, <1>7, <1>8 DEF GrantsInvariant

\* Neither the age of an access token nor a withdrawn authorisation matters here.
LEMMA AgeingPreserves ==
    ASSUME TypeOK, GrantsInvariant, NEW t \in Tenants, AccessExpires(t)
    PROVE  GrantsInvariant'
<1>1. /\ UNCHANGED << call, provider, lost, rowLock >>
      /\ \A u \in Tenants : /\ credential'[u].grant = credential[u].grant
                            /\ credential'[u].gen = credential[u].gen
  BY DEF AccessExpires, TypeOK, Credential
<1>2. /\ HoldsRow' /\ GrantsAreIssued' /\ GrantsAreSeparate' /\ NewGrantIsUnused'
  BY <1>1 DEF GrantsInvariant, HoldsRow, GrantsAreIssued, IsIssued, HasCredential,
              GrantsAreSeparate, NewGrantIsUnused, Persisting, T
<1>3. Renewals'
  <2>1. ASSUME NEW c \in Calls
        PROVE  (RenewsStored(c) /\ StoresRenewed(c) /\ LateIsOld(c))'
    <3>1. call[c].pc # "idle" => T(c) \in Tenants
      BY CallFacts DEF At
    <3> QED BY <1>1, <3>1 DEF GrantsInvariant, Renewals, RenewsStored, StoresRenewed,
                              LateIsOld, At, T
  <2> QED BY <2>1 DEF Renewals
<1>4. StoredTokenIsNewest'
  BY <1>1 DEF GrantsInvariant, StoredTokenIsNewest, HasCredential, At, T
<1> QED BY <1>2, <1>3, <1>4 DEF GrantsInvariant

LEMMA RevokingPreserves ==
    ASSUME TypeOK, GrantsInvariant, NEW g \in Grants, Revoke(g)
    PROVE  GrantsInvariant'
<1>1. /\ UNCHANGED << call, credential, lost, rowLock >>
      /\ \A h \in Grants : /\ provider'[h].gen = provider[h].gen
                           /\ provider'[h].company = provider[h].company
  BY DEF Revoke, database, TypeOK, Issued
<1>2. /\ \A t \in Tenants : HasCredential(t) => credential[t].grant \in Grants
      /\ \A c \in Calls : call[c].grant # NoGrant => call[c].grant \in Grants
      /\ \A c \in Calls : call[c].pc \in GrantUsers => call[c].grant \in Grants
  BY CallsAreOK DEF TypeOK, HasCredential, Credential, CallOK, CallRow
<1>3. HoldsRow' /\ GrantsAreIssued' /\ GrantsAreSeparate' /\ NewGrantIsUnused'
  BY <1>1, <1>2
     DEF GrantsInvariant, HoldsRow, GrantsAreIssued, IsIssued, HasCredential,
         GrantsAreSeparate, NewGrantIsUnused, Persisting, GrantUsers, T
<1>4. Renewals'
  BY <1>1, <1>2 DEF GrantsInvariant, Renewals, RenewsStored, StoresRenewed, LateIsOld,
                    GrantUsers, At, T
<1>5. StoredTokenIsNewest'
  BY <1>1, <1>2 DEF GrantsInvariant, StoredTokenIsNewest, HasCredential, At, T
<1> QED BY <1>3, <1>4, <1>5 DEF GrantsInvariant

-----------------------------------------------------------------------------
(* What the synchronisation sees *)

\* A call that is past its token knows the company; one that renews has found its tenant
\* connected, which holds as long as it holds the row.
CompaniesKnown ==
    \A c \in Calls : call[c].pc \in {"conflict", "store"} => call[c].company \in Companies
RenewsConnected ==
    \A c \in Calls : call[c].pc \in {"ask", "refreshCommit"}
                        => status[T(c)] \notin {"NONE", "DISCONNECTED"}
SeenInvariant == CompaniesKnown /\ RenewsConnected

\* The status of a tenant changes under its row lock, or while nobody holds it.
LEMMA StatusChanges ==
    ASSUME TypeOK, HoldsRow, [Next]_vars, NEW t \in Tenants, status'[t] # status[t]
    PROVE  rowLock[t] = NoCall \/ \E c \in Calls : rowLock[t] = c /\ T(c) = t
                                    /\ call[c].pc \in {"persistCommit", "refreshCommit"}
                                    /\ call'[c].pc \notin {"ask", "refreshCommit"}
<1>1. ASSUME NEW c \in Calls, MarkError(c) \/ MarkHealthy(c) \/ CreateDisconnected(c)
                               \/ DisconnectCommit(c)
      PROVE  rowLock[t] = NoCall
  BY <1>1 DEF MarkError, MarkHealthy, CreateDisconnected, DisconnectCommit, Free, TypeOK
<1>2. ASSUME NEW c \in Calls, PersistCommit(c) \/ RefreshCommit(c)
      PROVE  rowLock[t] = c /\ T(c) = t /\ call[c].pc \in {"persistCommit", "refreshCommit"}
             /\ call'[c].pc \notin {"ask", "refreshCommit"}
  <2>1. Walked(c)
    BY <1>2, WalkingCall DEF Walking
  <2> QED BY <1>2, <2>1 DEF PersistCommit, RefreshCommit, HoldsRow, At, TypeOK, Walked, Critical
<1>3. ASSUME NEW c \in Calls,
             \/ Begin(c) \/ Exchange(c) \/ ExchangeFails(c) \/ Persist(c) \/ Load(c) \/ Lock(c)
             \/ Ask(c) \/ AskFails(c) \/ AnswerLate(c) \/ WhoAmI(c) \/ FindConflict(c)
             \/ StoreAccount(c) \/ Erase(c) \/ TransactionExpires(c) \/ TransactionFails(c)
             \/ Crash(c)
      PROVE  UNCHANGED status
  BY <1>3 DEF Begin, Consume, StartDisconnect, AskToken, Exchange, ExchangeFails, Persist, Load,
              Lock, Ask, AskFails, AnswerLate, WhoAmI, FindConflict, StoreAccount, Erase,
              TransactionExpires, TransactionFails, Crash, database
<1>4. ASSUME \/ \E f \in Flows : StateExpires(f) \/ \E u \in Tenants : StartConnect(f, u)
             \/ \E u \in Tenants : AccessExpires(u)
             \/ \E g \in Grants : Revoke(g)
             \/ UNCHANGED vars
      PROVE  UNCHANGED status
  BY <1>4 DEF StateExpires, StartConnect, AccessExpires, Revoke, database, vars
<1> QED BY <1>1, <1>2, <1>3, <1>4
        DEF Next, Progress, ConnectStep, TokenStep, IdentifyStep, DisconnectStep

\* A call learns its company from the provider, and keeps it until it has stored it.
LEMMA LearnsCompany ==
    ASSUME TypeOK, GrantsAreIssued, CompaniesKnown, NEW c \in Calls, Walking(c),
           call'[c].pc \in {"conflict", "store"}
    PROVE  call'[c].company \in Companies
<1>1. call \in [Calls -> CallRow]
  BY DEF TypeOK
<1>2. CASE WhoAmI(c)
  <2>1. call[c].grant \in Grants /\ call[c].grant # NoGrant
    BY <1>2, CallFacts, OAuthAssumption DEF WhoAmI, At, GrantUsers
  <2> QED BY <1>1, <1>2, <2>1
          DEF WhoAmI, Goto, Finish, Idle, GrantsAreIssued, IsIssued, CallRow
<1>3. CASE FindConflict(c)
  BY <1>1, <1>3 DEF FindConflict, CompaniesKnown, At, CallRow
<1>4. CASE Load(c) \/ RefreshCommit(c)
  BY <1>1, <1>4 DEF Load, RefreshCommit, WithToken, Goto, Finish, Idle, CallRow
<1>5. CASE ExchangeFails(c) \/ AskFails(c) \/ AnswerLate(c) \/ MarkError(c) \/ StoreAccount(c)
           \/ MarkHealthy(c) \/ CreateDisconnected(c) \/ DisconnectCommit(c)
           \/ TransactionFails(c) \/ Crash(c)
  BY <1>1, <1>5
     DEF ExchangeFails, AskFails, AnswerLate, MarkError, StoreAccount, MarkHealthy,
         CreateDisconnected, DisconnectCommit, TransactionFails, Crash, Goto, Finish, Idle, CallRow
<1>6. CASE Erase(c)
  BY <1>1, <1>6 DEF Erase, CallRow
<1>7. ASSUME NEW pc \in {"load", "erase"}, NEW p, NEW t,
             call' = [call EXCEPT ![c] = [Idle EXCEPT !.pc = pc, !.purpose = p, !.tenant = t]]
      PROVE  FALSE
  <2> DEFINE row == [Idle EXCEPT !.pc = pc, !.purpose = p, !.tenant = t]
  <2>1. row.pc \in {"load", "erase"}
    BY DEF Idle
  <2>2. call' = [call EXCEPT ![c] = row]
    BY <1>7
  <2> HIDE DEF row
  <2> QED BY <1>1, <2>1, <2>2
<1>8. CASE PersistCommit(c)
           \/ (\E t \in Tenants : StartDisconnect(c, t))
           \/ (\E t \in Tenants, p \in {"identify", "token"} : AskToken(c, p, t))
  BY <1>7, <1>8 DEF PersistCommit, StartDisconnect, AskToken
<1> QED BY <1>2, <1>3, <1>4, <1>5, <1>6, <1>8 DEF Walking, IdentifyStep, DisconnectStep

LEMMA SeenPreserved ==
    ASSUME TypeOK, GrantInvariant, SeenInvariant, [Next]_vars
    PROVE  SeenInvariant'
<1>1. HoldsRow /\ GrantsAreIssued /\ StatesBound
  BY DEF GrantInvariant
<1>2. ASSUME NEW d \in Calls, call'[d] = call[d]
      PROVE  /\ call'[d].pc \in {"conflict", "store"} => call'[d].company \in Companies
             /\ call'[d].pc \in {"ask", "refreshCommit"}
                   => status'[call'[d].tenant] \notin {"NONE", "DISCONNECTED"}
  <2>1. call'[d].pc \in {"conflict", "store"} => call'[d].company \in Companies
    BY <1>2 DEF SeenInvariant, CompaniesKnown
  <2>2. ASSUME call'[d].pc \in {"ask", "refreshCommit"}
        PROVE  status'[T(d)] \notin {"NONE", "DISCONNECTED"}
    <3>1. T(d) \in Tenants /\ rowLock[T(d)] = d /\ d # NoCall
          /\ status[T(d)] \notin {"NONE", "DISCONNECTED"}
      BY <1>1, <1>2, <2>2, CallFacts, OAuthAssumption
         DEF HoldsRow, At, SeenInvariant, RenewsConnected
    <3>2. status'[T(d)] = status[T(d)]
      BY <1>1, <1>2, <2>2, <3>1, StatusChanges
    <3> QED BY <3>1, <3>2
  <2> QED BY <1>2, <2>1, <2>2 DEF T
<1>3. ASSUME NEW c \in Calls, OnlyCall(c),
             call'[c].pc \in {"conflict", "store"} => call'[c].company \in Companies,
             call'[c].pc \in {"ask", "refreshCommit"}
                => status'[call'[c].tenant] \notin {"NONE", "DISCONNECTED"}
      PROVE  SeenInvariant'
  BY <1>2, <1>3, OtherCalls DEF SeenInvariant, CompaniesKnown, RenewsConnected, T
<1>4. CASE UNCHANGED call
  BY <1>2, <1>4 DEF SeenInvariant, CompaniesKnown, RenewsConnected, T
<1>5. ASSUME NEW c \in Calls, Walking(c)
      PROVE  SeenInvariant'
  BY <1>1, <1>3, <1>5, WalkingCall, LearnsCompany DEF Walked, Critical, SeenInvariant
<1>6. ASSUME NEW c \in Calls, NEW f \in Flows, Consume(c, f)
      PROVE  SeenInvariant'
  <2>1. Callback(c, f).pc = "exchange"
    BY DEF Callback, Idle
  <2> QED BY <1>1, <1>3, <1>4, <1>6, <2>1, ConsumingCall
<1>7. ASSUME NEW c \in Calls, Exchange(c)
      PROVE  SeenInvariant'
  <2>1. OnlyCall(c) /\ \E g \in Grants : call'[c] = [call[c] EXCEPT !.pc = "persist", !.grant = g]
    BY <1>7, ExchangingCall DEF Exchange
  <2>2. call'[c].pc = "persist"
    BY <2>1, CallsAreOK DEF CallRow
  <2> QED BY <1>3, <2>1, <2>2
<1>8. ASSUME NEW c \in Calls, Persist(c) \/ TransactionExpires(c)
      PROVE  SeenInvariant'
  <2>1. OnlyCall(c) /\ call'[c].pc \in {"persistCommit", "late"}
    BY <1>8, PersistingCall, ExpiringCall, CallsAreOK DEF CallRow
  <2> QED BY <1>3, <2>1
<1>9. ASSUME NEW c \in Calls, Ask(c)
      PROVE  SeenInvariant'
  <2>1. OnlyCall(c) /\ call'[c].pc = "refreshCommit" /\ call'[c].tenant = T(c)
    BY <1>9, AskingCall, CallsAreOK DEF CallRow, T
  <2>2. UNCHANGED status /\ status[T(c)] \notin {"NONE", "DISCONNECTED"}
    BY <1>9 DEF Ask, database, At, SeenInvariant, RenewsConnected
  <2> QED BY <1>3, <2>1, <2>2
<1>10. ASSUME NEW c \in Calls, Lock(c)
       PROVE  SeenInvariant'
  <2>1. UNCHANGED status
    BY <1>10 DEF Lock
  <2>2. CASE OnlyCall(c) /\ call'[c].pc = "ask" /\ call'[c].tenant = T(c) /\ Usable(T(c))
    BY <1>3, <2>1, <2>2 DEF Usable
  <2>3. CASE Walked(c)
    <3>1. call'[c].pc \notin {"conflict", "store"}
      BY <1>10 DEF Lock, WithToken, Goto, Finish, Idle, CallRow, Holding, TypeOK
    <3> QED BY <1>3, <2>3, <3>1 DEF Walked, Critical
  <2> QED BY <1>10, <2>2, <2>3, LockingCall
<1>11. ASSUME \/ \E f \in Flows : StateExpires(f) \/ \E t \in Tenants : StartConnect(f, t)
              \/ \E t \in Tenants : AccessExpires(t)
              \/ \E g \in Grants : Revoke(g)
              \/ UNCHANGED vars
       PROVE  UNCHANGED call
  BY <1>11 DEF StateExpires, StartConnect, AccessExpires, Revoke, vars
<1> QED BY <1>4, <1>5, <1>6, <1>7, <1>8, <1>9, <1>10, <1>11, Regrouped

Reckoned(t) == Integration(t)!IntegrationNext \/ UNCHANGED IntegrationOf(t)

\* What the grants are for does not change: a tenant nobody touches looks the same.
LEMMA SameSeen ==
    ASSUME TypeOK, GrantsAreIssued, IssuesStand, NEW t \in Tenants,
           status'[t] = status[t], credential'[t].grant = credential[t].grant,
           account'[t] = account[t]
    PROVE  UNCHANGED IntegrationOf(t)
<1>1. HasCredential(t) => /\ credential[t].grant \in Grants
                          /\ IsIssued(credential[t].grant)
  BY DEF TypeOK, HasCredential, Credential, GrantsAreIssued
<1>2. HasCredential(t) =>
        provider'[credential'[t].grant].company = provider[credential[t].grant].company
  BY <1>1 DEF IssuesStand
<1> QED BY <1>2 DEF IntegrationOf, HasCredential

\* The parts of what is seen, as records.
LEMMA SeenParts ==
    ASSUME NEW t \in Tenants
    PROVE  /\ IntegrationOf(t).status = IF status[t] = "NONE" THEN "DISCONNECTED" ELSE status[t]
           /\ IntegrationOf(t).credential = IF HasCredential(t)
                 THEN provider[credential[t].grant].company ELSE NoCompany
           /\ IntegrationOf(t).identity = account[t]
           /\ \A s : [IntegrationOf(t) EXCEPT !.status = s] =
                 [status |-> s, credential |-> IntegrationOf(t).credential,
                  identity |-> account[t]]
           /\ \A a : [IntegrationOf(t) EXCEPT !.identity = a] =
                 [status |-> IntegrationOf(t).status,
                  credential |-> IntegrationOf(t).credential, identity |-> a]
BY DEF IntegrationOf

\* A step that writes one tenant's rows.
Touches(c) ==
    \/ PersistCommit(c) \/ RefreshCommit(c) \/ MarkError(c) \/ StoreAccount(c)
    \/ MarkHealthy(c) \/ CreateDisconnected(c) \/ DisconnectCommit(c)

LEMMA OneTenant ==
    ASSUME TypeOK, GrantsAreIssued, IssuesStand, NEW c \in Calls, Touches(c),
           NEW t \in Tenants, t # T(c)
    PROVE  UNCHANGED IntegrationOf(t)
<1>1. /\ status'[t] = status[t] /\ credential'[t] = credential[t] /\ account'[t] = account[t]
  BY DEF Touches, PersistCommit, RefreshCommit, MarkError, StoreAccount, MarkHealthy,
         CreateDisconnected, DisconnectCommit, TypeOK
<1> QED BY <1>1, SameSeen

\* A callback connects, a renewal clears the error.
LEMMA CommitsSeen ==
    ASSUME TypeOK, GrantInvariant, SeenInvariant, IssuesStand, NEW c \in Calls,
           NEW t \in Tenants, t = T(c),
           PersistCommit(c) \/ RefreshCommit(c)
    PROVE  Reckoned(t)
<1>1. /\ call[c].grant \in Grants /\ call[c].grant # NoGrant
      /\ status'[t] = "CONNECTED" /\ credential'[t].grant = call[c].grant
      /\ UNCHANGED provider
  BY CallFacts, OAuthAssumption DEF PersistCommit, RefreshCommit, At, GrantUsers, TypeOK
<1>2. provider[call[c].grant].company \in Companies
  BY <1>1 DEF GrantInvariant, GrantsAreIssued, IsIssued
<1>3. IntegrationOf(t)' = [status |-> "CONNECTED",
                           credential |-> provider[call[c].grant].company,
                           identity |-> account'[t]]
  BY <1>1 DEF IntegrationOf, HasCredential
<1>4. CASE PersistCommit(c)
  <2>1. account'[t] = NoCompany
    BY <1>1, <1>4 DEF PersistCommit, TypeOK
  <2> QED BY <1>2, <1>3, <2>1 DEF Reckoned, Integration!IntegrationNext, Integration!Connect
<1>5. CASE RefreshCommit(c)
  <2>1. /\ UNCHANGED account /\ credential[t].grant = call[c].grant
        /\ status[t] \notin {"NONE", "DISCONNECTED"}
    BY <1>5 DEF RefreshCommit, At, GrantInvariant, Renewals, StoresRenewed, SeenInvariant,
                RenewsConnected
  <2>2. IntegrationOf(t).credential = provider[call[c].grant].company
    BY <1>1, <2>1, SeenParts DEF HasCredential
  <2>3. IntegrationOf(t)' = [IntegrationOf(t) EXCEPT !.status = "CONNECTED"]
    BY <1>1, <1>3, <2>1, <2>2, SeenParts
  <2>4. IntegrationOf(t).status # "DISCONNECTED"
    BY <1>1, <2>1, SeenParts
  <2> QED BY <2>3, <2>4 DEF Reckoned, Integration!IntegrationNext, Integration!ClearError
<1> QED BY <1>4, <1>5

\* A failure marks the error, an identification clears it; neither creates the row.
LEMMA MarksSeen ==
    ASSUME TypeOK, GrantInvariant, IssuesStand, NEW c \in Calls, NEW t \in Tenants, t = T(c),
           MarkError(c) \/ MarkHealthy(c) \/ CreateDisconnected(c)
    PROVE  Reckoned(t)
<1>1. /\ UNCHANGED << credential, account, provider >>
      /\ status \in [Tenants -> Statuses]
  BY CallFacts DEF MarkError, MarkHealthy, CreateDisconnected, At, TypeOK
<1>2. ASSUME NEW s, status'[t] = s, s # "NONE"
      PROVE  IntegrationOf(t)' = [IntegrationOf(t) EXCEPT !.status = s]
  BY <1>1, <1>2, SeenParts DEF IntegrationOf, HasCredential
<1>3. CASE status'[t] = status[t]
  BY <1>1, <1>3, SameSeen DEF Reckoned, GrantInvariant
<1>4. CASE MarkError(c) /\ status[t] # "NONE"
  <2>1. status'[t] = "ERROR"
    BY <1>1, <1>4 DEF MarkError
  <2>2. IntegrationOf(t)' = [IntegrationOf(t) EXCEPT !.status = "ERROR"]
    BY <1>2, <2>1
  <2> QED BY <2>2 DEF Reckoned, Integration!IntegrationNext, Integration!MarkError
<1>5. CASE MarkHealthy(c) /\ status[t] \in {"CONNECTED", "ERROR"}
  <2>1. status'[t] = "CONNECTED" /\ IntegrationOf(t).status # "DISCONNECTED"
    BY <1>1, <1>5, SeenParts DEF MarkHealthy
  <2>2. IntegrationOf(t)' = [IntegrationOf(t) EXCEPT !.status = "CONNECTED"]
    BY <1>2, <2>1
  <2> QED BY <2>1, <2>2 DEF Reckoned, Integration!IntegrationNext, Integration!ClearError
<1>6. CASE CreateDisconnected(c)
  <2>1. status[t] = "NONE" /\ status'[t] = "DISCONNECTED"
    BY <1>1, <1>6 DEF CreateDisconnected
  <2> QED BY <1>1, <2>1 DEF Reckoned, IntegrationOf, HasCredential
<1> QED BY <1>1, <1>3, <1>4, <1>5, <1>6 DEF MarkError, MarkHealthy

\* The company is stored, whatever has become of the integration.
LEMMA AccountSeen ==
    ASSUME TypeOK, SeenInvariant, NEW c \in Calls, NEW t \in Tenants, t = T(c),
           StoreAccount(c)
    PROVE  Reckoned(t)
<1>1. /\ UNCHANGED << status, credential, provider >>
      /\ account'[t] = call[c].company /\ call[c].company \in Companies
  BY CallFacts DEF StoreAccount, At, TypeOK, SeenInvariant, CompaniesKnown
<1>2. IntegrationOf(t)' = [IntegrationOf(t) EXCEPT !.identity = call[c].company]
  BY <1>1, SeenParts DEF IntegrationOf, HasCredential
<1> QED BY <1>1, <1>2 DEF Reckoned, Integration!IntegrationNext, Integration!StoreIdentity

\* A disconnect leaves no row it found, and may leave one it did not.
LEMMA DisconnectSeen ==
    ASSUME TypeOK, NEW c \in Calls, NEW t \in Tenants, t = T(c), DisconnectCommit(c)
    PROVE  Reckoned(t)
<1> DEFINE k == IntegrationOf(t)'.credential
<1>1. /\ UNCHANGED provider /\ status'[t] = "DISCONNECTED"
      /\ credential'[t] \in {credential[t], NoCredential}
      /\ account'[t] \in {account[t], NoCompany}
  BY CallFacts DEF DisconnectCommit, At, TypeOK
<1>2. IntegrationOf(t)' = [status |-> "DISCONNECTED", credential |-> k,
                           identity |-> account'[t]]
  BY <1>1 DEF IntegrationOf
<1>3. k \in {NoCompany, IntegrationOf(t).credential}
  BY <1>1 DEF IntegrationOf, HasCredential, NoCredential
<1>4. account'[t] \in {NoCompany, IntegrationOf(t).identity}
  BY <1>1, SeenParts
<1> HIDE DEF k
<1> QED BY <1>2, <1>3, <1>4 DEF Reckoned, Integration!IntegrationNext, Integration!EraseConnection

\* The locks, requests, failures and crashes are not seen.
LEMMA UnseenSteps ==
    ASSUME TypeOK, GrantInvariant, IssuesStand, [Next]_vars,
           \A c \in Calls : ~ Touches(c), NEW t \in Tenants
    PROVE  UNCHANGED IntegrationOf(t)
<1>1. ASSUME NEW c \in Calls,
             \/ Begin(c) \/ Exchange(c) \/ ExchangeFails(c) \/ Persist(c) \/ Load(c) \/ Lock(c)
             \/ Ask(c) \/ AskFails(c) \/ AnswerLate(c) \/ WhoAmI(c) \/ FindConflict(c)
             \/ Erase(c) \/ TransactionExpires(c) \/ TransactionFails(c) \/ Crash(c)
      PROVE  UNCHANGED << status, credential, account >>
  BY <1>1 DEF Begin, Consume, StartDisconnect, AskToken, Exchange, ExchangeFails, Persist, Load,
              Lock, Ask, AskFails, AnswerLate, WhoAmI, FindConflict, Erase,
              TransactionExpires, TransactionFails, Crash, database
<1>2. ASSUME \/ \E f \in Flows : StateExpires(f) \/ \E u \in Tenants : StartConnect(f, u)
             \/ \E g \in Grants : Revoke(g)
             \/ UNCHANGED vars
      PROVE  UNCHANGED << status, credential, account >>
  BY <1>2 DEF StateExpires, StartConnect, Revoke, database, vars
<1>3. ASSUME NEW u \in Tenants, AccessExpires(u)
      PROVE  UNCHANGED << status, account >> /\ credential'[t].grant = credential[t].grant
  BY <1>3 DEF AccessExpires, TypeOK, Credential
<1>4. CASE UNCHANGED << status, account >> /\ credential'[t].grant = credential[t].grant
  BY <1>4, SameSeen DEF GrantInvariant
<1> QED BY <1>1, <1>2, <1>3, <1>4
        DEF Next, Progress, ConnectStep, TokenStep, IdentifyStep, DisconnectStep, Touches

LEMMA StepsReckoned ==
    ASSUME TypeOK, GrantInvariant, SeenInvariant, [Next]_vars, NEW t \in Tenants
    PROVE  Reckoned(t)
<1>1. IssuesStand /\ GrantsAreIssued
  BY EnvironmentTypes DEF GrantInvariant
<1>2. ASSUME NEW c \in Calls, Touches(c)
      PROVE  Reckoned(t)
  <2>1. CASE t # T(c)
    BY <1>1, <1>2, <2>1, OneTenant DEF Reckoned
  <2>2. CASE t = T(c)
    BY <1>1, <1>2, <2>2, CommitsSeen, MarksSeen, AccountSeen, DisconnectSeen DEF Touches
  <2> QED BY <2>1, <2>2
<1> QED BY <1>1, <1>2, UnseenSteps DEF Reckoned

LEMMA NothingSeenAtFirst ==
    ASSUME Init, NEW t \in Tenants
    PROVE  Integration(t)!IntegrationInit
BY DEF Init, NoCredential, HasCredential, IntegrationOf, Integration!IntegrationInit,
       Integration!NotConnected

-----------------------------------------------------------------------------
(* Who holds a row *)

RowHolders == {"persistCommit", "ask", "refreshCommit"}
LocksInUse ==
    \A t \in Tenants, c \in Calls :
        /\ rowLock[t] = c => T(c) = t /\ call[c].pc \in RowHolders
        /\ childLock[t] = c => T(c) = t /\ At(c, "disconnectRow")

\* A call that holds a row gives up both when it leaves the transaction.
LEMMA ReleasingAll ==
    ASSUME TypeOK, NEW c \in Calls, ReleaseAll(c)
    PROVE  \A t \in Tenants, d \in Calls :
              /\ rowLock'[t] = d => d # c /\ rowLock[t] = d
              /\ childLock'[t] = d => d # c /\ childLock[t] = d
BY OAuthAssumption DEF ReleaseAll, Released, TypeOK

\* Only the call of a step takes or releases rows, and the others stay where they are.
LEMMA KeptByOthers ==
    ASSUME TypeOK, LocksInUse, NEW c \in Calls, OnlyCall(c),
           \A t \in Tenants : \A d \in Calls :
              /\ rowLock'[t] = d /\ d # c => rowLock[t] = d
              /\ childLock'[t] = d /\ d # c => childLock[t] = d,
           \A t \in Tenants :
              /\ rowLock'[t] = c => call'[c].tenant = t /\ call'[c].pc \in RowHolders
              /\ childLock'[t] = c => call'[c].tenant = t /\ call'[c].pc = "disconnectRow"
    PROVE  LocksInUse'
BY OtherCalls DEF LocksInUse, At, T

LEMMA LocksPreserved ==
    ASSUME TypeOK, StatesBound, LocksInUse, [Next]_vars
    PROVE  LocksInUse'
<1>1. CASE UNCHANGED << rowLock, childLock, call >>
  BY <1>1 DEF LocksInUse, At, T
<1>2. ASSUME NEW c \in Calls, OnlyCall(c), ReleaseAll(c)
      PROVE  LocksInUse'
  BY <1>2, ReleasingAll, KeptByOthers
<1>3. ASSUME NEW c \in Calls, OnlyCall(c), UNCHANGED << rowLock, childLock >>,
             call[c].pc \notin RowHolders, ~ At(c, "disconnectRow")
      PROVE  LocksInUse'
  <2>1. \A t \in Tenants : rowLock[t] # c /\ childLock[t] # c
    BY <1>3 DEF LocksInUse
  <2> QED BY <1>3, <2>1, KeptByOthers
<1>4. ASSUME NEW c \in Calls, PersistCommit(c) \/ AskFails(c) \/ RefreshCommit(c)
                               \/ DisconnectCommit(c) \/ TransactionFails(c) \/ Crash(c)
      PROVE  LocksInUse'
  <2>1. OnlyCall(c)
    BY <1>4, WalkingCall DEF Walking, DisconnectStep, Walked
  <2>2. ReleaseAll(c)
    BY <1>4 DEF PersistCommit, AskFails, RefreshCommit, DisconnectCommit, TransactionFails, Crash
  <2> QED BY <1>2, <2>1, <2>2
<1>5. ASSUME NEW c \in Calls, TransactionExpires(c)
      PROVE  LocksInUse'
  BY <1>2, <1>5, ExpiringCall DEF TransactionExpires
<1>6. ASSUME NEW c \in Calls,
             \/ ExchangeFails(c) \/ Load(c) \/ AnswerLate(c) \/ MarkError(c) \/ IdentifyStep(c)
             \/ CreateDisconnected(c)
             \/ \E t \in Tenants : StartDisconnect(c, t)
             \/ \E t \in Tenants, p \in {"identify", "token"} : AskToken(c, p, t)
      PROVE  LocksInUse'
  <2>1. OnlyCall(c)
    BY <1>6, WalkingCall DEF Walking, DisconnectStep, Walked
  <2>2. /\ UNCHANGED << rowLock, childLock >>
        /\ call[c].pc \notin RowHolders /\ ~ At(c, "disconnectRow")
    BY <1>6 DEF ExchangeFails, Load, AnswerLate, MarkError, IdentifyStep, WhoAmI, FindConflict,
                StoreAccount, MarkHealthy, CreateDisconnected, StartDisconnect, AskToken,
                database, At, RowHolders
  <2> QED BY <1>3, <2>1, <2>2
<1>7. ASSUME NEW c \in Calls, NEW f \in Flows, Consume(c, f)
      PROVE  LocksInUse'
  <2>1. UNCHANGED << rowLock, childLock >> /\ call[c].pc = "idle"
    BY <1>7 DEF Consume, database, At
  <2> QED BY <1>1, <1>3, <1>7, <2>1, ConsumingCall DEF RowHolders, At
<1>8. ASSUME NEW c \in Calls, Exchange(c)
      PROVE  LocksInUse'
  <2>1. OnlyCall(c)
    BY <1>8, ExchangingCall DEF Exchange
  <2>2. UNCHANGED << rowLock, childLock >> /\ call[c].pc = "exchange"
    BY <1>8 DEF Exchange, database, At
  <2> QED BY <1>3, <2>1, <2>2 DEF RowHolders, At
<1>9. ASSUME NEW c \in Calls, Persist(c) \/ Lock(c), rowLock' = Granted(rowLock, c),
             call'[c].pc \in RowHolders, call'[c].tenant = T(c), OnlyCall(c)
      PROVE  LocksInUse'
  <2>1. /\ T(c) \in Tenants /\ UNCHANGED childLock
        /\ call[c].pc \notin RowHolders /\ ~ At(c, "disconnectRow")
    BY <1>9, CallFacts DEF Persist, Lock, At, RowHolders
  <2>2. \A t \in Tenants : rowLock[t] # c /\ childLock[t] # c
    BY <2>1 DEF LocksInUse
  <2>3. \A t \in Tenants : rowLock'[t] = IF t = T(c) THEN c ELSE rowLock[t]
    BY <1>9, <2>1 DEF Granted, TypeOK
  <2> QED BY <1>9, <2>1, <2>2, <2>3, KeptByOthers
<1>10. ASSUME NEW c \in Calls, Persist(c)
       PROVE  LocksInUse'
  <2>1. OnlyCall(c) /\ call'[c].pc = "persistCommit" /\ call'[c].tenant = T(c)
    BY <1>10, PersistingCall, CallsAreOK DEF CallRow, T
  <2> QED BY <1>9, <1>10, <2>1 DEF Persist, RowHolders
<1>11. ASSUME NEW c \in Calls, Lock(c)
       PROVE  LocksInUse'
  <2>1. CASE Walked(c) /\ UNCHANGED rowLock
    BY <1>3, <1>11, <2>1 DEF Lock, Walked, At, RowHolders
  <2> QED BY <1>9, <1>11, <2>1, LockingCall DEF RowHolders
<1>12. ASSUME NEW c \in Calls, Ask(c)
       PROVE  LocksInUse'
  <2>1. /\ OnlyCall(c) /\ call'[c].pc = "refreshCommit" /\ call'[c].tenant = T(c)
        /\ UNCHANGED << rowLock, childLock >> /\ At(c, "ask")
    <3>1. /\ OnlyCall(c) /\ call[c] \in CallRow
          /\ call'[c] = [call[c] EXCEPT !.pc = "refreshCommit", !.gen = call[c].gen + 1]
      BY <1>12, AskingCall, CallsAreOK
    <3>2. call'[c].pc = "refreshCommit" /\ call'[c].tenant = T(c)
      BY <3>1 DEF CallRow, T
    <3> QED BY <1>12, <3>1, <3>2 DEF Ask, database
  <2> QED BY <2>1, KeptByOthers DEF LocksInUse, RowHolders, At
<1>13. ASSUME NEW c \in Calls, Erase(c)
       PROVE  LocksInUse'
  <2>1. OnlyCall(c)
    BY <1>13, WalkingCall DEF Walking, DisconnectStep, Walked
  <2>2. /\ T(c) \in Tenants /\ UNCHANGED rowLock /\ call[c].pc = "erase"
        /\ \A t \in Tenants : \A d \in Calls : childLock'[t] = d =>
              childLock[t] = d \/ (t = T(c) /\ d = c)
    BY <1>13, CallFacts DEF Erase, At, Granted, TypeOK
  <2>3. call'[c].pc = "disconnectRow" /\ call'[c].tenant = T(c)
    BY <1>13, CallsAreOK DEF Erase, CallRow, T
  <2>4. \A t \in Tenants : rowLock[t] # c /\ childLock[t] # c
    BY <2>2 DEF LocksInUse, RowHolders, At
  <2> QED BY <2>1, <2>2, <2>3, <2>4, KeptByOthers
<1>14. ASSUME \/ \E f \in Flows : StateExpires(f) \/ \E t \in Tenants : StartConnect(f, t)
              \/ \E t \in Tenants : AccessExpires(t)
              \/ \E g \in Grants : Revoke(g)
              \/ UNCHANGED vars
       PROVE  LocksInUse'
  BY <1>1, <1>14 DEF StateExpires, StartConnect, AccessExpires, Revoke, database, vars
<1> QED BY <1>4, <1>5, <1>6, <1>7, <1>8, <1>10, <1>11, <1>12, <1>13, <1>14, Regrouped
        DEF Walking, DisconnectStep

\* Whom a call waits for holds the row or is deleting, and its statement says what it needs.
LEMMA Waiting ==
    ASSUME TypeOK, LocksInUse, NEW c \in Calls, NEW d \in Calls, WaitsFor(c, d)
    PROVE  /\ T(c) \in Tenants /\ T(d) = T(c)
           /\ \/ rowLock[T(c)] = d /\ call[d].pc \in RowHolders
              \/ childLock[T(c)] = d /\ At(d, "disconnectRow")
           /\ call[c].pc \in RowHolders => childLock[T(c)] = d
           /\ At(c, "disconnectRow") => rowLock[T(c)] = d
<1>1. T(c) \in Tenants
  BY CallFacts DEF WaitsFor, At
<1> QED BY <1>1 DEF WaitsFor, LocksInUse, RowHolders, At

LEMMA WaitsAreShort ==
    ASSUME TypeOK, LocksInUse
    PROVE  WaitsEnd
<1> SUFFICES ASSUME NEW c \in Calls, NEW d \in Calls, WaitsFor(c, d)
             PROVE  /\ ~ At(d, "idle")
                    /\ \/ Deadlocked(d)
                       \/ \A e, f \in Calls : ~ (WaitsFor(d, e) /\ WaitsFor(e, f))
  BY DEF WaitsEnd
<1>1. ~ At(d, "idle")
  BY Waiting DEF RowHolders, At
<1>2. ASSUME NEW e \in Calls, NEW f \in Calls, WaitsFor(d, e), WaitsFor(e, f)
      PROVE  Deadlocked(d)
  <2> DEFINE t == T(c)
  <2>1. t \in Tenants /\ T(d) = t /\ T(e) = t
    BY <1>2, Waiting
  <2>2. CASE rowLock[t] = d /\ call[d].pc \in RowHolders
    <3>1. childLock[t] = e /\ At(e, "disconnectRow")
      BY <1>2, <2>1, <2>2, Waiting DEF LocksInUse
    <3>2. WaitsFor(e, d) /\ e # d
      BY <2>1, <2>2, <3>1 DEF WaitsFor, At, RowHolders
    <3> QED BY <1>2, <3>2 DEF Deadlocked
  <2>3. CASE childLock[t] = d /\ At(d, "disconnectRow")
    <3>1. rowLock[t] = e /\ call[e].pc \in RowHolders
      BY <1>2, <2>1, <2>3, Waiting DEF LocksInUse
    <3>2. f = d
      BY <1>2, <2>1, <2>3, <3>1, Waiting
    <3>3. e # d
      BY <2>3, <3>1 DEF RowHolders, At
    <3> QED BY <1>2, <3>2, <3>3 DEF Deadlocked
  <2> QED BY <2>2, <2>3, Waiting
<1> QED BY <1>1, <1>2

-----------------------------------------------------------------------------
(* The theorems *)

LEMMA InitialInvariant ==
    ASSUME Init
    PROVE  TypeOK /\ GrantInvariant
<1>1. 0 \in Rotations /\ CallOK(Idle)
  BY OAuthAssumption DEF Rotations, CallOK, Idle, CallRow, Pcs, Purposes, GrantUsers
<1>2. TypeOK
  BY <1>1, OAuthAssumption
     DEF Init, TypeOK, Statuses, Credential, NoCredential, StateRow, Issued, Unissued, CallOK,
         GrantUsers
<1>3. /\ \A t \in Tenants : credential[t].grant = NoGrant
      /\ \A c \in Calls : call[c].pc = "idle" /\ call[c].grant = NoGrant /\ call[c].flow = NoFlow
      /\ \A f \in Flows : state[f].phase = "unused"
  BY DEF Init, NoCredential, Idle
<1>4. StatesBound /\ StateUsedOnce /\ HoldsRow
  BY <1>3, OAuthAssumption DEF StatesBound, StateUsedOnce, HoldsRow
<1>5. /\ GrantsAreIssued /\ GrantsAreSeparate /\ NewGrantIsUnused /\ Renewals
      /\ StoredTokenIsNewest
  BY <1>3 DEF GrantsAreIssued, HasCredential, GrantsAreSeparate, NewGrantIsUnused, Persisting,
              Renewals, RenewsStored, StoresRenewed, LateIsOld, StoredTokenIsNewest, At
<1> QED BY <1>2, <1>4, <1>5 DEF GrantInvariant

LEMMA WalkedLock ==
    ASSUME TypeOK, NEW c \in Calls, Lock(c), UNCHANGED rowLock
    PROVE  WalkedData(c)
BY DEF Lock, At, WalkedData, ChangesCredential, ChangesProvider, FreesOwnRows

LEMMA InvariantPreserved ==
    ASSUME TypeOK, GrantInvariant, [Next]_vars
    PROVE  TypeOK' /\ GrantInvariant'
<1>1. GrantsInvariant /\ StatesBound /\ StateUsedOnce
  BY DEF GrantInvariant, GrantsInvariant
<1>2. TypeOK' /\ StatesBound' /\ StateUsedOnce' /\ IssuesStand
  BY <1>1, TypesPreserved, StatesStayBound, StatesStayUsedOnce, EnvironmentTypes
<1>3. ASSUME NEW c \in Calls, Lock(c)
      PROVE  GrantsInvariant'
  <2>1. CASE Walked(c) /\ UNCHANGED rowLock
    BY <1>1, <1>2, <1>3, <2>1, WalkingPreserves, WalkedLock
  <2> QED BY <1>1, <1>3, <2>1, LockingCall, LockPreserves
<1>4. ASSUME NEW c \in Calls,
             \/ Walking(c) \/ \E f \in Flows : Consume(c, f)
             \/ Exchange(c) \/ Persist(c) \/ Ask(c) \/ TransactionExpires(c)
      PROVE  GrantsInvariant'
  BY <1>1, <1>2, <1>4, WalkingCall, WalkingData, WalkingPreserves, ConsumePreserves, ExchangePreserves,
     PersistPreserves, AskPreserves, ExpiryPreserves
<1>5. ASSUME \/ \E f \in Flows : StateExpires(f) \/ \E t \in Tenants : StartConnect(f, t)
             \/ UNCHANGED vars
      PROVE  GrantsInvariant'
  <2>1. UNCHANGED << credential, provider, lost, rowLock, call >>
    BY <1>5 DEF StateExpires, StartConnect, database, vars
  <2> QED BY <1>1, <2>1, ElsewherePreserves
<1>6. GrantsInvariant'
  BY <1>1, <1>3, <1>4, <1>5, Regrouped, AgeingPreserves, RevokingPreserves
<1> QED BY <1>2, <1>6 DEF GrantInvariant, GrantsInvariant

\* The stored grant changes only when a callback commits.
LEMMA GrantChanges ==
    ASSUME TypeOK, GrantInvariant, [Next]_vars, NEW t \in Tenants,
           credential'[t].grant \notin {credential[t].grant, NoGrant}
    PROVE  \E c \in Calls : At(c, "persistCommit") /\ T(c) = t /\ call'[c] # call[c]
<1>1. ASSUME NEW c \in Calls, Walking(c)
      PROVE  At(c, "persistCommit") /\ T(c) = t /\ call'[c] # call[c]
  <2>1. Walked(c) /\ WalkedData(c)
    BY <1>1, WalkingCall, WalkingData
  <2>2. ~ (At(c, "refreshCommit") /\ t = T(c) /\ credential'[t].grant = call[c].grant)
    BY DEF GrantInvariant, Renewals, StoresRenewed
  <2>3. At(c, "persistCommit") /\ T(c) = t
    BY <2>1, <2>2, WalkedCredential DEF GrantInvariant
  <2> QED BY <2>1, <2>3 DEF Walked, Critical, At
<1>2. ASSUME NEW u \in Tenants, AccessExpires(u)
      PROVE  FALSE
  BY <1>2 DEF AccessExpires, TypeOK, Credential
<1>3. ASSUME NEW c \in Calls, \/ Exchange(c) \/ Persist(c) \/ Lock(c) \/ Ask(c)
                              \/ TransactionExpires(c) \/ \E f \in Flows : Consume(c, f)
      PROVE  UNCHANGED credential
  BY <1>3 DEF Exchange, Persist, Lock, Ask, TransactionExpires, Consume, database
<1>4. ASSUME \/ \E f \in Flows : StateExpires(f) \/ \E u \in Tenants : StartConnect(f, u)
             \/ \E g \in Grants : Revoke(g)
             \/ UNCHANGED vars
      PROVE  UNCHANGED credential
  BY <1>4 DEF StateExpires, StartConnect, Revoke, database, vars
<1> QED BY <1>1, <1>2, <1>3, <1>4, Regrouped

\* The strengthening that carries the properties below.
THEOREM InvariantHolds == Spec => [](TypeOK /\ GrantInvariant)
<1>1. TypeOK /\ GrantInvariant /\ [Next]_vars => TypeOK' /\ GrantInvariant'
  BY InvariantPreserved
<1>2. Init => TypeOK /\ GrantInvariant
  BY InitialInvariant
<1> QED BY <1>1, <1>2, PTL DEF Spec

\* The rows, the states and the calls keep their types.
THEOREM TypeCorrect == Spec => []TypeOK
BY InvariantHolds, PTL

\* One OAuth state lets at most one callback through, however many arrive with it.
THEOREM StatesAreSingleUse == Spec => []StateUsedOnce
<1>1. GrantInvariant => StateUsedOnce
  BY DEF GrantInvariant
<1> QED BY <1>1, InvariantHolds, PTL

\* The stored refresh token is the provider's newest one, is about to be replaced by it,
\* or was lost with a transaction: for any number of tenants, calls and rotations.
THEOREM StoredTokensAreNewest == Spec => []StoredTokenIsNewest
<1>1. GrantInvariant => StoredTokenIsNewest
  BY DEF GrantInvariant
<1> QED BY <1>1, InvariantHolds, PTL

\* No renewal restores a replaced grant or revives a removed one.
THEOREM RenewalsKeepGrants == Spec => RenewalKeepsGrant
<1>1. TypeOK /\ GrantInvariant /\ [Next]_vars =>
        [\A t \in Tenants :
            credential'[t].grant \notin {credential[t].grant, NoGrant}
               => \E c \in Calls : At(c, "persistCommit") /\ T(c) = t /\ call'[c] # call[c]
        ]_credential
  BY GrantChanges
<1> QED BY <1>1, InvariantHolds, PTL DEF Spec, RenewalKeepsGrant
LEMMA SeenHolds == Spec => []SeenInvariant
<1>1. Init => SeenInvariant
  BY DEF Init, Idle, SeenInvariant, CompaniesKnown, RenewsConnected
<1>2. TypeOK /\ GrantInvariant /\ SeenInvariant /\ [Next]_vars => SeenInvariant'
  BY SeenPreserved
<1> QED BY <1>1, <1>2, InvariantHolds, PTL DEF Spec

\* For every tenant, what the synchronisation sees of the integration changes only as
\* IntegrationLifecycle says, whatever calls overlap, expire, deadlock or die half-way.
THEOREM IntegrationImplemented == Spec => ImplementsIntegration
<1>1. Init => \A t \in Tenants : Integration(t)!IntegrationInit
  BY NothingSeenAtFirst
<1>2. TypeOK /\ GrantInvariant /\ SeenInvariant /\ [Next]_vars =>
        [\A t \in Tenants : [Integration(t)!IntegrationNext]_(IntegrationOf(t))]_vars
  BY StepsReckoned DEF Reckoned
<1> QED BY <1>1, <1>2, InvariantHolds, SeenHolds, PTL DEF Spec, ImplementsIntegration

\* Locks do not leak and waits do not close longer cycles: whoever is waited for goes on,
\* waits for one that does, or is one of two that wait for each other.
THEOREM CallsWaitForProgress == Spec => []WaitsEnd
<1>1. Init => LocksInUse
  BY OAuthAssumption DEF Init, LocksInUse
<1>2. TypeOK /\ GrantInvariant /\ LocksInUse /\ [Next]_vars => LocksInUse'
  BY LocksPreserved DEF GrantInvariant
<1>3. TypeOK /\ LocksInUse => WaitsEnd
  BY WaitsAreShort
<1> QED BY <1>1, <1>2, <1>3, InvariantHolds, PTL DEF Spec
=============================================================================
