------------------------------ MODULE UserAccounts ------------------------------
(***************************************************************************)
(* The rows of users and user_credentials: logins that count wrong         *)
(* passwords and lock an account for a while, and the administrators'      *)
(* operations on accounts, which must leave one operational ADMIN.         *)
(*                                                                         *)
(* A transaction that locks a single row and then writes it is one step,   *)
(* taken while nobody else holds the row.  block and disable lock several  *)
(* rows and are taken apart at every row they may wait for.  The mode is   *)
(* READ COMMITTED: each statement sees what was committed when it began.   *)
(***************************************************************************)
EXTENDS Naturals, FiniteSets

CONSTANTS
    Users,        \* user ids, in the order of ORDER BY id
    Admins,       \* those whose role is ADMIN; the others are users of a company
    Calls,        \* requests in progress
    NoUser, NoCall,
    MaxAttempts   \* AUTH_MAX_FAILED_LOGIN_ATTEMPTS

ASSUME AccountsAssumption ==
    /\ Users \subseteq Nat /\ IsFiniteSet(Users)
    /\ Admins \subseteq Users
    /\ NoUser \notin Users
    /\ NoCall \notin Calls
    /\ MaxAttempts \in Nat \ {0}

VARIABLES
    user,   \* the rows; the time of lockedUntil is reduced to past or future
    lock,   \* the transaction that holds each row
    call,   \* what each request is doing
    undercut  \* history: an administrator was locked out, or became usable meanwhile

vars == << user, lock, call, undercut >>

-----------------------------------------------------------------------------
(* Data *)

Statuses == {"ABSENT", "ACTIVE", "BLOCKED", "DISABLED"}
LockedUntil == {"null", "future", "past"}

UserRow == [status: Statuses, lockedUntil: LockedUntil, attempts: Nat,
            deactivated: BOOLEAN, credential: BOOLEAN, removed: BOOLEAN]
NoRow == [status |-> "ABSENT", lockedUntil |-> "null", attempts |-> 0,
          deactivated |-> FALSE, credential |-> FALSE, removed |-> FALSE]
Created == [NoRow EXCEPT !.status = "ACTIVE"]

Ops == {"login", "request", "create", "block", "disable"}
Pcs == {"idle", "recover", "verify", "failed", "success", "credential",
        "locking", "target", "write"}
CallRow == [op: Ops, pc: Pcs, user: Users \cup {NoUser}, todo: SUBSET Users]
Idle == [op |-> "login", pc |-> "idle", user |-> NoUser, todo |-> {}]

TypeOK ==
    /\ user \in [Users -> UserRow]
    /\ lock \in [Users -> Calls \cup {NoCall}]
    /\ call \in [Calls -> CallRow]
    /\ undercut \in BOOLEAN
    /\ \A c \in Calls :
          /\ call[c].pc # "idle" => call[c].user \in Users
          /\ call[c].pc \in {"locking", "target", "write"} => call[c].op \in {"block", "disable"}
          /\ call[c].pc # "locking" => call[c].todo = {}
    /\ \A u \in Users : lock[u] # NoCall => call[lock[u]].pc \in {"locking", "target", "write"}

\* The platform starts with operational administrators; a user may have any history.
Init ==
    /\ user \in [Users -> {NoRow, [Created EXCEPT !.credential = TRUE]}]
    /\ \E a \in Admins : user[a].status = "ACTIVE"
    /\ lock = [u \in Users |-> NoCall]
    /\ call = [c \in Calls |-> Idle]
    /\ undercut = FALSE

-----------------------------------------------------------------------------
(* Helpers *)

At(c, pc)   == call[c].pc = pc
Goto(c, pc) == call' = [call EXCEPT ![c].pc = pc]
Finish(c)   == call' = [call EXCEPT ![c] = Idle]
Begin(c, op, pc, u) ==
    /\ At(c, "idle")
    /\ call' = [call EXCEPT ![c] = [Idle EXCEPT !.op = op, !.pc = pc, !.user = u]]

Target(c)  == call[c].user
Free(u)    == lock[u] = NoCall
Release(c) == lock' = [u \in Users |-> IF lock[u] = c THEN NoCall ELSE lock[u]]

Exists(u)  == user[u].status # "ABSENT"
Set(u, fields) == user' = [user EXCEPT ![u] = fields]

OperationalAdmins == {a \in Admins : user[a].status = "ACTIVE"}

\* The two ways around the check of the last administrator: a lockout by wrong passwords
\* does not make it, and an administrator who becomes ACTIVE while somebody is being
\* restricted is not among the rows chosen to be locked.
Restricting(c) == call[c].pc \in {"locking", "target", "write"}
NoteUndercut ==
    undercut' = \/ undercut
                \/ \E a \in Admins :
                      \/ user[a].status = "ACTIVE" /\ user'[a].lockedUntil = "future"
                      \/ /\ user[a].status # "ACTIVE" /\ user'[a].status = "ACTIVE"
                         /\ \E c \in Calls : Restricting(c)

\* assertUserRecordConsistency, which every administrative operation begins with.
Coherent(u) == user[u].deactivated <=> user[u].status = "DISABLED"

\* A time limit that has passed; the row is usable again once somebody notices.
Recoverable(u) == user[u].status = "BLOCKED" /\ user[u].lockedUntil = "past"

-----------------------------------------------------------------------------
(* Logging in: authenticate, and the route that follows it *)

\* The row is read once; what follows relies on it.
StartLogin(c, u) ==
    /\ \/ user[u].status = "ACTIVE" /\ user[u].credential /\ Begin(c, "login", "verify", u)
       \/ Recoverable(u) /\ Begin(c, "login", "recover", u)
    /\ UNCHANGED << user, lock >>

\* Every authenticated request looks at its user too, and recovers an expired lockout.
StartRequest(c, u) ==
    /\ Recoverable(u)
    /\ Begin(c, "request", "recover", u)
    /\ UNCHANGED << user, lock >>

Recovered(u) == [user[u] EXCEPT !.status = "ACTIVE", !.attempts = 0, !.lockedUntil = "null"]

AfterRecovery(c, row) ==
    IF call[c].op = "login" /\ row.status = "ACTIVE" /\ row.credential
      THEN Goto(c, "verify") ELSE Finish(c)

\* Mutant: what was read before the row was locked is not looked at again.
RecoverUnchecked(c) ==
    LET u == Target(c) IN
    /\ At(c, "recover")
    /\ Free(u)
    /\ Set(u, Recovered(u))
    /\ AfterRecovery(c, Recovered(u))
    /\ UNCHANGED lock

\* Mutant: the recovery forgets to reset the counter.
RecoverKeepingAttempts(c) ==
    LET u == Target(c)
        row == [user[u] EXCEPT !.status = "ACTIVE", !.lockedUntil = "null"] IN
    /\ At(c, "recover")
    /\ Free(u)
    /\ Set(u, IF Recoverable(u) THEN row ELSE user[u])
    /\ AfterRecovery(c, row)
    /\ UNCHANGED lock

\* recoverExpiredTemporaryLockout
Recover(c) ==
    LET u == Target(c)
        row == IF Recoverable(u) THEN Recovered(u) ELSE user[u] IN
    /\ At(c, "recover")
    /\ Free(u)
    /\ Set(u, row)
    /\ AfterRecovery(c, row)
    /\ UNCHANGED lock

\* The hash is verified; a company's user also needs an ACTIVE company.
Verify(c) ==
    /\ At(c, "verify")
    /\ Goto(c, "failed") \/ Goto(c, "success") \/ (Target(c) \notin Admins /\ Finish(c))
    /\ UNCHANGED << user, lock >>

\* registerFailedPasswordAttempt: the row may have changed since it was read.
RegisterFailure(c) ==
    LET u == Target(c)
        attempts == user[u].attempts + 1 IN
    /\ At(c, "failed")
    /\ Free(u)
    /\ IF ~ Exists(u) THEN UNCHANGED user
       ELSE IF attempts >= MaxAttempts
         THEN Set(u, [user[u] EXCEPT !.attempts = attempts, !.status = "BLOCKED",
                                     !.lockedUntil = "future"])
         ELSE Set(u, [user[u] EXCEPT !.attempts = attempts])
    /\ Finish(c)
    /\ UNCHANGED lock

\* registerSuccessfulLogin: likewise.
RegisterSuccess(c) ==
    LET u == Target(c) IN
    /\ At(c, "success")
    /\ Free(u)
    /\ IF Exists(u) THEN Set(u, [user[u] EXCEPT !.attempts = 0, !.lockedUntil = "null"])
                    ELSE UNCHANGED user
    /\ Finish(c)
    /\ UNCHANGED lock

\* The 15 minutes are over.  A call that compares the limit with the time it began is
\* over by then.
LockoutElapses(u) ==
    /\ user[u].lockedUntil = "future"
    /\ \A c \in Calls : Target(c) = u => ~ At(c, "recover")
    /\ Set(u, [user[u] EXCEPT !.lockedUntil = "past"])
    /\ UNCHANGED << lock, call >>

-----------------------------------------------------------------------------
(* Blocking and disabling: the last operational ADMIN is protected *)

\* Mutant: the rows of the active administrators are not locked.
StartRestrictionUnlocked(c, op, u) ==
    /\ Exists(u)
    /\ Begin(c, op, "locking", u)
    /\ UNCHANGED << user, lock >>

\* Mutant: the other administrators are locked first, the target after them.
StartRestrictionOthers(c, op, u) ==
    /\ At(c, "idle")
    /\ Exists(u)
    /\ call' = [call EXCEPT ![c] = [op |-> op, pc |-> "locking", user |-> u,
                                    todo |-> OperationalAdmins \ {u}]]
    /\ UNCHANGED << user, lock >>

\* lockActiveAdminRows selects the rows to lock as of now ...
StartRestriction(c, op, u) ==
    /\ At(c, "idle")
    /\ Exists(u)
    /\ call' = [call EXCEPT ![c] = [op |-> op, pc |-> "locking", user |-> u,
                                    todo |-> OperationalAdmins]]
    /\ UNCHANGED << user, lock >>

\* ... and locks them in the order of their ids, waiting where it must.
NextRow(c) == CHOOSE u \in call[c].todo : \A v \in call[c].todo : u <= v
CanLock(c) == At(c, "locking") /\ call[c].todo # {} /\ Free(NextRow(c))

LockNextRow(c) ==
    /\ CanLock(c)
    /\ lock' = [lock EXCEPT ![NextRow(c)] = c]
    /\ call' = [call EXCEPT ![c].todo = @ \ {NextRow(c)}]
    /\ UNCHANGED user

LockedAll(c) ==
    /\ At(c, "locking")
    /\ call[c].todo = {}
    /\ Goto(c, "target")
    /\ UNCHANGED << user, lock >>

Refused(c) ==
    LET u == Target(c) IN
    \/ ~ Exists(u)
    \/ ~ Coherent(u)
    \/ user[u].status = "DISABLED"
    \/ call[c].op = "block" /\ user[u].status = "BLOCKED"
    \/ u \in OperationalAdmins /\ Cardinality(OperationalAdmins) <= 1

\* Mutant: a refusal leaves its transaction open.
LockTargetHolding(c) ==
    LET u == Target(c) IN
    /\ At(c, "target")
    /\ lock[u] \in {NoCall, c}
    /\ lock' = [lock EXCEPT ![u] = c]
    /\ IF Refused(c) THEN Finish(c) ELSE Goto(c, "write")
    /\ UNCHANGED user

\* The target is locked too, looked at, and the operational administrators counted.
LockTarget(c) ==
    LET u == Target(c) IN
    /\ At(c, "target")
    /\ lock[u] \in {NoCall, c}
    /\ IF Refused(c)
         THEN Release(c) /\ Finish(c)
         ELSE lock' = [lock EXCEPT ![u] = c] /\ Goto(c, "write")
    /\ UNCHANGED user

Restricted(c) ==
    [user[Target(c)] EXCEPT !.status = IF call[c].op = "block" THEN "BLOCKED" ELSE "DISABLED",
                            !.deactivated = call[c].op = "disable",
                            !.lockedUntil = "null", !.attempts = 0]

WriteRestriction(c) ==
    /\ At(c, "write")
    /\ Set(Target(c), Restricted(c))
    /\ Release(c)
    /\ Finish(c)

-----------------------------------------------------------------------------
(* The other operations of administrators *)

\* unblock and enable; both end a lockout and forget the failures before it.
Unblock(u) ==
    /\ Free(u)
    /\ user[u].status = "BLOCKED"
    /\ Coherent(u)
    /\ Set(u, Recovered(u))
    /\ UNCHANGED << lock, call >>

Enable(u) ==
    /\ Free(u)
    /\ user[u].status = "DISABLED"
    /\ ~ user[u].removed
    /\ Coherent(u)
    /\ Set(u, [Recovered(u) EXCEPT !.deactivated = FALSE])
    /\ UNCHANGED << lock, call >>

\* create: the account is ACTIVE before it has a password.
CreateUser(c, u) ==
    /\ user[u] = NoRow
    /\ Set(u, Created)
    /\ Begin(c, "create", "credential", u)
    /\ UNCHANGED lock

StoreCredential(c) ==
    LET u == Target(c) IN
    /\ At(c, "credential")
    /\ Set(u, [user[u] EXCEPT !.credential = Exists(u)])
    /\ Finish(c)
    /\ UNCHANGED lock

\* resetPassword gives a password also to an account whose creation was interrupted.
ResetPassword(u) ==
    /\ Exists(u)
    /\ ~ user[u].removed
    /\ Set(u, [user[u] EXCEPT !.credential = TRUE])
    /\ UNCHANGED << lock, call >>

\* removeCompanyUserAccess: the row is kept where history refers to it.
Remove(u) ==
    /\ u \notin Admins
    /\ Exists(u)
    /\ Free(u)
    /\ ~ user[u].removed
    /\ \/ Set(u, [NoRow EXCEPT !.removed = TRUE])
       \/ Set(u, [NoRow EXCEPT !.status = "DISABLED", !.deactivated = TRUE, !.removed = TRUE])
    /\ UNCHANGED << lock, call >>

\* A request fails or its process dies; its transaction is rolled back.
Abandon(c) ==
    /\ ~ At(c, "idle")
    /\ Release(c)
    /\ Finish(c)
    /\ UNCHANGED user

-----------------------------------------------------------------------------

LoginStep(c) == Recover(c) \/ Verify(c) \/ RegisterFailure(c) \/ RegisterSuccess(c)
RestrictionStep(c) == LockedAll(c) \/ LockTarget(c) \/ WriteRestriction(c)

StartCall(c) ==
    \E u \in Users :
        \/ StartLogin(c, u)
        \/ StartRequest(c, u)
        \/ CreateUser(c, u)
        \/ \E op \in {"block", "disable"} : StartRestriction(c, op, u)

Progress(c) == LoginStep(c) \/ StoreCredential(c) \/ RestrictionStep(c)

Administration(u) == Unblock(u) \/ Enable(u) \/ ResetPassword(u) \/ Remove(u)

\* A SELECT ... FOR UPDATE locks the rows that are free at once, and PostgreSQL hands a
\* row over to the statement that waits for it: no request comes in between.
Next ==
    /\ \/ \E c \in Calls : LockNextRow(c)
       \/ /\ \A c \in Calls : ~ CanLock(c)
          /\ \/ \E c \in Calls : StartCall(c) \/ Progress(c) \/ Abandon(c)
             \/ \E u \in Users : Administration(u) \/ LockoutElapses(u)
    /\ NoteUndercut

Spec == Init /\ [][Next]_vars

(* Fairness: a request goes on, a row lock is granted to those who wait for it, and *)
(* PostgreSQL aborts one of the transactions that wait for each other in a cycle.   *)
WaitsFor(c, d) ==
    /\ c # d
    /\ \/ At(c, "locking") /\ call[c].todo # {} /\ lock[NextRow(c)] = d
       \/ call[c].pc \in {"target", "recover", "failed", "success"} /\ lock[Target(c)] = d
Cycle(D) ==
    /\ D # {}
    /\ \A d \in D : (\E e \in D : WaitsFor(d, e)) /\ (\E e \in D : WaitsFor(e, d))
Deadlocked(c) == \E D \in SUBSET Calls : c \in D /\ Cycle(D)

Fairness ==
    \A c \in Calls :
        /\ SF_vars(LockNextRow(c) /\ NoteUndercut)
        /\ SF_vars(Progress(c) /\ NoteUndercut)
        /\ WF_vars(Deadlocked(c) /\ Abandon(c) /\ NoteUndercut)
FairSpec == Spec /\ Fairness

-----------------------------------------------------------------------------
(* What the accounts promise *)

\* docs/16, 9.1: administrative operations, however they overlap, leave at least one
\* operational ADMIN, unless the check was undercut: no counted administrator can be
\* restricted between the count and the write that relies on it.
AdminRemains == ~ undercut => OperationalAdmins # {}

\* An account in use is below the limit of wrong passwords: whichever way it became
\* ACTIVE again, its failures were forgotten, so that one more does not lock it.
ActiveBelowLimit ==
    \A u \in Users : user[u].status = "ACTIVE" => user[u].attempts < MaxAttempts

\* A login or a request that found an expired lockout reactivates the account only if it
\* still is one: what an administrator decided meanwhile stands.
OnlyLockoutsExpire ==
    [][\A u \in Users :
          user[u].status # "ACTIVE" /\ user'[u].status = "ACTIVE" =>
             \/ user[u].status = "ABSENT"
             \/ Recoverable(u)
             \/ call' = call]_user

\* user.repository.ts:255, "anti-deadlock": only restrictions wait for each other in a cycle,
\* and the order of the rows they lock prevents that, unless an administrator becomes
\* ACTIVE in between, or one of them is about an administrator who was restricted in between.
OrderAvoidsDeadlock ==
    \A D \in SUBSET Calls : Cycle(D) =>
        /\ \A d \in D : Restricting(d)
        /\ \/ undercut
           \/ \E d \in D : At(d, "target") /\ Target(d) \in Admins \ OperationalAdmins

\* Every request ends: operations that wait for each other's rows are told apart.
EveryCallEnds == \A c \in Calls : ~ At(c, "idle") ~> At(c, "idle")
=============================================================================
