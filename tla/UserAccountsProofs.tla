-------------------------- MODULE UserAccountsProofs --------------------------
(***************************************************************************)
(* What holds of UserAccounts for any users, administrators and calls and  *)
(* any limit of wrong passwords.                                           *)
(***************************************************************************)
EXTENDS UserAccounts, FiniteSetTheorems, WellFoundedInduction, TLAPS

-----------------------------------------------------------------------------
(* The inductive invariant *)

\* Until the check is undercut, whoever restricts an account keeps every operational
\* administrator among the rows it has locked or will lock ...
AdminsInReach ==
    \A c \in Calls : Restricting(c) =>
        \A a \in OperationalAdmins : a \in call[c].todo \/ lock[a] = c

\* ... so that the administrator it counted besides its target is still there when it writes.
AnotherIsCounted ==
    \A c \in Calls : At(c, "write") /\ Target(c) \in OperationalAdmins =>
        \E a \in OperationalAdmins : a # Target(c)

WritersHoldTarget == \A c \in Calls : At(c, "write") => lock[Target(c)] = c

AdminInvariant ==
    /\ WritersHoldTarget
    /\ ~ undercut => AdminsInReach /\ AnotherIsCounted /\ OperationalAdmins # {}

-----------------------------------------------------------------------------
(* Types *)

CallOK(row) ==
    /\ row \in CallRow
    /\ row.pc # "idle" => row.user \in Users
    /\ row.pc \in {"locking", "target", "write"} => row.op \in {"block", "disable"}
    /\ row.pc # "locking" => row.todo = {}

\* Only the call of the step changes; a lock is held by a call that restricts.
OnlyCall(c) == call' = [call EXCEPT ![c] = call'[c]] /\ CallOK(call'[c])

LEMMA CallsAreOK ==
    ASSUME TypeOK
    PROVE  call \in [Calls -> CallRow] /\ \A c \in Calls : CallOK(call[c])
BY DEF TypeOK, CallOK

LEMMA OtherCalls ==
    ASSUME TypeOK, NEW c \in Calls, OnlyCall(c)
    PROVE  \A d \in Calls : d # c => call'[d] = call[d]
BY DEF TypeOK, OnlyCall

LEMMA Replacing ==
    ASSUME TypeOK, NEW c \in Calls, NEW row, CallOK(row), call' = [call EXCEPT ![c] = row]
    PROVE  call'[c] = row /\ OnlyCall(c)
BY CallsAreOK DEF OnlyCall

LEMMA Finishing ==
    ASSUME TypeOK, NEW c \in Calls, Finish(c)
    PROVE  call'[c] = Idle /\ OnlyCall(c) /\ ~ Restricting(c)'
<1>1. CallOK(Idle)
  BY DEF CallOK, Idle, CallRow, Ops, Pcs
<1>2. call'[c] = Idle /\ OnlyCall(c)
  BY <1>1, Replacing DEF Finish
<1> QED BY <1>2 DEF Restricting, Idle

LEMMA Beginning ==
    ASSUME TypeOK, NEW c \in Calls, NEW u \in Users, NEW op \in Ops,
           NEW pc \in {"recover", "verify", "credential"}, Begin(c, op, pc, u)
    PROVE  OnlyCall(c) /\ ~ Restricting(c) /\ ~ Restricting(c)'
<1> DEFINE row == [Idle EXCEPT !.op = op, !.pc = pc, !.user = u]
<1>1. CallOK(row) /\ row.pc = pc
  BY DEF CallOK, Idle, CallRow, Ops, Pcs
<1>2. call' = [call EXCEPT ![c] = row] /\ At(c, "idle")
  BY DEF Begin
<1>3. call'[c] = row /\ OnlyCall(c)
  BY <1>1, <1>2, Replacing
<1> HIDE DEF row
<1> QED BY <1>1, <1>2, <1>3 DEF Restricting, At

\* A login goes on, or a restriction that has locked what it must.
LEMMA Going ==
    ASSUME TypeOK, NEW c \in Calls, NEW pc \in Pcs, Goto(c, pc),
           \/ call[c].pc \in {"recover", "verify"} /\ pc \in {"verify", "failed", "success"}
           \/ At(c, "locking") /\ call[c].todo = {} /\ pc = "target"
           \/ At(c, "target") /\ pc = "write"
    PROVE  OnlyCall(c) /\ call'[c] = [call[c] EXCEPT !.pc = pc]
<1> DEFINE row == [call[c] EXCEPT !.pc = pc]
<1>1. call[c] \in CallRow /\ CallOK(call[c])
  BY CallsAreOK DEF CallOK
<1>2. row \in CallRow
  BY <1>1 DEF CallRow
<1>3. row.pc = pc /\ row.user = call[c].user /\ row.op = call[c].op /\ row.todo = call[c].todo
  BY <1>1 DEF CallRow
<1>4. call' = [call EXCEPT ![c] = row]
  BY DEF Goto
<1> HIDE DEF row
<1>5. CallOK(row)
  BY <1>1, <1>2, <1>3 DEF CallOK, At
<1> QED BY <1>4, <1>5, Replacing DEF row

\* The steps of calls that hold no row, and those of restrictions.
Attending(c) ==
    \/ LoginStep(c) \/ StoreCredential(c)
    \/ \E u \in Users : StartLogin(c, u) \/ StartRequest(c, u) \/ CreateUser(c, u)
Restriction(c) ==
    \/ \E u \in Users, op \in {"block", "disable"} : StartRestriction(c, op, u)
    \/ LockNextRow(c) \/ LockedAll(c) \/ LockTarget(c) \/ WriteRestriction(c) \/ Abandon(c)
Administering(u) == Administration(u) \/ LockoutElapses(u)

LEMMA Regrouped ==
    ASSUME Next
    PROVE  /\ NoteUndercut
           /\ \/ \E c \in Calls : Attending(c) \/ Restriction(c)
              \/ \E u \in Users : Administering(u)
BY DEF Next, StartCall, Progress, Attending, Restriction, RestrictionStep, Administering

LEMMA AttendingCall ==
    ASSUME TypeOK, NEW c \in Calls, Attending(c)
    PROVE  OnlyCall(c) /\ ~ Restricting(c) /\ ~ Restricting(c)' /\ UNCHANGED lock
<1>1. CASE \E u \in Users : StartLogin(c, u) \/ StartRequest(c, u) \/ CreateUser(c, u)
  BY <1>1, Beginning DEF StartLogin, StartRequest, CreateUser, Ops
<1>2. ASSUME call[c].pc \in {"recover", "verify", "failed", "success", "credential"}, Finish(c)
      PROVE  OnlyCall(c) /\ ~ Restricting(c) /\ ~ Restricting(c)'
  BY <1>2, Finishing DEF Restricting
<1>3. ASSUME call[c].pc \in {"recover", "verify"},
             NEW pc \in {"verify", "failed", "success"}, Goto(c, pc)
      PROVE  OnlyCall(c) /\ ~ Restricting(c) /\ ~ Restricting(c)'
  <2>1. OnlyCall(c) /\ call'[c] = [call[c] EXCEPT !.pc = pc] /\ call[c] \in CallRow
    BY <1>3, Going, CallsAreOK DEF Pcs
  <2>2. call'[c].pc = pc
    BY <2>1 DEF CallRow
  <2> QED BY <1>3, <2>1, <2>2 DEF Restricting
<1>4. CASE Recover(c)
  BY <1>2, <1>3, <1>4 DEF Recover, AfterRecovery, At
<1>5. CASE Verify(c)
  BY <1>2, <1>3, <1>5 DEF Verify, At
<1>6. CASE RegisterFailure(c) \/ RegisterSuccess(c) \/ StoreCredential(c)
  BY <1>2, <1>6 DEF RegisterFailure, RegisterSuccess, StoreCredential, At
<1> QED BY <1>1, <1>4, <1>5, <1>6 DEF Attending, LoginStep

LEMMA Rows ==
    ASSUME TypeOK, NEW u \in Users
    PROVE  /\ NoRow \in UserRow /\ Created \in UserRow /\ user[u] \in UserRow
           /\ Recovered(u) \in UserRow
           /\ Recovered(u).status = "ACTIVE" /\ Recovered(u).attempts = 0
           /\ Recovered(u).lockedUntil = "null"
           /\ Created.status = "ACTIVE" /\ Created.attempts = 0
           /\ Created.lockedUntil = "null" /\ NoRow.status = "ABSENT"
<1>1. /\ NoRow \in UserRow /\ Created \in UserRow /\ user[u] \in UserRow
  BY DEF TypeOK, NoRow, Created, UserRow, Statuses, LockedUntil
<1>2. /\ Recovered(u) \in UserRow /\ Recovered(u).status = "ACTIVE"
      /\ Recovered(u).attempts = 0 /\ Recovered(u).lockedUntil = "null"
  BY <1>1 DEF Recovered, UserRow, Statuses, LockedUntil
<1> QED BY <1>1, <1>2 DEF Created, NoRow

\* What a step may make of one row.
RowStep(u) ==
    LET old == user[u]
        new == user'[u] IN
    /\ new \in UserRow
    /\ \/ new = old
       \/ new = Recovered(u) /\ Recoverable(u)
       \/ new = Created /\ old.status = "ABSENT"
       \/ new.status # "ACTIVE" /\ u \notin Admins
       \/ new.status = "BLOCKED" /\ new.lockedUntil = "future"
       \/ new.status # "ACTIVE" /\ old.status # "ACTIVE"
       \/ /\ new.status = old.status
          /\ new.attempts \in {0, old.attempts} \/ new.attempts < MaxAttempts
       \/ new.status = "ACTIVE" /\ new.attempts = 0 /\ UNCHANGED call
       \/ \E c \in Calls : WriteRestriction(c) /\ Target(c) = u /\ new.status # "ACTIVE"

LEMMA OneRow ==
    ASSUME TypeOK, NEW u \in Users, NEW row \in UserRow, Set(u, row)
    PROVE  /\ user'[u] = row
           /\ \A v \in Users : v # u => user'[v] = user[v] /\ user'[v] \in UserRow
           /\ user' \in [Users -> UserRow]
BY DEF TypeOK, Set

\* It is enough to look at the row a step writes.
LEMMA OneRowStep ==
    ASSUME TypeOK, NEW u \in Users, NEW row \in UserRow, Set(u, row), RowStep(u)
    PROVE  user' \in [Users -> UserRow] /\ \A v \in Users : RowStep(v)
BY OneRow DEF RowStep

RowsStep == user' \in [Users -> UserRow] /\ \A v \in Users : RowStep(v)

LEMMA NoRowStep ==
    ASSUME TypeOK, UNCHANGED user
    PROVE  RowsStep
BY Rows DEF RowsStep, RowStep, TypeOK

\* Recovering, unblocking and enabling make a row ACTIVE with no failures.
LEMMA AttendingRows ==
    ASSUME TypeOK, NEW c \in Calls, Attending(c)
    PROVE  RowsStep
<1> DEFINE u == Target(c)
<1>0. At(c, "recover") \/ At(c, "failed") \/ At(c, "success") \/ At(c, "credential") => u \in Users
  BY DEF TypeOK, At, Target
<1>1. CASE \E v \in Users : StartLogin(c, v) \/ StartRequest(c, v)
  BY <1>1, NoRowStep DEF StartLogin, StartRequest
<1>2. ASSUME NEW v \in Users, CreateUser(c, v)
      PROVE  RowsStep
  <2>1. Set(v, Created) /\ user[v].status = "ABSENT"
    BY <1>2, Rows DEF CreateUser
  <2>2. user'[v] = Created /\ Created \in UserRow
    BY <2>1, Rows, OneRow
  <2>3. RowStep(v)
    BY <2>1, <2>2 DEF RowStep
  <2> QED BY <2>1, <2>2, <2>3, OneRowStep DEF RowsStep
<1>3. CASE Recover(c)
  <2>1. u \in Users
    BY <1>0, <1>3 DEF Recover
  <2>2. CASE Recoverable(u)
    <3>1. Set(u, Recovered(u))
      BY <1>3, <2>2 DEF Recover
    <3>2. user'[u] = Recovered(u) /\ Recovered(u) \in UserRow
      BY <2>1, <3>1, Rows, OneRow
    <3>3. RowStep(u)
      BY <2>2, <3>2 DEF RowStep
    <3> QED BY <2>1, <3>1, <3>2, <3>3, OneRowStep DEF RowsStep
  <2>3. CASE ~ Recoverable(u)
    <3>1. Set(u, user[u])
      BY <1>3, <2>3 DEF Recover
    <3>2. UNCHANGED user
      BY <3>1 DEF Set, TypeOK
    <3> QED BY <3>2, NoRowStep
  <2> QED BY <2>2, <2>3
<1>4. CASE RegisterFailure(c)
  <2>1. u \in Users
    BY <1>0, <1>4 DEF RegisterFailure
  <2> DEFINE attempts == user[u].attempts + 1
             locked == [user[u] EXCEPT !.attempts = attempts, !.status = "BLOCKED",
                                       !.lockedUntil = "future"]
             counted == [user[u] EXCEPT !.attempts = attempts]
  <2>2. user[u] \in UserRow /\ attempts \in Nat /\ MaxAttempts \in Nat
    <3>1. user[u] \in UserRow
      BY <2>1, Rows
    <3>2. user[u].attempts \in Nat
      BY <3>1 DEF UserRow
    <3> QED BY <3>1, <3>2, AccountsAssumption
  <2>3. CASE Set(u, locked)
    <3>1. locked \in UserRow /\ locked.status = "BLOCKED" /\ locked.lockedUntil = "future"
      BY <2>2 DEF UserRow, Statuses, LockedUntil
    <3> HIDE DEF locked
    <3>2. user'[u] = locked
      BY <2>1, <2>3, <3>1, OneRow
    <3>3. RowStep(u)
      BY <3>1, <3>2 DEF RowStep
    <3> QED BY <2>1, <2>3, <3>1, <3>3, OneRowStep DEF RowsStep
  <2>4. CASE Set(u, counted) /\ ~ attempts >= MaxAttempts
    <3>1. counted \in UserRow /\ counted.status = user[u].status /\ counted.attempts = attempts
      BY <2>2 DEF UserRow
    <3>2. attempts < MaxAttempts
      BY <2>2, <2>4
    <3> HIDE DEF counted, attempts
    <3>3. user'[u] = counted
      BY <2>1, <2>4, <3>1, OneRow
    <3>4. RowStep(u)
      BY <3>1, <3>2, <3>3 DEF RowStep
    <3> QED BY <2>1, <2>4, <3>1, <3>4, OneRowStep DEF RowsStep
  <2>5. CASE UNCHANGED user
    BY <2>5, NoRowStep
  <2> QED BY <1>4, <2>3, <2>4, <2>5 DEF RegisterFailure
<1>5. CASE RegisterSuccess(c)
  <2>1. u \in Users
    BY <1>0, <1>5 DEF RegisterSuccess
  <2> DEFINE row == [user[u] EXCEPT !.attempts = 0, !.lockedUntil = "null"]
  <2>2. CASE Set(u, row)
    <3>1. row \in UserRow /\ row.status = user[u].status /\ row.attempts = 0
      BY <2>1, Rows DEF UserRow, LockedUntil
    <3> HIDE DEF row
    <3>2. user'[u] = row
      BY <2>1, <2>2, <3>1, OneRow
    <3>3. RowStep(u)
      BY <3>1, <3>2 DEF RowStep
    <3> QED BY <2>1, <2>2, <3>1, <3>3, OneRowStep DEF RowsStep
  <2>3. CASE UNCHANGED user
    BY <2>3, NoRowStep
  <2> QED BY <1>5, <2>2, <2>3 DEF RegisterSuccess
<1>6. CASE Verify(c)
  BY <1>6, NoRowStep DEF Verify
<1>7. CASE StoreCredential(c)
  <2>1. u \in Users
    BY <1>0, <1>7 DEF StoreCredential
  <2> DEFINE row == [user[u] EXCEPT !.credential = Exists(u)]
  <2>2. row \in UserRow /\ row.status = user[u].status /\ row.attempts = user[u].attempts
    BY <2>1, Rows DEF UserRow, Exists
  <2>3. Set(u, row)
    BY <1>7 DEF StoreCredential
  <2> HIDE DEF row
  <2>4. user'[u] = row
    BY <2>1, <2>2, <2>3, OneRow
  <2>5. RowStep(u)
    BY <2>2, <2>4 DEF RowStep
  <2> QED BY <2>1, <2>2, <2>3, <2>5, OneRowStep DEF RowsStep
<1> QED BY <1>1, <1>2, <1>3, <1>4, <1>5, <1>6, <1>7 DEF Attending, LoginStep

LEMMA RestrictionRows ==
    ASSUME TypeOK, NEW c \in Calls, Restriction(c)
    PROVE  RowsStep
<1>1. CASE UNCHANGED user
  BY <1>1, NoRowStep
<1>2. CASE WriteRestriction(c)
  <2> DEFINE u == Target(c)
             row == Restricted(c)
  <2>1. u \in Users /\ call[c].op \in {"block", "disable"}
    BY <1>2 DEF WriteRestriction, At, Target, TypeOK
  <2>2. row \in UserRow /\ row.status # "ACTIVE"
    <3> DEFINE status == IF call[c].op = "block" THEN "BLOCKED" ELSE "DISABLED"
               disabled == call[c].op = "disable"
    <3>1. status \in {"BLOCKED", "DISABLED"} /\ disabled \in BOOLEAN
      OBVIOUS
    <3>2. user[u] \in UserRow
      BY <2>1, Rows
    <3>3. row = [user[u] EXCEPT !.status = status, !.deactivated = disabled,
                                !.lockedUntil = "null", !.attempts = 0]
      BY DEF Restricted
    <3> HIDE DEF row, status, disabled
    <3> QED BY <3>1, <3>2, <3>3 DEF UserRow, Statuses, LockedUntil
  <2>3. Set(u, row)
    BY <1>2 DEF WriteRestriction
  <2>4. user'[u] = row
    BY <2>1, <2>2, <2>3, OneRow
  <2>5. RowStep(u)
    BY <1>2, <2>2, <2>4 DEF RowStep
  <2> QED BY <2>1, <2>2, <2>3, <2>5, OneRowStep DEF RowsStep
<1> QED BY <1>1, <1>2 DEF Restriction, StartRestriction, LockNextRow, LockedAll, LockTarget, Abandon

LEMMA AdministeringRows ==
    ASSUME TypeOK, NEW u \in Users, Administering(u)
    PROVE  RowsStep
<1>0. user[u] \in UserRow
  BY Rows
<1>1. ASSUME NEW row \in UserRow, Set(u, row),
             \/ row.status # "ACTIVE" /\ u \notin Admins
             \/ row.status = user[u].status /\ row.attempts = user[u].attempts
             \/ row.status = "ACTIVE" /\ row.attempts = 0 /\ UNCHANGED call
      PROVE  RowsStep
  <2>1. user'[u] = row
    BY <1>1, OneRow
  <2>2. RowStep(u)
    BY <1>1, <2>1 DEF RowStep
  <2> QED BY <1>1, <2>2, OneRowStep DEF RowsStep
<1>2. CASE Unblock(u)
  BY <1>1, <1>2, Rows DEF Unblock
<1>3. CASE Enable(u)
  <2> DEFINE row == [Recovered(u) EXCEPT !.deactivated = FALSE]
  <2>1. row \in UserRow /\ row.status = "ACTIVE" /\ row.attempts = 0
    BY Rows DEF UserRow
  <2>2. Set(u, row) /\ UNCHANGED call
    BY <1>3 DEF Enable
  <2> HIDE DEF row
  <2> QED BY <1>1, <2>1, <2>2
<1>4. CASE ResetPassword(u)
  <2> DEFINE row == [user[u] EXCEPT !.credential = TRUE]
  <2>1. row \in UserRow /\ row.status = user[u].status /\ row.attempts = user[u].attempts
    BY <1>0 DEF UserRow
  <2>2. Set(u, row)
    BY <1>4 DEF ResetPassword
  <2> HIDE DEF row
  <2> QED BY <1>1, <2>1, <2>2
<1>5. CASE LockoutElapses(u)
  <2> DEFINE row == [user[u] EXCEPT !.lockedUntil = "past"]
  <2>1. row \in UserRow /\ row.status = user[u].status /\ row.attempts = user[u].attempts
    BY <1>0 DEF UserRow, LockedUntil
  <2>2. Set(u, row)
    BY <1>5 DEF LockoutElapses
  <2> HIDE DEF row
  <2> QED BY <1>1, <2>1, <2>2
<1>6. CASE Remove(u)
  <2> DEFINE gone == [NoRow EXCEPT !.removed = TRUE]
             kept == [NoRow EXCEPT !.status = "DISABLED", !.deactivated = TRUE, !.removed = TRUE]
  <2>1. /\ gone \in UserRow /\ gone.status # "ACTIVE"
        /\ kept \in UserRow /\ kept.status # "ACTIVE"
    BY DEF NoRow, UserRow, Statuses, LockedUntil
  <2>2. u \notin Admins /\ (Set(u, gone) \/ Set(u, kept))
    BY <1>6 DEF Remove
  <2> HIDE DEF gone, kept
  <2> QED BY <1>1, <2>1, <2>2
<1> QED BY <1>2, <1>3, <1>4, <1>5, <1>6 DEF Administering, Administration

LEMMA StepOfRows ==
    ASSUME TypeOK, Next
    PROVE  RowsStep
BY Regrouped, AttendingRows, RestrictionRows, AdministeringRows

-----------------------------------------------------------------------------
(* Locks and restrictions *)

\* What a step of c may make of the lock of a row.
LockStep(c, u) ==
    \/ lock'[u] = lock[u] /\ (lock[u] = c => Restricting(c)')
    \/ lock'[u] = c /\ Free(u) /\ Restricting(c)'
    \/ lock'[u] = NoCall /\ lock[u] = c /\ ~ Restricting(c)'

\* What a restriction has yet to lock shrinks by what it locks.
ReachStep(c) ==
    \/ call'[c].todo = OperationalAdmins
    \/ Restricting(c) /\ \A a \in Users : a \in call[c].todo => a \in call'[c].todo \/ lock'[a] = c

WriteStep(c) ==
    /\ At(c, "target") /\ ~ Refused(c)
    /\ call'[c].user = call[c].user
    /\ lock'[Target(c)] = c

RestrictionStepOK(c) ==
    /\ OnlyCall(c)
    /\ lock' \in [Users -> Calls \cup {NoCall}]
    /\ \A u \in Users : LockStep(c, u)
    /\ Restricting(c)' => UNCHANGED user /\ ReachStep(c)
    /\ At(c, "write")' => WriteStep(c)

LEMMA Ending ==
    ASSUME TypeOK, NEW c \in Calls, Release(c), Finish(c)
    PROVE  RestrictionStepOK(c)
<1>1. OnlyCall(c) /\ ~ Restricting(c)' /\ ~ At(c, "write")'
  BY Finishing DEF Restricting, At
<1>2. lock' \in [Users -> Calls \cup {NoCall}] /\ \A u \in Users : LockStep(c, u)
  BY <1>1 DEF TypeOK, Release, LockStep
<1> QED BY <1>1, <1>2 DEF RestrictionStepOK

LEMMA RestrictionCall ==
    ASSUME TypeOK, NEW c \in Calls, Restriction(c)
    PROVE  RestrictionStepOK(c)
<1>0. CallOK(call[c]) /\ call[c] \in CallRow /\ lock \in [Users -> Calls \cup {NoCall}]
  BY CallsAreOK DEF CallOK, TypeOK
<1>1. ASSUME NEW u \in Users, NEW op \in {"block", "disable"}, StartRestriction(c, op, u)
      PROVE  RestrictionStepOK(c)
  <2> DEFINE row == [op |-> op, pc |-> "locking", user |-> u, todo |-> OperationalAdmins]
  <2>1. OperationalAdmins \subseteq Users
    BY AccountsAssumption DEF OperationalAdmins
  <2>2. CallOK(row) /\ row.pc = "locking" /\ row.todo = OperationalAdmins
    BY <2>1 DEF CallOK, CallRow, Ops, Pcs
  <2>3. call' = [call EXCEPT ![c] = row] /\ UNCHANGED << user, lock >>
    BY <1>1 DEF StartRestriction
  <2> HIDE DEF row
  <2>4. call'[c] = row /\ OnlyCall(c)
    BY <2>2, <2>3, Replacing
  <2> QED BY <1>0, <2>2, <2>3, <2>4
          DEF RestrictionStepOK, LockStep, ReachStep, Restricting, At
<1>2. CASE LockNextRow(c)
  <2> DEFINE n == NextRow(c)
             row == [call[c] EXCEPT !.todo = @ \ {n}]
  <2>1. At(c, "locking") /\ Free(n) /\ UNCHANGED user
    BY <1>2 DEF LockNextRow, CanLock
  <2>2. lock' = [lock EXCEPT ![n] = c] /\ call' = [call EXCEPT ![c] = row]
    BY <1>2 DEF LockNextRow
  <2> HIDE DEF n
  <2>3. row \in CallRow
    BY <1>0 DEF CallRow
  <2>4. /\ row.pc = "locking" /\ row.user = call[c].user /\ row.op = call[c].op
        /\ row.todo = call[c].todo \ {n}
    BY <1>0, <2>1 DEF CallRow, At
  <2> HIDE DEF row
  <2>5. CallOK(row)
    BY <1>0, <2>1, <2>3, <2>4 DEF CallOK, At
  <2>6. call'[c] = row /\ OnlyCall(c)
    BY <2>2, <2>5, Replacing
  <2>7. Restricting(c) /\ Restricting(c)' /\ ~ At(c, "write")'
    BY <2>1, <2>4, <2>6 DEF Restricting, At
  <2>8. \A u \in Users : lock'[u] = IF u = n THEN c ELSE lock[u]
    BY <1>0, <2>2
  <2>9. lock' \in [Users -> Calls \cup {NoCall}]
    BY <1>0, <2>2
  <2>10. \A u \in Users : LockStep(c, u)
    BY <2>1, <2>7, <2>8 DEF LockStep
  <2>11. ReachStep(c)
    BY <2>4, <2>6, <2>7, <2>8 DEF ReachStep
  <2> QED BY <2>1, <2>6, <2>7, <2>9, <2>10, <2>11 DEF RestrictionStepOK
<1>3. CASE LockedAll(c)
  <2>1. At(c, "locking") /\ call[c].todo = {} /\ Goto(c, "target") /\ UNCHANGED << user, lock >>
    BY <1>3 DEF LockedAll
  <2>2. OnlyCall(c) /\ call'[c] = [call[c] EXCEPT !.pc = "target"]
    BY <2>1, Going DEF Pcs
  <2>3. call'[c].pc = "target" /\ call'[c].todo = {}
    BY <1>0, <2>1, <2>2 DEF CallRow
  <2> QED BY <1>0, <2>1, <2>2, <2>3
          DEF RestrictionStepOK, LockStep, ReachStep, Restricting, At
<1>4. CASE LockTarget(c) /\ Refused(c)
  BY <1>4, Ending DEF LockTarget
<1>5. CASE LockTarget(c) /\ ~ Refused(c)
  <2> DEFINE u == Target(c)
  <2>1. /\ At(c, "target") /\ lock[u] \in {NoCall, c} /\ UNCHANGED user
        /\ lock' = [lock EXCEPT ![u] = c] /\ Goto(c, "write")
    BY <1>5 DEF LockTarget
  <2>2. OnlyCall(c) /\ call'[c] = [call[c] EXCEPT !.pc = "write"]
    BY <2>1, Going DEF Pcs
  <2>3. call'[c].pc = "write" /\ call'[c].todo = call[c].todo /\ call'[c].user = call[c].user
    BY <1>0, <2>1, <2>2 DEF CallRow
  <2>4. u \in Users
    BY <2>1 DEF TypeOK, At, Target
  <2>5. lock' \in [Users -> Calls \cup {NoCall}] /\ \A v \in Users : LockStep(c, v)
    BY <1>0, <2>1, <2>3, <2>4 DEF LockStep, Free, Restricting
  <2>6. ReachStep(c)
    BY <2>1, <2>3 DEF ReachStep, Restricting, At
  <2>7. WriteStep(c)
    BY <1>0, <1>5, <2>1, <2>3, <2>4 DEF WriteStep
  <2> QED BY <2>1, <2>2, <2>5, <2>6, <2>7 DEF RestrictionStepOK
<1>6. CASE WriteRestriction(c) \/ Abandon(c)
  BY <1>6, Ending DEF WriteRestriction, Abandon
<1> QED BY <1>1, <1>2, <1>3, <1>4, <1>5, <1>6 DEF Restriction

-----------------------------------------------------------------------------
(* Type correctness *)

CallTypes == call \in [Calls -> CallRow] /\ \A c \in Calls : CallOK(call[c])
LockTypes ==
    /\ lock \in [Users -> Calls \cup {NoCall}]
    /\ \A u \in Users : lock[u] # NoCall => Restricting(lock[u])

LEMMA TypeParts ==
    TypeOK <=> user \in [Users -> UserRow] /\ LockTypes /\ CallTypes /\ undercut \in BOOLEAN
BY DEF TypeOK, CallTypes, LockTypes, CallOK, Restricting

LEMMA OnlyCallTypes ==
    ASSUME TypeOK, NEW c \in Calls, OnlyCall(c)
    PROVE  CallTypes'
BY CallsAreOK DEF OnlyCall, CallOK, CallTypes

LEMMA InitTypes == Init => TypeOK
<1> SUFFICES ASSUME Init
             PROVE  TypeOK
  OBVIOUS
<1>1. NoRow \in UserRow /\ [Created EXCEPT !.credential = TRUE] \in UserRow
  BY DEF NoRow, Created, UserRow, Statuses, LockedUntil
<1>2. user \in [Users -> UserRow]
  BY <1>1 DEF Init
<1>3. CallOK(Idle) /\ Idle \in CallRow
  BY DEF CallOK, Idle, CallRow, Ops, Pcs
<1>4. CallTypes
  BY <1>3 DEF Init, CallTypes
<1>5. LockTypes /\ undercut \in BOOLEAN
  BY DEF Init, LockTypes
<1> QED BY <1>2, <1>4, <1>5, TypeParts

LEMMA TypesPreserved == TypeOK /\ [Next]_vars => TypeOK'
<1> SUFFICES ASSUME TypeOK, [Next]_vars
             PROVE  TypeOK'
  OBVIOUS
<1>1. CASE UNCHANGED vars
  BY <1>1 DEF TypeOK, vars
<1>2. CASE Next
  <2>0. LockTypes /\ CallTypes
    BY TypeParts
  <2>1. user' \in [Users -> UserRow]
    BY <1>2, StepOfRows DEF RowsStep
  <2>2. undercut' \in BOOLEAN
    BY <1>2, Regrouped DEF NoteUndercut
  <2>3. LockTypes' /\ CallTypes'
    <3>1. ASSUME NEW c \in Calls, Attending(c)
          PROVE  LockTypes' /\ CallTypes'
      <4>1. OnlyCall(c) /\ ~ Restricting(c) /\ UNCHANGED lock
        BY <3>1, AttendingCall
      <4>2. \A d \in Calls : d # c => call'[d] = call[d]
        BY <4>1, OtherCalls
      <4>3. LockTypes'
        BY <2>0, <4>1, <4>2 DEF LockTypes, Restricting
      <4> QED BY <4>1, <4>3, OnlyCallTypes
    <3>2. ASSUME NEW c \in Calls, Restriction(c)
          PROVE  LockTypes' /\ CallTypes'
      <4>1. RestrictionStepOK(c)
        BY <3>2, RestrictionCall
      <4>2. \A d \in Calls : d # c => call'[d] = call[d]
        BY <4>1, OtherCalls DEF RestrictionStepOK
      <4>3. LockTypes'
        BY <2>0, <4>1, <4>2 DEF LockTypes, Restricting, RestrictionStepOK, LockStep
      <4> QED BY <4>1, <4>3, OnlyCallTypes DEF RestrictionStepOK
    <3>3. ASSUME NEW u \in Users, Administering(u)
          PROVE  LockTypes' /\ CallTypes'
      <4>1. UNCHANGED << lock, call >>
        BY <3>3 DEF Administering, Administration, Unblock, Enable, ResetPassword, Remove,
                    LockoutElapses
      <4> QED BY <2>0, <4>1 DEF LockTypes, CallTypes, Restricting
    <3> QED BY <1>2, <3>1, <3>2, <3>3, Regrouped
  <2> QED BY <2>1, <2>2, <2>3 DEF TypeOK, CallTypes, LockTypes, CallOK, Restricting
<1> QED BY <1>1, <1>2

-----------------------------------------------------------------------------
(* The last administrator *)

\* Unless the check is undercut, only a restriction ends an administrator's service, and
\* nobody enters it while somebody restricts.
LEMMA AdminSteps ==
    ASSUME TypeOK, Next, ~ undercut', NEW a \in Admins
    PROVE  /\ ~ undercut
           /\ a \in OperationalAdmins /\ a \notin OperationalAdmins' =>
                 \E c \in Calls : WriteRestriction(c) /\ Target(c) = a
           /\ a \notin OperationalAdmins /\ a \in OperationalAdmins' =>
                 \A c \in Calls : ~ Restricting(c)
<1>1. a \in Users /\ RowStep(a)
  BY StepOfRows, AccountsAssumption DEF RowsStep
<1>2. /\ ~ undercut
      /\ ~ (user[a].status = "ACTIVE" /\ user'[a].lockedUntil = "future")
      /\ user[a].status # "ACTIVE" /\ user'[a].status = "ACTIVE" => \A c \in Calls : ~ Restricting(c)
  <2>1. NoteUndercut
    BY Regrouped
  <2> QED BY <2>1 DEF NoteUndercut
<1>3. user[a].status = "ACTIVE" /\ user'[a].status # "ACTIVE" =>
         \E c \in Calls : WriteRestriction(c) /\ Target(c) = a
  BY <1>1, <1>2, Rows DEF RowStep
<1> QED BY <1>2, <1>3 DEF OperationalAdmins

\* The writer changes no other row.
LEMMA OneRestricted ==
    ASSUME TypeOK, NEW c \in Calls, WriteRestriction(c), NEW u \in Users, u # Target(c)
    PROVE  user'[u] = user[u]
BY DEF WriteRestriction, Set, TypeOK

\* More than one is counted: there is another.
LEMMA Another ==
    ASSUME NEW S, IsFiniteSet(S), Cardinality(S) > 1, NEW x \in S
    PROVE  \E y \in S : y # x
<1> SUFFICES ASSUME \A y \in S : y = x
             PROVE  FALSE
  OBVIOUS
<1>1. S = {x}
  OBVIOUS
<1> QED BY <1>1, FS_Singleton

LEMMA WritersHold ==
    ASSUME TypeOK, WritersHoldTarget, Next
    PROVE  WritersHoldTarget'
<1> SUFFICES ASSUME NEW d \in Calls, At(d, "write")'
             PROVE  lock'[Target(d)'] = d
  BY DEF WritersHoldTarget
<1>0. At(d, "write") => Target(d) \in Users /\ lock[Target(d)] = d
  BY DEF TypeOK, At, Target, WritersHoldTarget
<1>1. ASSUME NEW c \in Calls, Attending(c)
      PROVE  lock'[Target(d)'] = d
  <2>1. OnlyCall(c) /\ ~ Restricting(c)' /\ UNCHANGED lock
    BY <1>1, AttendingCall
  <2>2. d # c
    BY <2>1 DEF Restricting, At
  <2>3. call'[d] = call[d]
    BY <2>1, <2>2, OtherCalls
  <2> QED BY <1>0, <2>1, <2>3 DEF At, Target
<1>2. ASSUME NEW c \in Calls, Restriction(c)
      PROVE  lock'[Target(d)'] = d
  <2>1. RestrictionStepOK(c)
    BY <1>2, RestrictionCall
  <2>2. CASE d = c
    BY <2>1, <2>2 DEF RestrictionStepOK, WriteStep, Target
  <2>3. CASE d # c
    <3>1. call'[d] = call[d]
      BY <2>1, <2>3, OtherCalls DEF RestrictionStepOK
    <3>2. At(d, "write") /\ Target(d)' = Target(d)
      BY <3>1 DEF At, Target
    <3>3. LockStep(c, Target(d))
      BY <1>0, <2>1, <3>2 DEF RestrictionStepOK
    <3>4. d # NoCall
      BY AccountsAssumption
    <3> QED BY <1>0, <2>3, <3>2, <3>3, <3>4 DEF LockStep, Free
  <2> QED BY <2>2, <2>3
<1>3. ASSUME NEW u \in Users, Administering(u)
      PROVE  lock'[Target(d)'] = d
  <2>1. UNCHANGED << lock, call >>
    BY <1>3 DEF Administering, Administration, Unblock, Enable, ResetPassword, Remove,
                LockoutElapses
  <2> QED BY <1>0, <2>1 DEF At, Target
<1> QED BY <1>1, <1>2, <1>3, Regrouped

\* A call that was restricting before the step keeps what it reached for, or locked it.
StillInReach(d) ==
    \A a \in Users : a \in call[d].todo \/ lock[a] = d => a \in call'[d].todo \/ lock'[a] = d

LEMMA ReachKept ==
    ASSUME TypeOK, Next, NEW d \in Calls, Restricting(d)'
    PROVE  \/ Restricting(d) /\ StillInReach(d)
           \/ call'[d].todo = OperationalAdmins /\ UNCHANGED user
<1>1. ASSUME NEW c \in Calls, Attending(c)
      PROVE  Restricting(d) /\ StillInReach(d)
  <2>1. OnlyCall(c) /\ ~ Restricting(c)' /\ UNCHANGED lock
    BY <1>1, AttendingCall
  <2>2. d # c
    BY <2>1
  <2>3. call'[d] = call[d]
    BY <2>1, <2>2, OtherCalls
  <2> QED BY <2>1, <2>3 DEF Restricting, StillInReach
<1>2. ASSUME NEW c \in Calls, Restriction(c)
      PROVE  \/ Restricting(d) /\ StillInReach(d)
             \/ call'[d].todo = OperationalAdmins /\ UNCHANGED user
  <2>1. RestrictionStepOK(c)
    BY <1>2, RestrictionCall
  <2>2. CASE d = c
    <3>1. UNCHANGED user /\ ReachStep(c)
      BY <2>1, <2>2 DEF RestrictionStepOK
    <3>2. \A a \in Users : lock[a] = d => lock'[a] = d
      BY <2>1, <2>2, AccountsAssumption DEF RestrictionStepOK, LockStep, Free
    <3> QED BY <2>2, <3>1, <3>2 DEF ReachStep, StillInReach
  <2>3. CASE d # c
    <3>1. call'[d] = call[d]
      BY <2>1, <2>3, OtherCalls DEF RestrictionStepOK
    <3>2. \A a \in Users : lock[a] = d => lock'[a] = d
      BY <2>1, <2>3, AccountsAssumption DEF RestrictionStepOK, LockStep, Free
    <3> QED BY <3>1, <3>2 DEF Restricting, StillInReach
  <2> QED BY <2>2, <2>3
<1>3. ASSUME NEW u \in Users, Administering(u)
      PROVE  Restricting(d) /\ StillInReach(d)
  <2>1. UNCHANGED << lock, call >>
    BY <1>3 DEF Administering, Administration, Unblock, Enable, ResetPassword, Remove,
                LockoutElapses
  <2> QED BY <2>1 DEF Restricting, StillInReach
<1> QED BY <1>1, <1>2, <1>3, Regrouped

LEMMA ReachPreserved ==
    ASSUME TypeOK, AdminInvariant, Next, ~ undercut'
    PROVE  AdminsInReach'
<1> SUFFICES ASSUME NEW d \in Calls, Restricting(d)', NEW a \in Admins, a \in OperationalAdmins'
             PROVE  a \in call'[d].todo \/ lock'[a] = d
  BY DEF AdminsInReach, OperationalAdmins
<1>1. a \in Users
  BY AccountsAssumption
<1>2. ~ undercut /\ (a \notin OperationalAdmins => \A c \in Calls : ~ Restricting(c))
  BY AdminSteps
<1>3. CASE Restricting(d) /\ StillInReach(d)
  <2>1. a \in OperationalAdmins
    BY <1>2, <1>3
  <2>2. a \in call[d].todo \/ lock[a] = d
    BY <1>2, <1>3, <2>1 DEF AdminInvariant, AdminsInReach
  <2> QED BY <1>1, <1>3, <2>2 DEF StillInReach
<1>4. CASE call'[d].todo = OperationalAdmins /\ UNCHANGED user
  BY <1>4 DEF OperationalAdmins
<1> QED BY <1>3, <1>4, ReachKept

\* An operational administrator that a call counts on is not the target of another's write.
LEMMA CountedStays ==
    ASSUME TypeOK, AdminInvariant, Next, ~ undercut',
           NEW d \in Calls, At(d, "write"), At(d, "write")',
           NEW b \in OperationalAdmins
    PROVE  b \in OperationalAdmins'
<1>1. b \in Admins /\ b \in Users
  BY AccountsAssumption DEF OperationalAdmins
<1>2. ~ undercut
  BY <1>1, AdminSteps
<1>3. call[d].todo = {} /\ Restricting(d)
  BY DEF TypeOK, At, Restricting
<1>4. lock[b] = d
  BY <1>2, <1>3 DEF AdminInvariant, AdminsInReach
<1> SUFFICES ASSUME NEW c \in Calls, WriteRestriction(c), Target(c) = b
             PROVE  FALSE
  BY <1>1, AdminSteps
<1>5. At(c, "write") /\ lock[Target(c)] = c
  BY DEF WriteRestriction, AdminInvariant, WritersHoldTarget
<1>6. c = d
  BY <1>4, <1>5
<1>7. ~ Restricting(c)'
  BY Finishing DEF WriteRestriction
<1> QED BY <1>6, <1>7 DEF At, Restricting

\* What a call at its write stems from.
LEMMA BeforeWrite ==
    ASSUME TypeOK, Next, NEW d \in Calls, At(d, "write")'
    PROVE  \/ At(d, "write") /\ Target(d)' = Target(d)
           \/ WriteStep(d) /\ UNCHANGED user
<1>1. ASSUME NEW c \in Calls, Attending(c)
      PROVE  At(d, "write") /\ Target(d)' = Target(d)
  <2>1. OnlyCall(c) /\ ~ Restricting(c)'
    BY <1>1, AttendingCall
  <2>2. d # c
    BY <2>1 DEF Restricting, At
  <2>3. call'[d] = call[d]
    BY <2>1, <2>2, OtherCalls
  <2> QED BY <2>3 DEF At, Target
<1>2. ASSUME NEW c \in Calls, Restriction(c)
      PROVE  \/ At(d, "write") /\ Target(d)' = Target(d)
             \/ WriteStep(d) /\ UNCHANGED user
  <2>1. RestrictionStepOK(c)
    BY <1>2, RestrictionCall
  <2>2. CASE d = c
    BY <2>1, <2>2 DEF RestrictionStepOK, Restricting, At
  <2>3. CASE d # c
    <3>1. call'[d] = call[d]
      BY <2>1, <2>3, OtherCalls DEF RestrictionStepOK
    <3> QED BY <3>1 DEF At, Target
  <2> QED BY <2>2, <2>3
<1>3. ASSUME NEW u \in Users, Administering(u)
      PROVE  At(d, "write") /\ Target(d)' = Target(d)
  <2>1. UNCHANGED << lock, call >>
    BY <1>3 DEF Administering, Administration, Unblock, Enable, ResetPassword, Remove,
                LockoutElapses
  <2> QED BY <2>1 DEF At, Target
<1> QED BY <1>1, <1>2, <1>3, Regrouped

LEMMA CountPreserved ==
    ASSUME TypeOK, AdminInvariant, Next, ~ undercut'
    PROVE  AnotherIsCounted'
<1> SUFFICES ASSUME NEW d \in Calls, At(d, "write")', Target(d)' \in OperationalAdmins'
             PROVE  \E b \in OperationalAdmins' : b # Target(d)'
  BY DEF AnotherIsCounted
<1>0. Target(d)' \in Admins
  BY DEF OperationalAdmins
<1>1. ~ undercut
  BY <1>0, AdminSteps
<1>2. CASE At(d, "write") /\ Target(d)' = Target(d)
  <2>1. Target(d) \in OperationalAdmins
    BY <1>0, <1>2, AdminSteps DEF Restricting, At
  <2>2. PICK b \in OperationalAdmins : b # Target(d)
    BY <1>1, <1>2, <2>1 DEF AdminInvariant, AnotherIsCounted
  <2>3. b \in OperationalAdmins'
    BY <1>2, CountedStays
  <2> QED BY <1>2, <2>2, <2>3
<1>3. CASE WriteStep(d) /\ UNCHANGED user
  <2>1. Target(d)' = Target(d) /\ ~ Refused(d) /\ OperationalAdmins' = OperationalAdmins
    BY <1>3 DEF WriteStep, Target, OperationalAdmins
  <2>2. ~ Cardinality(OperationalAdmins) <= 1
    BY <2>1 DEF Refused
  <2>3. IsFiniteSet(OperationalAdmins)
    <3>1. OperationalAdmins \subseteq Users
      BY AccountsAssumption DEF OperationalAdmins
    <3> QED BY <3>1, FS_Subset, AccountsAssumption
  <2>4. Cardinality(OperationalAdmins) > 1
    BY <2>2, <2>3, FS_CardinalityType
  <2> QED BY <2>1, <2>3, <2>4, Another
<1> QED BY <1>2, <1>3, BeforeWrite

LEMMA SomeAdminStays ==
    ASSUME TypeOK, AdminInvariant, Next, ~ undercut'
    PROVE  OperationalAdmins' # {}
<1>1. Admins \subseteq Users /\ OperationalAdmins \subseteq Admins
  BY AccountsAssumption DEF OperationalAdmins
<1>2. ~ undercut
  <2>1. NoteUndercut
    BY Regrouped
  <2> QED BY <2>1 DEF NoteUndercut
<1>3. PICK a \in OperationalAdmins : TRUE
  BY <1>2 DEF AdminInvariant
<1> SUFFICES ASSUME a \notin OperationalAdmins'
             PROVE  OperationalAdmins' # {}
  OBVIOUS
<1>4. PICK c \in Calls : WriteRestriction(c) /\ Target(c) = a
  BY <1>1, <1>3, AdminSteps
<1>5. PICK b \in OperationalAdmins : b # a
  BY <1>2, <1>3, <1>4 DEF AdminInvariant, AnotherIsCounted, WriteRestriction
<1>6. user'[b] = user[b]
  BY <1>1, <1>4, <1>5, OneRestricted
<1>7. b \in OperationalAdmins'
  BY <1>5, <1>6 DEF OperationalAdmins
<1> QED BY <1>7

LEMMA AdminsPreserved ==
    TypeOK /\ AdminInvariant /\ [Next]_vars => AdminInvariant'
<1> SUFFICES ASSUME TypeOK, AdminInvariant, [Next]_vars
             PROVE  AdminInvariant'
  OBVIOUS
<1>1. CASE UNCHANGED vars
  BY <1>1 DEF AdminInvariant, WritersHoldTarget, AdminsInReach, AnotherIsCounted,
              OperationalAdmins, Restricting, At, Target, vars
<1>2. CASE Next
  <2>1. WritersHoldTarget'
    BY <1>2, WritersHold DEF AdminInvariant
  <2>2. ~ undercut' => AdminsInReach' /\ AnotherIsCounted' /\ OperationalAdmins' # {}
    BY <1>2, ReachPreserved, CountPreserved, SomeAdminStays
  <2> QED BY <2>1, <2>2 DEF AdminInvariant
<1> QED BY <1>1, <1>2

LEMMA InitAdmins == Init => AdminInvariant
<1> SUFFICES ASSUME Init
             PROVE  AdminInvariant
  OBVIOUS
<1>1. \A c \in Calls : ~ Restricting(c) /\ ~ At(c, "write")
  BY DEF Init, Idle, Restricting, At
<1>2. OperationalAdmins # {}
  BY DEF Init, OperationalAdmins
<1> QED BY <1>1, <1>2 DEF AdminInvariant, WritersHoldTarget, AdminsInReach, AnotherIsCounted

-----------------------------------------------------------------------------
(* Waiting in a cycle *)

\* Until it has its target too, a restriction holds administrators only, and those it has
\* yet to lock come after them.
Ascends(c) ==
    call[c].pc \in {"locking", "target"} =>
        /\ call[c].todo \subseteq Admins
        /\ \A u \in Users : lock[u] = c =>
              u \in Admins /\ \A v \in call[c].todo : u < v

LocksAscend == \A c \in Calls : Ascends(c)

\* Any ids have a least one among them.
Before == {p \in Nat \X Nat : p[1] < p[2]}

LEMMA BeforeIsWellFounded == IsWellFoundedOn(Before, Nat)
BY NatLessThanWellFounded DEF OpToRel, Before

LEMMA Least ==
    ASSUME NEW S, S \subseteq Nat, S # {}
    PROVE  \E n \in S : \A m \in S : n <= m
<1>1. PICK n \in S : \A m \in S : << m, n >> \notin Before
  BY BeforeIsWellFounded, WFMin
<1>2. \A m \in S : m \in Nat /\ n \in Nat
  OBVIOUS
<1>3. \A m \in S : << m, n >> \in Before <=> m < n
  BY <1>2 DEF Before
<1>4. \A m \in S : ~ (m < n)
  BY <1>1, <1>3
<1> QED BY <1>2, <1>4

LEMMA NextIsLeast ==
    ASSUME TypeOK, NEW c \in Calls, call[c].todo # {}
    PROVE  NextRow(c) \in call[c].todo /\ \A v \in call[c].todo : NextRow(c) <= v
<1>1. call[c].todo \subseteq Nat
  BY AccountsAssumption DEF TypeOK, CallRow
<1> QED BY <1>1, Least DEF NextRow

\* A call that does not take the step holds no more after it, and has the same to lock.
LEMMA AscentKept ==
    ASSUME NEW d \in Calls, Ascends(d), call'[d] = call[d],
           \A u \in Users : lock'[u] = d => lock[u] = d
    PROVE  Ascends(d)'
BY DEF Ascends

LEMMA OwnAscent ==
    ASSUME TypeOK, NEW c \in Calls, Ascends(c), Restriction(c)
    PROVE  Ascends(c)'
<1>0. /\ lock \in [Users -> Calls \cup {NoCall}] /\ call[c] \in CallRow
      /\ \A u \in Users : lock[u] = c => Restricting(c)
      /\ \A a \in Admins : a \in Nat
  BY AccountsAssumption DEF TypeOK, Restricting
<1>1. ASSUME NEW u \in Users, NEW op \in {"block", "disable"}, StartRestriction(c, op, u)
      PROVE  Ascends(c)'
  <2>1. call'[c].todo = OperationalAdmins /\ UNCHANGED lock /\ ~ Restricting(c)
    BY <1>1 DEF StartRestriction, TypeOK, Restricting, At
  <2> QED BY <1>0, <2>1 DEF Ascends, OperationalAdmins
<1>2. CASE LockNextRow(c)
  <2> DEFINE n == NextRow(c)
             row == [call[c] EXCEPT !.todo = @ \ {n}]
  <2>1. At(c, "locking") /\ call[c].todo # {} /\ call' = [call EXCEPT ![c] = row]
    BY <1>2 DEF LockNextRow, CanLock
  <2>2. \A u \in Users : lock'[u] = c => u = n \/ lock[u] = c
    BY <1>0, <1>2 DEF LockNextRow
  <2>3. n \in call[c].todo /\ \A v \in call[c].todo : n <= v
    BY <2>1, NextIsLeast
  <2> HIDE DEF n
  <2>4. row.todo = call[c].todo \ {n}
    BY <1>0 DEF CallRow
  <2> HIDE DEF row
  <2>5. call'[c].todo = call[c].todo \ {n}
    BY <2>1, <2>4 DEF TypeOK
  <2>6. /\ call[c].todo \subseteq Admins
        /\ \A u \in Users : lock[u] = c => u \in Admins /\ \A v \in call[c].todo : u < v
    BY <2>1 DEF Ascends, At
  <2>7. \A v \in call[c].todo \ {n} : n < v
    BY <1>0, <2>3, <2>6
  <2> QED BY <2>2, <2>3, <2>5, <2>6, <2>7 DEF Ascends
<1>3. CASE LockedAll(c)
  <2>1. At(c, "locking") /\ call'[c].todo = call[c].todo /\ UNCHANGED lock
    BY <1>0, <1>3 DEF LockedAll, Goto, TypeOK, CallRow
  <2> QED BY <2>1 DEF Ascends, At
<1>4. CASE LockTarget(c) \/ WriteRestriction(c) \/ Abandon(c)
  <2>1. CASE Finish(c)
    BY <2>1, Finishing DEF Ascends, Idle
  <2>2. CASE At(c, "target") /\ Goto(c, "write")
    <3>1. call'[c].pc = "write"
      BY <1>0, <2>2 DEF Goto, TypeOK, CallRow
    <3> QED BY <3>1 DEF Ascends
  <2> QED BY <1>4, <2>1, <2>2 DEF LockTarget, WriteRestriction, Abandon
<1> QED BY <1>1, <1>2, <1>3, <1>4 DEF Restriction

LEMMA AscentPreserved ==
    TypeOK /\ LocksAscend /\ [Next]_vars => LocksAscend'
<1> SUFFICES ASSUME TypeOK, LocksAscend, [Next]_vars, NEW d \in Calls
             PROVE  Ascends(d)'
  BY DEF LocksAscend
<1>0. Ascends(d)
  BY DEF LocksAscend
<1>1. CASE UNCHANGED << call, lock >>
  BY <1>0, <1>1, AscentKept
<1>2. ASSUME NEW c \in Calls, Attending(c)
      PROVE  Ascends(d)'
  <2>1. OnlyCall(c) /\ ~ Restricting(c)' /\ UNCHANGED lock
    BY <1>2, AttendingCall
  <2>2. CASE d = c
    BY <2>1, <2>2 DEF Ascends, Restricting
  <2>3. CASE d # c
    BY <1>0, <2>1, <2>3, OtherCalls, AscentKept
  <2> QED BY <2>2, <2>3
<1>3. ASSUME NEW c \in Calls, Restriction(c)
      PROVE  Ascends(d)'
  <2>1. CASE d = c
    BY <1>0, <1>3, <2>1, OwnAscent
  <2>2. CASE d # c
    <3>1. RestrictionStepOK(c)
      BY <1>3, RestrictionCall
    <3>2. call'[d] = call[d]
      BY <2>2, <3>1, OtherCalls DEF RestrictionStepOK
    <3>3. \A u \in Users : lock'[u] = d => lock[u] = d
      BY <2>2, <3>1, AccountsAssumption DEF RestrictionStepOK, LockStep
    <3> QED BY <1>0, <3>2, <3>3, AscentKept
  <2> QED BY <2>1, <2>2
<1>4. ASSUME NEW u \in Users, Administering(u)
      PROVE  UNCHANGED << call, lock >>
  BY <1>4 DEF Administering, Administration, Unblock, Enable, ResetPassword, Remove,
              LockoutElapses
<1> QED BY <1>1, <1>2, <1>3, <1>4, Regrouped DEF vars

LEMMA InitAscent == Init => LocksAscend
BY DEF Init, LocksAscend, Ascends, Idle

\* Who is waited for holds a row, and so restricts; who waits has not come to its write.
LEMMA InCycle ==
    ASSUME TypeOK, NEW D \in SUBSET Calls, Cycle(D), NEW d \in D
    PROVE  Restricting(d) /\ call[d].pc \in {"locking", "target"}
<1>1. PICK e \in D : WaitsFor(e, d)
  BY DEF Cycle
<1>2. PICK u \in Users : lock[u] = d
  <2>1. CASE At(e, "locking") /\ call[e].todo # {} /\ lock[NextRow(e)] = d
    <3>1. NextRow(e) \in Users
      BY <2>1, NextIsLeast DEF TypeOK, CallRow
    <3> QED BY <2>1, <3>1
  <2>2. CASE call[e].pc \in {"target", "recover", "failed", "success"} /\ lock[Target(e)] = d
    BY <2>2 DEF TypeOK, Target
  <2> QED BY <1>1, <2>1, <2>2 DEF WaitsFor
<1>3. Restricting(d)
  BY <1>2, AccountsAssumption DEF TypeOK, Restricting
<1>4. \E f \in D : WaitsFor(d, f)
  BY DEF Cycle
<1> QED BY <1>3, <1>4 DEF WaitsFor, At, Restricting

\* Locking in the order of the ids cannot close a cycle: who is waited for at the least row
\* holds a smaller one than it waits for.
LEMMA SomebodyWaitsForItsTarget ==
    ASSUME TypeOK, LocksAscend, NEW D \in SUBSET Calls, Cycle(D)
    PROVE  \E d \in D : At(d, "target")
<1> SUFFICES ASSUME \A d \in D : ~ At(d, "target")
             PROVE  FALSE
  OBVIOUS
<1>1. \A d \in D : At(d, "locking")
  BY InCycle DEF At
<1>2. \A d, e \in D : WaitsFor(d, e) => call[d].todo # {} /\ lock[NextRow(d)] = e
  BY <1>1 DEF WaitsFor, At
<1>3. \A d \in D : NextRow(d) \in call[d].todo /\ NextRow(d) \in Users /\ NextRow(d) \in Nat
  <2> SUFFICES ASSUME NEW d \in D
               PROVE  NextRow(d) \in call[d].todo /\ NextRow(d) \in Users /\ NextRow(d) \in Nat
    OBVIOUS
  <2>1. call[d].todo # {} /\ call[d].todo \subseteq Users
    BY <1>2 DEF Cycle, TypeOK, CallRow
  <2> QED BY <2>1, NextIsLeast, AccountsAssumption
<1> DEFINE S == {NextRow(d) : d \in D}
<1>4. S \subseteq Nat /\ S # {}
  BY <1>3 DEF Cycle
<1>5. PICK n \in S : \A m \in S : n <= m
  BY <1>4, Least
<1>6. PICK d \in D : n = NextRow(d)
  BY <1>5
<1>7. PICK e \in D : lock[NextRow(e)] = d
  BY <1>2 DEF Cycle
<1>8. NextRow(e) < NextRow(d)
  BY <1>1, <1>3, <1>7 DEF LocksAscend, Ascends, At
<1>9. NextRow(d) <= NextRow(e)
  BY <1>5, <1>6
<1> QED BY <1>3, <1>8, <1>9

LEMMA CyclesAreNarrow ==
    TypeOK /\ AdminInvariant /\ LocksAscend => OrderAvoidsDeadlock
<1> SUFFICES ASSUME TypeOK, AdminInvariant, LocksAscend, NEW D \in SUBSET Calls, Cycle(D)
             PROVE  /\ \A d \in D : Restricting(d)
                    /\ \/ undercut
                       \/ \E d \in D : At(d, "target") /\ Target(d) \in Admins \ OperationalAdmins
  BY DEF OrderAvoidsDeadlock
<1>1. \A d \in D : Restricting(d) /\ call[d].pc \in {"locking", "target"}
  BY InCycle
<1>2. PICK d \in D : At(d, "target")
  BY SomebodyWaitsForItsTarget
<1>3. PICK e \in D : WaitsFor(d, e)
  BY DEF Cycle
<1>4. Target(d) \in Users /\ lock[Target(d)] = e /\ e # d /\ call[d].todo = {}
  BY <1>2, <1>3 DEF WaitsFor, At, TypeOK, Target
<1>5. Target(d) \in Admins
  BY <1>1, <1>4 DEF LocksAscend, Ascends
<1>6. ~ undercut => Target(d) \notin OperationalAdmins
  BY <1>1, <1>4 DEF AdminInvariant, AdminsInReach
<1> QED BY <1>1, <1>2, <1>5, <1>6

-----------------------------------------------------------------------------
(* Wrong passwords *)

LEMMA InitBelowLimit == Init => ActiveBelowLimit
<1>1. NoRow.attempts = 0 /\ [Created EXCEPT !.credential = TRUE].attempts = 0
  BY DEF NoRow, Created
<1>2. 0 < MaxAttempts
  BY AccountsAssumption
<1>3. Init => \A u \in Users : user[u].attempts = 0
  BY <1>1 DEF Init
<1> QED BY <1>2, <1>3 DEF ActiveBelowLimit

LEMMA BelowLimitPreserved ==
    TypeOK /\ ActiveBelowLimit /\ [Next]_vars => ActiveBelowLimit'
<1> SUFFICES ASSUME TypeOK, ActiveBelowLimit, [Next]_vars, NEW u \in Users,
                    user'[u].status = "ACTIVE"
             PROVE  user'[u].attempts < MaxAttempts
  BY DEF ActiveBelowLimit
<1>1. CASE UNCHANGED vars
  BY <1>1 DEF ActiveBelowLimit, vars
<1>2. CASE Next
  <2>1. RowStep(u) /\ 0 < MaxAttempts
    BY <1>2, StepOfRows, AccountsAssumption DEF RowsStep
  <2> QED BY <2>1, Rows DEF RowStep, ActiveBelowLimit
<1> QED BY <1>1, <1>2

LEMMA OnlyExpiredLockoutsEnd ==
    ASSUME TypeOK, Next, NEW u \in Users, user[u].status # "ACTIVE", user'[u].status = "ACTIVE"
    PROVE  user[u].status = "ABSENT" \/ Recoverable(u) \/ call' = call
<1>1. RowStep(u)
  BY StepOfRows DEF RowsStep
<1> QED BY <1>1 DEF RowStep

-----------------------------------------------------------------------------
(* The theorems *)

\* Type correctness: a call's data fit what it is doing, and a row is held only by a call
\* that restricts.
THEOREM TypeCorrect == Spec => []TypeOK
BY InitTypes, TypesPreserved, PTL DEF Spec

\* block, disable, logins, and whatever else happens leave an operational administrator,
\* unless a lockout or a reactivation undercut the check.
THEOREM OperationalAdminRemains == Spec => []AdminRemains
<1>1. AdminInvariant => AdminRemains
  BY DEF AdminInvariant, AdminRemains
<1> QED BY <1>1, InitTypes, TypesPreserved, InitAdmins, AdminsPreserved, PTL DEF Spec

\* No path to ACTIVE keeps the failures that locked an account.
THEOREM ActiveAccountsBelowLimit == Spec => []ActiveBelowLimit
BY InitTypes, TypesPreserved, InitBelowLimit, BelowLimitPreserved, PTL DEF Spec

\* recoverExpiredTemporaryLockout reactivates nobody but those whose lockout has passed.
THEOREM LockoutsExpireOnly == Spec => OnlyLockoutsExpire
<1> DEFINE Step == \A u \in Users :
                      user[u].status # "ACTIVE" /\ user'[u].status = "ACTIVE" =>
                         \/ user[u].status = "ABSENT"
                         \/ Recoverable(u)
                         \/ call' = call
<1>1. TypeOK /\ [Next]_vars => [Step]_user
  BY OnlyExpiredLockoutsEnd DEF vars
<1>2. Spec => [][Step]_user
  BY <1>1, InitTypes, TypesPreserved, PTL DEF Spec
<1> QED BY <1>2 DEF OnlyLockoutsExpire

\* However many restrictions, logins and other requests overlap, only restrictions wait in
\* a cycle, and only about administrators who came or went in between.
THEOREM OrderedLocksAvoidDeadlock == Spec => []OrderAvoidsDeadlock
BY InitTypes, TypesPreserved, InitAdmins, AdminsPreserved, InitAscent, AscentPreserved,
   CyclesAreNarrow, PTL DEF Spec
=============================================================================
