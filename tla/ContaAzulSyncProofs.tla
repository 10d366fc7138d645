------------------------- MODULE ContaAzulSyncProofs -------------------------
(***************************************************************************)
(* What holds of ContaAzulSync for any number of runs, workers, calls and  *)
(* companies and any timeouts.                                             *)
(***************************************************************************)
EXTENDS ContaAzulSync, TLAPS

-----------------------------------------------------------------------------
(* The updates the actions are built from keep the types of what they update *)

\* A heartbeat leaves a row with its status, and never changes a row that ended.
LEMMA HeartbeatUpdate ==
    ASSUME NEW row \in RunRow
    PROVE  /\ Heartbeat(row) \in RunRow
           /\ Heartbeat(row).trigger = row.trigger
           /\ Heartbeat(row).status = row.status
           /\ Heartbeat(row).age \in {0, row.age}
           /\ row.status \notin ActiveStatuses => Heartbeat(row) = row
BY SyncAssumption, 0 \in 0..Timeout DEF Heartbeat, RunRow, ActiveStatuses

\* What a step may do to one row of sync_runs: nothing, open it while no other row is
\* active, or, while it is active, change it in the order of its lifecycle.
Succeeding(s) == \E w \in Workers : At(w, "success") /\ engine[w].run = s
RowStep(s) ==
    \/ run'[s] = run[s]
    \/ run[s].status = "NONE" /\ run'[s].status = "PENDING" /\ ActiveRuns = {}
    \/ Active(s) /\ run'[s].status \in {run[s].status, "RUNNING", "FAILED"}
    \/ Active(s) /\ run'[s].status = "SUCCESS" /\ Succeeding(s)

\* At most one row gets another status, only the passing of time makes an open one older, only
\* the planner opens a SCHEDULED one, and an opened row keeps its trigger.
RunStep ==
    /\ run' \in [Runs -> RunRow]
    /\ \A s \in Runs : RowStep(s)
    /\ \A s, t \in Runs : /\ run'[s].status # run[s].status
                           /\ run'[t].status # run[t].status
                           => s = t
    /\ Tick \/ \A s \in Runs : run[s].status # "NONE" => run'[s].age \in {0, run[s].age}
    /\ \A s \in Runs : run'[s].trigger = "SCHEDULED" =>
          run[s].trigger = "SCHEDULED" \/ \E c \in Calls : call[c].kind = "plan"
    /\ \A s \in Runs : run[s].status # "NONE" => run'[s].trigger = run[s].trigger

\* Replacing the row of an active run by one that begins or ends it is such a step.
LEMMA RowReplaced ==
    ASSUME TypeOK, NEW r \in Runs, Active(r), NEW row \in RunRow,
           \/ row.status \in {"RUNNING", "FAILED"}
           \/ row.status = "SUCCESS" /\ Succeeding(r),
           row.age = 0, row.trigger = run[r].trigger, run' = [run EXCEPT ![r] = row]
    PROVE  RunStep
<1>1. /\ run' \in [Runs -> RunRow]
      /\ run'[r] = row
      /\ \A s \in Runs : s # r => run'[s] = run[s]
  BY DEF TypeOK
<1> QED BY <1>1 DEF RunStep, RowStep

\* The guarded updates of sync-run.repository are such steps.
LEMMA GuardedUpdates ==
    ASSUME TypeOK, NEW r, run' \in {run, MarkFailed(r), MarkRunning(r)}
    PROVE  RunStep
<1>1. /\ run \in [Runs -> RunRow]
      /\ 0 \in 0..Timeout
  BY SyncAssumption DEF TypeOK
<1>2. CASE run' = run
  BY <1>1, <1>2 DEF RunStep, RowStep
<1>3. ASSUME r \in Runs, Active(r)
      PROVE  /\ [run[r] EXCEPT !.status = "FAILED", !.age = 0] \in RunRow
             /\ [run[r] EXCEPT !.status = "RUNNING", !.age = 0] \in RunRow
  BY <1>1, <1>3 DEF RunRow, RunStatus, ActiveStatuses, TerminalStatuses
<1>4. CASE r \in Runs /\ Active(r) /\ run' = MarkFailed(r)
  <2> DEFINE row == [run[r] EXCEPT !.status = "FAILED", !.age = 0]
  <2>1. run' = [run EXCEPT ![r] = row]
    BY <1>4 DEF MarkFailed
  <2>2. row.status = "FAILED" /\ row.age = 0 /\ row.trigger = run[r].trigger
    BY <1>1, <1>4 DEF RunRow
  <2>3. row \in RunRow
    BY <1>3, <1>4
  <2> HIDE DEF row
  <2> QED BY <2>1, <2>2, <2>3, <1>4, RowReplaced
<1>5. CASE r \in Runs /\ Active(r) /\ run' = MarkRunning(r)
  <2> DEFINE row == [run[r] EXCEPT !.status = "RUNNING", !.age = 0]
  <2>1. run' = [run EXCEPT ![r] = row]
    BY <1>1, <1>5 DEF MarkRunning, RunRow
  <2>2. row.status = "RUNNING" /\ row.age = 0 /\ row.trigger = run[r].trigger
    BY <1>1, <1>5 DEF RunRow
  <2>3. row \in RunRow
    BY <1>3, <1>5
  <2> HIDE DEF row
  <2> QED BY <2>1, <2>2, <2>3, <1>5, RowReplaced
<1>6. CASE ~ (r \in Runs /\ Active(r))
  <2>1. run' = run
    BY <1>1, <1>6 DEF MarkFailed, MarkRunning
  <2> QED BY <2>1, <1>2
<1> QED BY <1>2, <1>4, <1>5, <1>6

\* So is markSuccess, by a worker that has come to the success of that run.
LEMMA SuccessRow ==
    ASSUME TypeOK, NEW w \in Workers, Succeed(w)
    PROVE  RunStep
<1> DEFINE r == engine[w].run
           row == [run[r] EXCEPT !.status = "SUCCESS", !.age = 0]
<1>1. /\ run \in [Runs -> RunRow]
      /\ 0 \in 0..Timeout
  BY SyncAssumption DEF TypeOK
<1>2. Succeeding(r) /\ run' = MarkSuccess(r)
  BY DEF Succeed, Succeeding
<1> HIDE DEF r
<1>3. CASE r \in Runs /\ Active(r)
  <2>1. run' = [run EXCEPT ![r] = row]
    BY <1>1, <1>2, <1>3 DEF MarkSuccess, RunRow
  <2>2. row.status = "SUCCESS" /\ row.age = 0 /\ row.trigger = run[r].trigger
    BY <1>1, <1>3 DEF RunRow
  <2>3. row \in RunRow
    BY <1>1, <1>3 DEF RunRow, RunStatus, TerminalStatuses
  <2> HIDE DEF row
  <2> QED BY <2>1, <2>2, <2>3, <1>2, <1>3, RowReplaced
<1>4. CASE ~ (r \in Runs /\ Active(r))
  <2>1. run' = run
    BY <1>1, <1>2, <1>4 DEF MarkSuccess
  <2> QED BY <2>1, <1>1 DEF RunStep, RowStep
<1> QED BY <1>3, <1>4

\* Starting, moving and ending a call keeps the types of the calls.
LEMMA CallUpdates ==
    ASSUME TypeOK, NEW c \in Calls
    PROVE  /\ NoCall \in CallRow
           /\ \A row \in CallRow : [call EXCEPT ![c] = row] \in [Calls -> CallRow]
           /\ \A pc \in CallPcs : Goto(c, pc) => call' \in [Calls -> CallRow]
           /\ Finish(c) => call' \in [Calls -> CallRow]
<1>1. call \in [Calls -> CallRow]
  BY DEF TypeOK
<1>2. NoCall \in CallRow
  BY SyncAssumption DEF NoCall, CallRow, CallPcs, Kinds
<1>3. \A row \in CallRow : [call EXCEPT ![c] = row] \in [Calls -> CallRow]
  BY <1>1
<1>4. ASSUME NEW pc \in CallPcs, Goto(c, pc) PROVE call' \in [Calls -> CallRow]
  <2>1. [call[c] EXCEPT !.pc = pc] \in CallRow
    BY <1>1 DEF CallRow
  <2> QED BY <2>1, <1>1, <1>4 DEF Goto
<1>5. Finish(c) => call' \in [Calls -> CallRow]
  BY <1>2, <1>3 DEF Finish
<1> QED BY <1>2, <1>3, <1>4, <1>5

\* Reading the active run keeps the types of the calls.
LEMMA SnapshotType ==
    ASSUME TypeOK, NEW c \in Calls, NEW kind \in Kinds, NEW retry \in BOOLEAN,
           Snapshot(c, kind, retry)
    PROVE  call' \in [Calls -> CallRow]
<1>1. PICK r \in ActiveRuns :
          call' = [call EXCEPT ![c] = [pc |-> "probe", kind |-> kind, run |-> r,
                                       age |-> run[r].age, retry |-> retry]]
  BY DEF Snapshot
<1>2. r \in Runs /\ run[r].age \in 0..Timeout
  BY DEF TypeOK, RunRow, ActiveRuns
<1>3. [pc |-> "probe", kind |-> kind, run |-> r, age |-> run[r].age, retry |-> retry]
          \in CallRow
  BY <1>2 DEF CallRow, CallPcs
<1> QED BY <1>1, <1>3, CallUpdates

\* So does going on after the reconciliation.
LEMMA ReconciledType ==
    ASSUME TypeOK, NEW c \in Calls, NEW released \in BOOLEAN, Reconciled(c, released)
    PROVE  call' \in [Calls -> CallRow]
BY CallUpdates DEF Reconciled, CallPcs

\* Moving, leaving and stopping keeps the types of the engines.
LEMMA EngineUpdates ==
    ASSUME TypeOK, NEW w \in Workers
    PROVE  /\ Idle \in EngineRow /\ Down \in EngineRow
           /\ \A row \in EngineRow : [engine EXCEPT ![w] = row] \in [Workers -> EngineRow]
           /\ \A pc \in EnginePcs : Step(w, pc) => engine' \in [Workers -> EngineRow]
           /\ \A pc \in EnginePcs : Leave(w, pc) => engine' \in [Workers -> EngineRow]
           /\ Stop(w) => engine' \in [Workers -> EngineRow]
           /\ engine[w] \in EngineRow
<1>1. engine \in [Workers -> EngineRow]
  BY DEF TypeOK
<1>2. Idle \in EngineRow /\ Down \in EngineRow
  BY SyncAssumption DEF Idle, Down, EngineRow, EnginePcs
<1>3. \A row \in EngineRow : [engine EXCEPT ![w] = row] \in [Workers -> EngineRow]
  BY <1>1
<1>4. ASSUME NEW pc \in EnginePcs, Step(w, pc) PROVE engine' \in [Workers -> EngineRow]
  <2>1. [engine[w] EXCEPT !.pc = pc] \in EngineRow
    BY <1>1 DEF EngineRow
  <2> QED BY <2>1, <1>1, <1>4 DEF Step
<1>5. ASSUME NEW pc \in EnginePcs, Leave(w, pc) PROVE engine' \in [Workers -> EngineRow]
  <2>1. [Idle EXCEPT !.pc = pc, !.run = engine[w].run] \in EngineRow
    BY <1>1, <1>2 DEF Idle, EngineRow
  <2> QED BY <2>1, <1>3, <1>5 DEF Leave
<1>6. Stop(w) => engine' \in [Workers -> EngineRow]
  BY <1>2, <1>3 DEF Stop
<1> QED BY <1>1, <1>2, <1>3, <1>4, <1>5, <1>6

\* Queueing and removing a job keeps the types of the jobs.
LEMMA JobUpdates ==
    ASSUME TypeOK, NEW r
    PROVE  /\ Waiting(r) \in [Runs -> JobRow]
           /\ Removed(r) \in [Runs -> JobRow]
           /\ \A row \in JobRow : [job EXCEPT ![r] = row] \in [Runs -> JobRow]
           /\ NoJob \in JobRow /\ FailedJob \in JobRow
           /\ r \in Runs => job[r] \in JobRow
<1>1. job \in [Runs -> JobRow]
  BY DEF TypeOK
<1>2. NoJob \in JobRow /\ FailedJob \in JobRow
  BY DEF NoJob, FailedJob, JobRow, JobStates
<1>3. Waiting(r) \in [Runs -> JobRow]
  <2>1. r \in Runs => [job[r] EXCEPT !.state = "waiting"] \in JobRow
    BY <1>1 DEF JobRow, JobStates
  <2> QED BY <2>1, <1>1 DEF Waiting
<1>4. Removed(r) \in [Runs -> JobRow]
  BY <1>1, <1>2 DEF Removed
<1> QED BY <1>1, <1>2, <1>3, <1>4

-----------------------------------------------------------------------------
(* What any step of the system may do to sync_runs *)

\* Opening a run is such a step.
LEMMA CreateRow ==
    ASSUME TypeOK, NEW c \in Calls, Create(c)
    PROVE  RunStep
<1>1. run \in [Runs -> RunRow] /\ Started(c) \in 0..Timeout
  BY SyncAssumption DEF TypeOK, CallRow, Started
<1>2. [status |-> "PENDING", trigger |-> Trigger(c), age |-> Started(c)] \in RunRow
  BY <1>1 DEF RunRow, RunStatus, ActiveStatuses, Triggers, Trigger
<1>3. Trigger(c) = "SCHEDULED" => call[c].kind = "plan"
  BY DEF Trigger
<1>4. PICK r \in Runs : CreatePending(r, Trigger(c), Started(c))
  BY DEF Create
<1> QED BY <1>1, <1>2, <1>3, <1>4 DEF CreatePending, RunStep, RowStep

\* So is a page of the engine, which touches the row of its run only.
LEMMA PageRow ==
    ASSUME TypeOK, NEW w \in Workers, FetchPage(w)
    PROVE  RunStep
<1> DEFINE r == engine[w].run
<1>1. /\ run \in [Runs -> RunRow]
      /\ \/ run' = run
         \/ run' = [run EXCEPT ![r] = Heartbeat(@)]
  BY DEF TypeOK, FetchPage
<1>2. CASE r \in Runs
  <2>1. PICK row \in RunRow :
           /\ run' = [run EXCEPT ![r] = row]
           /\ row.status = run[r].status
           /\ row.age \in {0, run[r].age}
           /\ row.trigger = run[r].trigger
           /\ run[r].status \notin ActiveStatuses => row = run[r]
    BY <1>1, <1>2, HeartbeatUpdate
  <2> HIDE DEF r
  <2> QED BY <1>1, <1>2, <2>1 DEF RunStep, RowStep, Active
<1>3. CASE r \notin Runs
  <2>1. run' = run
    BY <1>1, <1>3
  <2> QED BY <1>1, <2>1 DEF RunStep, RowStep
<1> QED BY <1>2, <1>3

\* So is the passing of time, which only ages the rows that are active.
LEMMA TickRow ==
    ASSUME TypeOK, Tick
    PROVE  RunStep
<1>1. /\ run \in [Runs -> RunRow]
      /\ \A n \in 0..Timeout : Older(n, Timeout) \in 0..Timeout
  BY SyncAssumption DEF TypeOK, Older
<1>2. \A s \in Runs : /\ run'[s] \in RunRow
                      /\ run'[s].status = run[s].status
                      /\ run'[s].trigger = run[s].trigger
                      /\ ~ Active(s) => run'[s] = run[s]
  BY <1>1 DEF Tick, RunRow
<1>3. run' \in [Runs -> RunRow]
  BY <1>2 DEF Tick
<1> QED BY <1>1, <1>2, <1>3 DEF RunStep, RowStep, Active

\* Every step of the system treats sync_runs that way.
LEMMA RunSteps == TypeOK /\ [Next]_vars => RunStep
<1> SUFFICES ASSUME TypeOK, [Next]_vars PROVE RunStep
  OBVIOUS
<1>0. run' = run => RunStep
  BY GuardedUpdates
<1>1. ASSUME NEW c \in Calls, CallStep(c) PROVE RunStep
  <2>1. CASE StartCall(c)
    BY <2>1, <1>0 DEF StartCall
  <2>2. CASE CurrentCall(c)
    BY <2>2, <1>0 DEF CurrentCall
  <2>3. CASE DisconnectCall(c)
    BY <2>3, <1>0 DEF DisconnectCall
  <2>4. CASE PlanTick(c)
    BY <2>4, <1>0 DEF PlanTick
  <2>5. CASE Probe(c)
    BY <2>5, <1>0 DEF Probe
  <2>6. CASE ProbeUnknown(c)
    BY <2>6, <1>0 DEF ProbeUnknown
  <2>7. CASE Release(c)
    BY <2>7, GuardedUpdates DEF Release
  <2>8. CASE Create(c)
    BY <2>8, CreateRow
  <2>9. CASE CreateViolation(c)
    BY <2>9, <1>0 DEF CreateViolation
  <2>10. CASE Reread(c)
    BY <2>10, <1>0 DEF Reread
  <2>11. CASE Enqueue(c)
    BY <2>11, <1>0 DEF Enqueue
  <2>12. CASE EnqueueError(c)
    BY <2>12, <1>0 DEF EnqueueError
  <2>13. CASE EnqueueFailed(c)
    BY <2>13, GuardedUpdates DEF EnqueueFailed
  <2>14. CASE AssertIdle(c)
    BY <2>14, <1>0 DEF AssertIdle
  <2>15. CASE Disconnect(c)
    BY <2>15, <1>0 DEF Disconnect
  <2>16. CASE AbortCall(c)
    BY <2>16, <1>0 DEF AbortCall
  <2> QED BY <1>1, <2>1, <2>2, <2>3, <2>4, <2>5, <2>6, <2>7, <2>8, <2>9, <2>10, <2>11, <2>12, <2>13, <2>14, <2>15, <2>16
     DEF CallStep
<1>2. ASSUME NEW w \in Workers, EngineStep(w) PROVE RunStep
  <2>1. CASE Load(w)
    BY <2>1, <1>0 DEF Load
  <2>2. CASE Mark(w)
    BY <2>2, GuardedUpdates DEF Mark
  <2>3. CASE FetchPage(w)
    BY <2>3, PageRow
  <2>4. CASE AdvanceCursor(w)
    BY <2>4, <1>0 DEF AdvanceCursor
  <2>5. CASE Unauthorized(w)
    BY <2>5, <1>0 DEF Unauthorized
  <2>6. CASE EngineError(w)
    BY <2>6, <1>0 DEF EngineError
  <2>7. CASE Recheck(w)
    BY <2>7, <1>0 DEF Recheck
  <2>8. CASE Succeed(w)
    BY <2>8, SuccessRow
  <2>9. CASE Fail(w)
    BY <2>9, GuardedUpdates DEF Fail
  <2>10. CASE FailLost(w)
    BY <2>10, <1>0 DEF FailLost
  <2> QED BY <1>2, <2>1, <2>2, <2>3, <2>4, <2>5, <2>6, <2>7, <2>8, <2>9, <2>10
     DEF EngineStep
<1>3. ASSUME NEW w \in Workers, WorkerStep(w) PROVE RunStep
  <2>1. ASSUME NEW r \in Runs, Activate(w, r) PROVE RunStep
    BY <2>1, <1>0 DEF Activate
  <2>2. CASE JobCompleted(w)
    BY <2>2, <1>0 DEF JobCompleted
  <2>3. CASE JobFailed(w)
    BY <2>3, <1>0 DEF JobFailed
  <2>4. CASE Crash(w)
    BY <2>4, <1>0 DEF Crash
  <2>5. CASE Restart(w)
    BY <2>5, <1>0 DEF Restart
  <2> QED BY <1>3, <2>1, <2>2, <2>3, <2>4, <2>5
     DEF WorkerStep
<1>4. ASSUME NEW r \in Runs, QueueStep(r) PROVE RunStep
  <2>1. CASE Stall(r)
    BY <2>1, <1>0 DEF Stall
  <2>2. CASE HandleFailed(r)
    BY <2>2, GuardedUpdates DEF HandleFailed
  <2>3. CASE LoseFailedEvent(r)
    BY <2>3, <1>0 DEF LoseFailedEvent
  <2> QED BY <1>4, <2>1, <2>2, <2>3
     DEF QueueStep
<1>5. CASE Environment
  <2>1. ASSUME NEW a \in Accounts, Reconnect(a) PROVE RunStep
    BY <2>1, <1>0 DEF Reconnect
  <2>2. CASE IntegrationUpdated
    BY <2>2, <1>0 DEF IntegrationUpdated
  <2>3. CASE SetTenantStatus
    BY <2>3, <1>0 DEF SetTenantStatus
  <2>4. CASE Tick
    BY <2>4, TickRow
  <2> QED BY <1>5, <2>1, <2>2, <2>3, <2>4
     DEF Environment
<1>6. CASE UNCHANGED vars
  BY <1>6, <1>0 DEF vars
<1> QED BY <1>1, <1>2, <1>3, <1>4, <1>5, <1>6 DEF Next

-----------------------------------------------------------------------------
(* Type correctness *)

\* The calls that begin without an active run to look at are calls.
LEMMA CallRows ==
    ASSUME TypeOK, NEW c \in Calls
    PROVE  /\ [call EXCEPT ![c] = [NoCall EXCEPT !.pc = "create", !.kind = "start"]]
                 \in [Calls -> CallRow]
           /\ [call EXCEPT ![c] = [NoCall EXCEPT !.pc = "assert", !.kind = "disconnect"]]
                 \in [Calls -> CallRow]
           /\ \A age \in 0 .. Timeout - 1 :
                 [call EXCEPT ![c] = [NoCall EXCEPT !.pc = "create", !.kind = "plan", !.age = age]]
                   \in [Calls -> CallRow]
<1>2. ASSUME NEW age \in 0 .. Timeout - 1
      PROVE  [NoCall EXCEPT !.pc = "create", !.kind = "plan", !.age = age] \in CallRow
  <2>1. age \in 0 .. Timeout
    BY SyncAssumption
  <2> QED BY <2>1 DEF NoCall, CallRow, CallPcs, Kinds
<1>1. \A pc \in CallPcs, kind \in Kinds : [NoCall EXCEPT !.pc = pc, !.kind = kind] \in CallRow
  BY CallUpdates DEF CallRow
<1>3. call \in [Calls -> CallRow]
  BY DEF TypeOK
<1>4. /\ [NoCall EXCEPT !.pc = "create", !.kind = "start"] \in CallRow
      /\ [NoCall EXCEPT !.pc = "assert", !.kind = "disconnect"] \in CallRow
  BY <1>1 DEF CallPcs, Kinds
<1> QED BY <1>2, <1>3, <1>4

\* A call that has inserted its row goes on to queue the job.
LEMMA CreateCall ==
    ASSUME TypeOK, NEW c \in Calls, NEW r \in Runs,
           call' = [call EXCEPT ![c].pc = "enqueue", ![c].run = r, ![c].age = Started(c)]
    PROVE  call' \in [Calls -> CallRow]
<1>1. call \in [Calls -> CallRow] /\ Started(c) \in 0..Timeout
  BY SyncAssumption DEF TypeOK, CallRow, Started
<1>2. [call[c] EXCEPT !.pc = "enqueue", !.run = r, !.age = Started(c)] \in CallRow
  BY <1>1 DEF CallRow, CallPcs
<1> QED BY <1>1, <1>2

\* Taking the context of a run keeps the types of the engines.
LEMMA LoadType ==
    ASSUME TypeOK, NEW w \in Workers, Load(w)
    PROVE  engine' \in [Workers -> EngineRow]
<1>1. engine \in [Workers -> EngineRow]
  BY DEF TypeOK
<1>2. integration.identity \in Accounts \cup {NoAccount}
  BY DEF TypeOK, IntegrationRow
<1>3. \A a \in Accounts \cup {NoAccount} :
         [engine[w] EXCEPT !.pc = "mark", !.account = a] \in EngineRow
  BY <1>1 DEF EngineRow, EnginePcs
<1>4. \A a \in Accounts \cup {NoAccount} :
         engine' = [engine EXCEPT ![w].pc = "mark", ![w].account = a]
            => engine' \in [Workers -> EngineRow]
  BY <1>1, <1>3
<1>5. CASE Step(w, "return") \/ Step(w, "fail")
  BY <1>5, EngineUpdates DEF EnginePcs
<1> QED BY <1>2, <1>4, <1>5 DEF Load

\* A worker that takes a job keeps the types of jobs and engines.
LEMMA ActivateType ==
    ASSUME TypeOK, NEW w \in Workers, NEW r \in Runs, Activate(w, r)
    PROVE  job' \in [Runs -> JobRow] /\ engine' \in [Workers -> EngineRow]
<1>1. [job[r] EXCEPT !.state = "active", !.lock = w] \in JobRow
  BY JobUpdates DEF JobRow, JobStates
<1>2. [Idle EXCEPT !.pc = "load", !.run = r] \in EngineRow
  BY EngineUpdates DEF EngineRow, EnginePcs
<1>3. job' = [job EXCEPT ![r] = [job[r] EXCEPT !.state = "active", !.lock = w]]
  BY DEF Activate, TypeOK
<1> QED BY <1>1, <1>2, <1>3, JobUpdates, EngineUpdates DEF Activate

\* So do a failed and a stalled job.
LEMMA JobFailedType ==
    ASSUME TypeOK, Assigned, NEW w \in Workers, JobFailed(w)
    PROVE  job' \in [Runs -> JobRow] /\ failedEvents' \subseteq Runs
<1> DEFINE r == engine[w].run
<1>1. job \in [Runs -> JobRow] /\ failedEvents \subseteq Runs
  BY DEF TypeOK
<1>2. job' \in [Runs -> JobRow]
  BY <1>1, JobUpdates DEF JobFailed
<1>3. failedEvents' \subseteq Runs
  BY <1>1 DEF JobFailed, At, Assigned
<1> QED BY <1>2, <1>3

\* So does a stalled job, whether it waits again or has failed.
LEMMA StallType ==
    ASSUME TypeOK, NEW r \in Runs, Stall(r)
    PROVE  job' \in [Runs -> JobRow] /\ failedEvents' \subseteq Runs
<1>1. [state |-> "waiting", lock |-> NoWorker, stalls |-> 1] \in JobRow
  BY DEF JobRow, JobStates
<1>2. failedEvents \subseteq Runs
  BY DEF TypeOK
<1>3. job' \in [Runs -> JobRow]
  BY <1>1, JobUpdates DEF Stall
<1> QED BY <1>2, <1>3 DEF Stall

\* The passing of time keeps every age within its bound.
LEMMA TickType ==
    ASSUME TypeOK, Tick
    PROVE  /\ engine' \in [Workers -> EngineRow]
           /\ call' \in [Calls -> CallRow]
           /\ baseline' \in 0..Never
<1>1. /\ \A n \in 0..Timeout : Older(n, Timeout) \in 0..Timeout
      /\ \A n \in 0..Interval : Older(n, Interval) \in 0..Never
  BY SyncAssumption DEF Older, Never
<1>2. \A w \in Workers : [engine[w] EXCEPT !.elapsed = Older(@, Timeout)] \in EngineRow
  BY <1>1, EngineUpdates DEF EngineRow
<1>3. engine' \in [Workers -> EngineRow]
  BY <1>2, EngineUpdates DEF Tick
<1>4. \A c \in Calls : call[c] \in CallRow
  BY DEF TypeOK
<1>5. \A c \in Calls : [call[c] EXCEPT !.age = Older(@, Timeout)] \in CallRow
  BY <1>1, <1>4 DEF CallRow
<1>6. call' \in [Calls -> CallRow]
  BY <1>4, <1>5 DEF Tick
<1>7. baseline' \in 0..Never
  BY <1>1, SyncAssumption DEF Tick, TypeOK, Never
<1> QED BY <1>3, <1>6, <1>7

\* Every operation of calls, engines, workers and queue keeps the types.
LEMMA TypeStep == TypeOK /\ Assigned /\ [Next]_vars => TypeOK'
<1> SUFFICES ASSUME TypeOK, Assigned, [Next]_vars PROVE TypeOK'
  OBVIOUS
<1>0. run' \in [Runs -> RunRow]
  BY RunSteps DEF RunStep
<1>1. ASSUME NEW c \in Calls, CallStep(c) PROVE TypeOK'
  <2>1. CASE StartCall(c)
    BY <2>1, <1>0, SnapshotType, CallRows DEF StartCall, TypeOK, envVars, Kinds
  <2>2. CASE CurrentCall(c)
    BY <2>2, <1>0, SnapshotType DEF CurrentCall, TypeOK, envVars, Kinds
  <2>3. CASE DisconnectCall(c)
    BY <2>3, <1>0, SnapshotType, CallRows DEF DisconnectCall, TypeOK, envVars, Kinds
  <2>4. CASE PlanTick(c)
    <3>2. PICK age \in 0 .. Timeout - 1 :
             call' = [call EXCEPT ![c] = [NoCall EXCEPT !.pc = "create", !.kind = "plan", !.age = age]]
      BY <2>4 DEF PlanTick
    <3>3. [call EXCEPT ![c] = [NoCall EXCEPT !.pc = "create", !.kind = "plan", !.age = age]]
             \in [Calls -> CallRow]
      BY CallRows
    <3>1. call' \in [Calls -> CallRow]
      BY <3>2, <3>3
    <3> QED BY <2>4, <3>1, <1>0 DEF PlanTick, TypeOK, envVars
  <2>5. CASE Probe(c)
    BY <2>5, <1>0, ReconciledType, CallUpdates DEF Probe, TypeOK, envVars, CallPcs
  <2>6. CASE ProbeUnknown(c)
    BY <2>6, <1>0, ReconciledType DEF ProbeUnknown, TypeOK, envVars
  <2>7. CASE Release(c)
    BY <2>7, <1>0, ReconciledType DEF Release, TypeOK, envVars
  <2>8. CASE Create(c)
    BY <2>8, <1>0, CreateCall DEF Create, TypeOK, envVars
  <2>9. CASE CreateViolation(c)
    BY <2>9, <1>0, CallUpdates DEF CreateViolation, TypeOK, envVars, CallPcs
  <2>10. CASE Reread(c)
    BY <2>10, <1>0, SnapshotType, CallUpdates DEF Reread, TypeOK, envVars, Kinds
  <2>11. CASE Enqueue(c)
    BY <2>11, <1>0, JobUpdates, CallUpdates DEF Enqueue, TypeOK, envVars
  <2>12. CASE EnqueueError(c)
    BY <2>12, <1>0, JobUpdates, CallUpdates DEF EnqueueError, TypeOK, envVars, CallPcs
  <2>13. CASE EnqueueFailed(c)
    BY <2>13, <1>0, CallUpdates DEF EnqueueFailed, TypeOK, envVars
  <2>14. CASE AssertIdle(c)
    BY <2>14, <1>0, CallUpdates DEF AssertIdle, TypeOK, envVars, CallPcs
  <2>15. CASE Disconnect(c)
    BY <2>15, <1>0, CallUpdates DEF Disconnect, EraseConnection, TypeOK, IntegrationRow
  <2>16. CASE AbortCall(c)
    BY <2>16, <1>0, CallUpdates DEF AbortCall, TypeOK, envVars
  <2> QED BY <1>1, <2>1, <2>2, <2>3, <2>4, <2>5, <2>6, <2>7, <2>8, <2>9, <2>10, <2>11, <2>12, <2>13, <2>14, <2>15, <2>16
     DEF CallStep
<1>2. ASSUME NEW w \in Workers, EngineStep(w) PROVE TypeOK'
  <2>1. CASE Load(w)
    BY <2>1, <1>0, EngineUpdates, LoadType DEF TypeOK, Load, envVars
  <2>2. CASE Mark(w)
    BY <2>2, <1>0, EngineUpdates DEF Mark, TypeOK, envVars, EnginePcs
  <2>3. CASE FetchPage(w)
    BY <2>3, <1>0, EngineUpdates DEF FetchPage, Fetching, TypeOK, envVars, EnginePcs
  <2>4. CASE AdvanceCursor(w)
    BY <2>4, <1>0, EngineUpdates DEF AdvanceCursor, TypeOK, EnginePcs, EngineRow
  <2>5. CASE Unauthorized(w)
    BY <2>5, <1>0, EngineUpdates DEF Unauthorized, MarkError, TypeOK, EnginePcs, IntegrationRow
  <2>6. CASE EngineError(w)
    BY <2>6, <1>0, EngineUpdates DEF EngineError, TypeOK, envVars, EnginePcs
  <2>7. CASE Recheck(w)
    BY <2>7, <1>0, EngineUpdates DEF Recheck, TypeOK, envVars, EnginePcs
  <2>8. CASE Succeed(w)
    BY <2>8, <1>0, EngineUpdates, SyncAssumption DEF Succeed, TypeOK, EnginePcs, Never
  <2>9. CASE Fail(w)
    BY <2>9, <1>0, EngineUpdates DEF Fail, TypeOK, envVars, EnginePcs
  <2>10. CASE FailLost(w)
    BY <2>10, <1>0, EngineUpdates DEF FailLost, TypeOK, envVars, EnginePcs
  <2> QED BY <1>2, <2>1, <2>2, <2>3, <2>4, <2>5, <2>6, <2>7, <2>8, <2>9, <2>10
     DEF EngineStep
<1>3. ASSUME NEW w \in Workers, WorkerStep(w) PROVE TypeOK'
  <2>1. ASSUME NEW r \in Runs, Activate(w, r) PROVE TypeOK'
    BY <2>1, <1>0, ActivateType DEF Activate, TypeOK, envVars
  <2>2. CASE JobCompleted(w)
    BY <2>2, <1>0, JobUpdates, EngineUpdates DEF JobCompleted, TypeOK, envVars
  <2>3. CASE JobFailed(w)
    BY <2>3, <1>0, JobFailedType, EngineUpdates DEF JobFailed, TypeOK, envVars
  <2>4. CASE Crash(w)
    BY <2>4, <1>0, EngineUpdates DEF Crash, TypeOK, envVars
  <2>5. CASE Restart(w)
    BY <2>5, <1>0, EngineUpdates DEF Restart, TypeOK, envVars
  <2> QED BY <1>3, <2>1, <2>2, <2>3, <2>4, <2>5
     DEF WorkerStep
<1>4. ASSUME NEW r \in Runs, QueueStep(r) PROVE TypeOK'
  <2>1. CASE Stall(r)
    BY <2>1, <1>0, StallType DEF Stall, TypeOK, envVars
  <2>2. CASE HandleFailed(r)
    BY <2>2, <1>0 DEF HandleFailed, TypeOK, envVars
  <2>3. CASE LoseFailedEvent(r)
    BY <2>3, <1>0 DEF LoseFailedEvent, TypeOK, envVars
  <2> QED BY <1>4, <2>1, <2>2, <2>3
     DEF QueueStep
<1>5. CASE Environment
  <2>1. ASSUME NEW a \in Accounts, Reconnect(a) PROVE TypeOK'
    BY <2>1, <1>0 DEF Reconnect, Connect, TypeOK, IntegrationRow
  <2>2. CASE IntegrationUpdated
    BY <2>2, <1>0 DEF IntegrationUpdated, StoreIdentity, ClearError, MarkError, TypeOK,
       IntegrationRow
  <2>3. CASE SetTenantStatus
    BY <2>3, <1>0 DEF SetTenantStatus, TypeOK
  <2>4. CASE Tick
    BY <2>4, <1>0, TickType DEF Tick, TypeOK
  <2> QED BY <1>5, <2>1, <2>2, <2>3, <2>4
     DEF Environment
<1>6. CASE UNCHANGED vars
  BY <1>6, <1>0 DEF vars, TypeOK
<1> QED BY <1>1, <1>2, <1>3, <1>4, <1>5, <1>6 DEF Next

\* Which variables each process leaves alone.
LEMMA Footprints ==
    /\ \A c \in Calls : CallStep(c) => UNCHANGED << engine, failedEvents >>
    /\ \A w \in Workers : EngineStep(w) => UNCHANGED << job, call, failedEvents >>
    /\ \A w \in Workers : WorkerStep(w) => UNCHANGED << run, call >>
    /\ \A r \in Runs : QueueStep(r) => UNCHANGED << engine, call >>
    /\ Environment => UNCHANGED << job, failedEvents >>
    /\ Environment => Tick \/ UNCHANGED << run, engine, call >>
<1>1. \A c \in Calls : CallStep(c) => UNCHANGED << engine, failedEvents >>
  BY DEF CallStep, StartCall, CurrentCall, DisconnectCall, PlanTick, Probe, ProbeUnknown,
     Release, Create, CreateViolation, Reread, Enqueue, EnqueueError, EnqueueFailed,
     AssertIdle, Disconnect, AbortCall
<1>2. \A w \in Workers : EngineStep(w) => UNCHANGED << job, call, failedEvents >>
  BY DEF EngineStep, Load, Mark, FetchPage, AdvanceCursor, Unauthorized, EngineError,
     Recheck, Succeed, Fail, FailLost
<1>3. \A w \in Workers : WorkerStep(w) => UNCHANGED << run, call >>
  BY DEF WorkerStep, Activate, JobCompleted, JobFailed, Crash, Restart
<1>4. \A r \in Runs : QueueStep(r) => UNCHANGED << engine, call >>
  BY DEF QueueStep, Stall, HandleFailed, LoseFailedEvent
<1>5. Environment => UNCHANGED << job, failedEvents >>
  BY DEF Environment, Reconnect, IntegrationUpdated, SetTenantStatus, Tick
<1>6. Environment => Tick \/ UNCHANGED << run, engine, call >>
  BY DEF Environment, Reconnect, IntegrationUpdated, SetTenantStatus
<1> QED BY <1>1, <1>2, <1>3, <1>4, <1>5, <1>6

\* An engine that moves was executing a run and keeps it; the other engines stay.
LEMMA EngineKeepsRun ==
    ASSUME TypeOK, NEW w \in Workers, EngineStep(w)
    PROVE  \A v \in Workers : engine'[v].pc \notin {"idle", "down"}
              => engine[v].pc \notin {"idle", "down"} /\ engine'[v].run = engine[v].run
<1>1. /\ engine \in [Workers -> EngineRow]
      /\ \A v \in Workers : DOMAIN engine[v] = {"pc", "run", "account", "elapsed"}
  BY DEF TypeOK, EngineRow
<1> DEFINE Kept(v) == engine'[v].pc \notin {"idle", "down"}
              => engine[v].pc \notin {"idle", "down"} /\ engine'[v].run = engine[v].run
           Busy == engine[w].pc \notin {"idle", "down"}
<1>2. ASSUME NEW pc, Step(w, pc), Busy PROVE \A v \in Workers : Kept(v)
  BY <1>1, <1>2 DEF Step
<1>3. ASSUME NEW pc, Leave(w, pc), Busy PROVE \A v \in Workers : Kept(v)
  BY <1>1, <1>3 DEF Leave, Idle
<1>4. CASE Load(w)
  BY <1>1, <1>2, <1>4 DEF Load, At
<1>5. CASE FetchPage(w)
  <2>1. Busy
    BY <1>5 DEF FetchPage, Fetching
  <2>2. \/ Step(w, "pages") \/ Step(w, engine[w].pc)
        \/ Leave(w, "fail")
    BY <1>5 DEF FetchPage
  <2> QED BY <2>1, <2>2, <1>2, <1>3
<1>6. CASE AdvanceCursor(w)
  BY <1>2, <1>6 DEF AdvanceCursor, At
<1>7. CASE Unauthorized(w)
  BY <1>3, <1>7 DEF Unauthorized, Fetching
<1>8. CASE EngineError(w)
  BY <1>3, <1>8 DEF EngineError
<1>9. CASE Recheck(w)
  BY <1>3, <1>9 DEF Recheck
<1>10. CASE Mark(w) \/ Succeed(w) \/ Fail(w) \/ FailLost(w)
  BY <1>2, <1>10 DEF Mark, Succeed, Fail, FailLost, At
<1> QED BY <1>4, <1>5, <1>6, <1>7, <1>8, <1>9, <1>10 DEF EngineStep

\* Nobody is given work without a run.
LEMMA AssignedStep == TypeOK /\ Assigned /\ [Next]_vars => Assigned'
<1> SUFFICES ASSUME TypeOK, Assigned, [Next]_vars PROVE Assigned'
  OBVIOUS
<1>0. /\ engine \in [Workers -> EngineRow]
      /\ call \in [Calls -> CallRow]
      /\ \A w \in Workers : DOMAIN engine[w] = {"pc", "run", "account", "elapsed"}
  BY DEF TypeOK, EngineRow
<1>1. ASSUME NEW c \in Calls, CallStep(c) PROVE Assigned'
  <2>1. CASE StartCall(c)
    <3>1. CASE Snapshot(c, "start", FALSE)
      BY <2>1, <3>1, <1>0 DEF StartCall, Snapshot, ActiveRuns, Assigned, envVars
    <3>2. CASE call' = [call EXCEPT ![c] = [NoCall EXCEPT !.pc = "create", !.kind = "start"]]
      BY <2>1, <3>2, <1>0 DEF StartCall, NoCall, Assigned, envVars
    <3> QED BY <2>1, <3>1, <3>2 DEF StartCall
  <2>2. CASE CurrentCall(c)
    BY <2>2, <1>0 DEF CurrentCall, Snapshot, ActiveRuns, NoCall, CallRow, Assigned, envVars
  <2>3. CASE DisconnectCall(c)
    <3>1. CASE Snapshot(c, "disconnect", FALSE)
      BY <2>3, <3>1, <1>0 DEF DisconnectCall, Snapshot, ActiveRuns, Assigned, envVars
    <3>2. CASE call' = [call EXCEPT ![c] = [NoCall EXCEPT !.pc = "assert", !.kind = "disconnect"]]
      BY <2>3, <3>2, <1>0 DEF DisconnectCall, NoCall, Assigned, envVars
    <3> QED BY <2>3, <3>1, <3>2 DEF DisconnectCall
  <2>4. CASE PlanTick(c)
    BY <2>4, <1>0 DEF PlanTick, NoCall, CallRow, Assigned, envVars
  <2>5. CASE Probe(c)
    BY <2>5, <1>0 DEF Probe, Reconciled, Goto, Finish, NoCall, CallRow, Assigned, envVars
  <2>6. CASE ProbeUnknown(c)
    BY <2>6, <1>0 DEF ProbeUnknown, Reconciled, Goto, Finish, NoCall, CallRow, Assigned, envVars
  <2>7. CASE Release(c)
    BY <2>7, <1>0 DEF Release, Reconciled, Goto, Finish, NoCall, CallRow, Assigned, envVars
  <2>8. CASE Create(c)
    BY <2>8, <1>0 DEF Create, Assigned, envVars
  <2>9. CASE CreateViolation(c)
    BY <2>9, <1>0 DEF CreateViolation, Goto, Finish, NoCall, CallRow, Assigned, envVars
  <2>10. CASE Reread(c)
    BY <2>10, <1>0 DEF Reread, Snapshot, ActiveRuns, Finish, NoCall, CallRow, Assigned, envVars
  <2>11. CASE Enqueue(c)
    BY <2>11, <1>0 DEF Enqueue, Finish, NoCall, CallRow, Assigned, envVars
  <2>12. CASE EnqueueError(c)
    BY <2>12, <1>0 DEF EnqueueError, Goto, Finish, NoCall, CallRow, Assigned, envVars
  <2>13. CASE EnqueueFailed(c)
    BY <2>13, <1>0 DEF EnqueueFailed, Finish, NoCall, CallRow, Assigned, envVars
  <2>14. CASE AssertIdle(c)
    BY <2>14, <1>0 DEF AssertIdle, Goto, Finish, NoCall, CallRow, Assigned, envVars
  <2>15. CASE Disconnect(c)
    BY <2>15, <1>0 DEF Disconnect, Finish, NoCall, CallRow, Assigned, envVars
  <2>16. CASE AbortCall(c)
    BY <2>16, <1>0 DEF AbortCall, Finish, NoCall, CallRow, Assigned, envVars
  <2> QED BY <1>1, <2>1, <2>2, <2>3, <2>4, <2>5, <2>6, <2>7, <2>8, <2>9, <2>10, <2>11, <2>12, <2>13, <2>14, <2>15, <2>16
     DEF CallStep
<1>2. ASSUME NEW w \in Workers, EngineStep(w) PROVE Assigned'
  <2>1. UNCHANGED << job, call >>
    BY <1>2, Footprints
  <2>2. \A v \in Workers : engine'[v].pc \notin {"idle", "down"}
           => engine[v].pc \notin {"idle", "down"} /\ engine'[v].run = engine[v].run
    BY <1>2, EngineKeepsRun
  <2> QED BY <2>1, <2>2 DEF Assigned
<1>3. ASSUME NEW w \in Workers, WorkerStep(w) PROVE Assigned'
  <2>1. ASSUME NEW r \in Runs, Activate(w, r) PROVE Assigned'
    BY <2>1, <1>0 DEF Activate, Idle, Assigned, envVars
  <2>2. CASE JobCompleted(w)
    BY <2>2, <1>0 DEF JobCompleted, Stop, Idle, Assigned, envVars
  <2>3. CASE JobFailed(w)
    BY <2>3, <1>0 DEF JobFailed, Stop, Idle, Assigned, envVars
  <2>4. CASE Crash(w)
    BY <2>4, <1>0 DEF Crash, Down, Idle, Assigned, envVars
  <2>5. CASE Restart(w)
    BY <2>5, <1>0 DEF Restart, Stop, Idle, Assigned, envVars
  <2> QED BY <1>3, <2>1, <2>2, <2>3, <2>4, <2>5
     DEF WorkerStep
<1>4. ASSUME NEW r \in Runs, QueueStep(r) PROVE Assigned'
  <2>1. CASE Stall(r)
    BY <2>1, <1>0 DEF Stall, Assigned, envVars
  <2>2. CASE HandleFailed(r)
    BY <2>2, <1>0 DEF HandleFailed, Assigned, envVars
  <2>3. CASE LoseFailedEvent(r)
    BY <2>3, <1>0 DEF LoseFailedEvent, Assigned, envVars
  <2> QED BY <1>4, <2>1, <2>2, <2>3
     DEF QueueStep
<1>5. CASE Environment
  <2>1. ASSUME NEW a \in Accounts, Reconnect(a) PROVE Assigned'
    BY <2>1, <1>0 DEF Reconnect, Assigned, envVars
  <2>2. CASE IntegrationUpdated
    BY <2>2, <1>0 DEF IntegrationUpdated, Assigned, envVars
  <2>3. CASE SetTenantStatus
    BY <2>3, <1>0 DEF SetTenantStatus, Assigned, envVars
  <2>4. CASE Tick
    BY <2>4, <1>0 DEF Tick, Assigned, CallRow, EngineRow
  <2> QED BY <1>5, <2>1, <2>2, <2>3, <2>4
     DEF Environment
<1>6. CASE UNCHANGED vars
  BY <1>6 DEF vars, Assigned
<1> QED BY <1>1, <1>2, <1>3, <1>4, <1>5, <1>6 DEF Next

-----------------------------------------------------------------------------
(* The invariant behind the safety properties *)

\* The status of an opened run never goes back to NONE, that of a begun one never to
\* PENDING; a run that ended keeps its row.
LEMMA RowFacts ==
    ASSUME TypeOK, RunStep
    PROVE  /\ \A s \in Runs : run[s].status # "NONE" => run'[s].status # "NONE"
           /\ \A s \in Runs : run[s].status \notin {"NONE", "PENDING"}
                               => run'[s].status \notin {"NONE", "PENDING"}
           /\ \A s \in Runs : run[s].status \in TerminalStatuses => run'[s] = run[s]
BY DEF RunStep, RowStep, Active, ActiveStatuses, TerminalStatuses

\* One active run leads to one active run: a run is opened when none is active.
LEMMA OneActiveStep == TypeOK /\ OneActiveRun /\ RunStep => OneActiveRun'
BY DEF RunStep, RowStep, OneActiveRun, ActiveRuns, Active, ActiveStatuses

\* Only opened runs get a job, an engine or a snapshot.
LEMMA OpenedStep == TypeOK /\ SyncInvariant /\ [Next]_vars => Opened'
<1> SUFFICES ASSUME TypeOK, SyncInvariant, [Next]_vars PROVE Opened'
  OBVIOUS
<1>0. /\ engine \in [Workers -> EngineRow]
      /\ call \in [Calls -> CallRow]
      /\ job \in [Runs -> JobRow]
      /\ run \in [Runs -> RunRow]
      /\ \A w \in Workers : DOMAIN engine[w] = {"pc", "run", "account", "elapsed"}
  BY DEF TypeOK, EngineRow
<1>7. /\ \A s \in Runs : run[s].status # "NONE" => run'[s].status # "NONE"
      /\ Opened /\ Assigned
  BY RunSteps, RowFacts DEF SyncInvariant
<1>1. ASSUME NEW c \in Calls, CallStep(c) PROVE Opened'
  <2>1. CASE StartCall(c)
    <3>1. CASE Snapshot(c, "start", FALSE)
      BY <2>1, <3>1, <1>0, <1>7 DEF StartCall, Snapshot, ActiveRuns, Active, ActiveStatuses,
         Opened, Assigned, envVars
    <3>2. CASE call' = [call EXCEPT ![c] = [NoCall EXCEPT !.pc = "create", !.kind = "start"]]
      BY <2>1, <3>2, <1>0, <1>7 DEF StartCall, NoCall, Opened, Assigned, envVars
    <3> QED BY <2>1, <3>1, <3>2 DEF StartCall
  <2>2. CASE CurrentCall(c)
    BY <2>2, <1>0, <1>7 DEF CurrentCall, Snapshot, ActiveRuns, Active, ActiveStatuses,
       NoCall, Opened, Assigned, envVars
  <2>3. CASE DisconnectCall(c)
    <3>1. CASE Snapshot(c, "disconnect", FALSE)
      BY <2>3, <3>1, <1>0, <1>7 DEF DisconnectCall, Snapshot, ActiveRuns, Active, ActiveStatuses,
         Opened, Assigned, envVars
    <3>2. CASE call' = [call EXCEPT ![c] = [NoCall EXCEPT !.pc = "assert", !.kind = "disconnect"]]
      BY <2>3, <3>2, <1>0, <1>7 DEF DisconnectCall, NoCall, Opened, Assigned, envVars
    <3> QED BY <2>3, <3>1, <3>2 DEF DisconnectCall
  <2>4. CASE PlanTick(c)
    BY <2>4, <1>0, <1>7 DEF PlanTick, NoCall, CallRow,
       Opened, Assigned, envVars
  <2>5. CASE Probe(c)
    BY <2>5, <1>0, <1>7 DEF Probe, Reconciled, Goto, Finish, NoCall, CallRow,
       Opened, Assigned, envVars
  <2>6. CASE ProbeUnknown(c)
    BY <2>6, <1>0, <1>7 DEF ProbeUnknown, Reconciled, Goto, Finish, NoCall, CallRow,
       Opened, Assigned, envVars
  <2>7. CASE Release(c)
    BY <2>7, <1>0, <1>7 DEF Release, Reconciled, Goto, Finish, NoCall, CallRow,
       Opened, Assigned, envVars
  <2>8. CASE Create(c)
    BY <2>8, <1>0, <1>7 DEF Create, CreatePending, RunRow, Opened, Assigned, envVars
  <2>9. CASE CreateViolation(c)
    BY <2>9, <1>0, <1>7 DEF CreateViolation, Goto, Finish, NoCall, CallRow,
       Opened, Assigned, envVars
  <2>10. CASE Reread(c)
    BY <2>10, <1>0, <1>7 DEF Reread, Snapshot, ActiveRuns, Finish, Active, ActiveStatuses,
       NoCall, Opened, Assigned, envVars
  <2>11. CASE Enqueue(c)
    <3>1. \A s \in Runs : job'[s].state # "missing" => job[s].state # "missing" \/ s = call[c].run
      BY <2>11, <1>0 DEF Enqueue, Waiting, JobRow
    <3>2. UNCHANGED << run, engine >> /\ call[c].pc = "enqueue"
      BY <2>11 DEF Enqueue
    <3> QED BY <2>11, <3>1, <3>2, <1>0, <1>7 DEF Enqueue, Finish, NoCall, CallRow, Opened, Assigned
  <2>12. CASE EnqueueError(c)
    <3>1. \A s \in Runs : job'[s].state # "missing" => job[s].state # "missing" \/ s = call[c].run
      BY <2>12, <1>0 DEF EnqueueError, Waiting, JobRow
    <3>2. UNCHANGED << run, engine >> /\ call[c].pc = "enqueue"
      BY <2>12 DEF EnqueueError
    <3> QED BY <2>12, <3>1, <3>2, <1>0, <1>7 DEF EnqueueError, Goto, NoCall, CallRow, Opened, Assigned
  <2>13. CASE EnqueueFailed(c)
    BY <2>13, <1>0, <1>7 DEF EnqueueFailed, Finish, NoCall, CallRow,
       Opened, Assigned, envVars
  <2>14. CASE AssertIdle(c)
    BY <2>14, <1>0, <1>7 DEF AssertIdle, Goto, Finish, NoCall, CallRow,
       Opened, Assigned, envVars
  <2>15. CASE Disconnect(c)
    BY <2>15, <1>0, <1>7 DEF Disconnect, Finish, NoCall, CallRow,
       Opened, Assigned, envVars
  <2>16. CASE AbortCall(c)
    BY <2>16, <1>0, <1>7 DEF AbortCall, Finish, NoCall, CallRow,
       Opened, Assigned, envVars
  <2> QED BY <1>1, <2>1, <2>2, <2>3, <2>4, <2>5, <2>6, <2>7, <2>8, <2>9, <2>10, <2>11, <2>12, <2>13, <2>14, <2>15, <2>16
     DEF CallStep
<1>2. ASSUME NEW w \in Workers, EngineStep(w) PROVE Opened'
  <2>1. UNCHANGED << job, call >>
    BY <1>2, Footprints
  <2>2. \A v \in Workers : engine'[v].pc \notin {"idle", "down"}
           => engine[v].pc \notin {"idle", "down"} /\ engine'[v].run = engine[v].run
    BY <1>2, EngineKeepsRun
  <2> QED BY <2>1, <2>2, <1>7 DEF Opened, Assigned
<1>3. ASSUME NEW w \in Workers, WorkerStep(w) PROVE Opened'
  <2>1. ASSUME NEW r \in Runs, Activate(w, r) PROVE Opened'
    BY <2>1, <1>0, <1>7 DEF Activate, Idle, JobRow, Opened, Assigned, envVars
  <2>2. CASE JobCompleted(w)
    BY <2>2, <1>0, <1>7 DEF JobCompleted, Removed, NoJob, Stop, Idle, Opened, Assigned, envVars
  <2>3. CASE JobFailed(w)
    BY <2>3, <1>0, <1>7 DEF JobFailed, At, FailedJob, NoJob, Stop, Idle, Opened, Assigned, envVars
  <2>4. CASE Crash(w)
    BY <2>4, <1>0, <1>7 DEF Crash, Down, Idle, Opened, Assigned, envVars
  <2>5. CASE Restart(w)
    BY <2>5, <1>0, <1>7 DEF Restart, Stop, Idle, Opened, Assigned, envVars
  <2> QED BY <1>3, <2>1, <2>2, <2>3, <2>4, <2>5
     DEF WorkerStep
<1>4. ASSUME NEW r \in Runs, QueueStep(r) PROVE Opened'
  <2>1. CASE Stall(r)
    BY <2>1, <1>0, <1>7 DEF Stall, FailedJob, NoJob, Opened, Assigned, envVars
  <2>2. CASE HandleFailed(r)
    BY <2>2, <1>0, <1>7 DEF HandleFailed, Opened, Assigned, envVars
  <2>3. CASE LoseFailedEvent(r)
    BY <2>3, <1>0, <1>7 DEF LoseFailedEvent, Opened, Assigned, envVars
  <2> QED BY <1>4, <2>1, <2>2, <2>3
     DEF QueueStep
<1>5. CASE Environment
  <2>1. ASSUME NEW a \in Accounts, Reconnect(a) PROVE Opened'
    BY <2>1, <1>0, <1>7 DEF Reconnect, Opened, Assigned, envVars
  <2>2. CASE IntegrationUpdated
    BY <2>2, <1>0, <1>7 DEF IntegrationUpdated, Opened, Assigned, envVars
  <2>3. CASE SetTenantStatus
    BY <2>3, <1>0, <1>7 DEF SetTenantStatus, Opened, Assigned, envVars
  <2>4. CASE Tick
    BY <2>4, <1>0, <1>7 DEF Tick, Opened, Assigned, CallRow, EngineRow
  <2> QED BY <1>5, <2>1, <2>2, <2>3, <2>4
     DEF Environment
<1>6. CASE UNCHANGED vars
  BY <1>6, <1>7 DEF vars, Opened
<1> QED BY <1>1, <1>2, <1>3, <1>4, <1>5, <1>6 DEF Next

\* An engine fetches only after it has marked its run RUNNING, or found it ended.
LEMMA BegunStep == TypeOK /\ SyncInvariant /\ [Next]_vars => Begun'
<1> SUFFICES ASSUME TypeOK, SyncInvariant, [Next]_vars PROVE Begun'
  OBVIOUS
<1> DEFINE Past == {"first", "pages", "hot", "success"}
           Fetched(w) == engine[w].pc \in Past
           Kept(w) == engine'[w].pc \in Past => Fetched(w) /\ engine'[w].run = engine[w].run
<1>0. /\ engine \in [Workers -> EngineRow]
      /\ \A w \in Workers : DOMAIN engine[w] = {"pc", "run", "account", "elapsed"}
      /\ run \in [Runs -> RunRow]
  BY DEF TypeOK, EngineRow
<1>7. /\ \A s \in Runs : run[s].status \notin {"NONE", "PENDING"}
                          => run'[s].status \notin {"NONE", "PENDING"}
      /\ Opened /\ Assigned /\ Begun
  BY RunSteps, RowFacts DEF SyncInvariant
<1>8. (\A w \in Workers : Kept(w)) => Begun'
  BY <1>7 DEF Begun, Assigned
<1>9. UNCHANGED engine => Begun'
  BY <1>8
<1>1. ASSUME NEW c \in Calls, CallStep(c) PROVE Begun'
  BY <1>1, <1>9, Footprints
<1>2. ASSUME NEW w \in Workers, EngineStep(w) PROVE Begun'
  <2>1. CASE Load(w)
    BY <2>1, <1>0, <1>8 DEF Load, At, Step
  <2>2. CASE Mark(w)
    <3> DEFINE r == engine[w].run
    <3>1. r \in Runs /\ run[r].status # "NONE"
      BY <2>2, <1>7 DEF Mark, At, Opened, Assigned
    <3>2. run'[r].status \notin {"NONE", "PENDING"}
      BY <2>2, <3>1, <1>0 DEF Mark, MarkRunning, Active, ActiveStatuses, RunRow
    <3>3. \A v \in Workers \ {w} : Kept(v)
      BY <2>2, <1>0 DEF Mark, Step
    <3>4. engine'[w].run = r
      BY <2>2, <1>0 DEF Mark, Step
    <3> QED BY <3>2, <3>3, <3>4, <1>7 DEF Begun, Assigned
  <2>3. CASE FetchPage(w)
    <3>1. Fetched(w)
      BY <2>3 DEF FetchPage, Fetching
    <3>2. CASE Leave(w, "fail")
      BY <3>2, <1>0, <1>8 DEF Leave, Idle
    <3>3. CASE Step(w, "pages") \/ Step(w, engine[w].pc)
      BY <3>1, <3>3, <1>0, <1>8 DEF Step
    <3> QED BY <2>3, <3>2, <3>3 DEF FetchPage
  <2>4. CASE AdvanceCursor(w)
    BY <2>4, <1>0, <1>8 DEF AdvanceCursor, At, Step
  <2>5. CASE Unauthorized(w)
    BY <2>5, <1>0, <1>8 DEF Unauthorized, Leave, Idle
  <2>6. CASE EngineError(w)
    BY <2>6, <1>0, <1>8 DEF EngineError, Leave, Idle
  <2>7. CASE Recheck(w)
    <3>1. CASE Leave(w, "success")
      <4>1. engine'[w].run = engine[w].run /\ Fetched(w)
        BY <2>7, <3>1, <1>0 DEF Recheck, Leave, Idle
      <4> QED BY <3>1, <4>1, <1>0, <1>8 DEF Leave
    <3>2. CASE Leave(w, "fail")
      BY <3>2, <1>0, <1>8 DEF Leave, Idle
    <3> QED BY <2>7, <3>1, <3>2 DEF Recheck
  <2>8. CASE Succeed(w)
    BY <2>8, <1>0, <1>8 DEF Succeed, At, Step
  <2>9. CASE Fail(w)
    BY <2>9, <1>0, <1>8 DEF Fail, At, Step
  <2>10. CASE FailLost(w)
    BY <2>10, <1>0, <1>8 DEF FailLost, At, Step
  <2> QED BY <1>2, <2>1, <2>2, <2>3, <2>4, <2>5, <2>6, <2>7, <2>8, <2>9, <2>10
     DEF EngineStep
<1>3. ASSUME NEW w \in Workers, WorkerStep(w) PROVE Begun'
  <2>1. ASSUME NEW r \in Runs, Activate(w, r) PROVE Begun'
    BY <2>1, <1>0, <1>8 DEF Activate, Idle
  <2>2. CASE JobCompleted(w)
    BY <2>2, <1>0, <1>8 DEF JobCompleted, Stop, Idle
  <2>3. CASE JobFailed(w)
    BY <2>3, <1>0, <1>8 DEF JobFailed, Stop, Idle
  <2>4. CASE Crash(w)
    BY <2>4, <1>0, <1>8 DEF Crash, Down, Idle
  <2>5. CASE Restart(w)
    BY <2>5, <1>0, <1>8 DEF Restart, Stop, Idle
  <2> QED BY <1>3, <2>1, <2>2, <2>3, <2>4, <2>5 DEF WorkerStep
<1>4. ASSUME NEW r \in Runs, QueueStep(r) PROVE Begun'
  BY <1>4, <1>9, Footprints
<1>5. CASE Environment
  <2>1. CASE Tick
    BY <2>1, <1>0, <1>8 DEF Tick
  <2> QED BY <1>5, <2>1, <1>9, Footprints
<1>6. CASE UNCHANGED vars
  BY <1>6, <1>9 DEF vars
<1> QED BY <1>1, <1>2, <1>3, <1>4, <1>5, <1>6 DEF Next

\* What a step of a call comes to, for the runs and jobs it knows: it takes a snapshot,
\* finds the run of its snapshot orphan, has opened a run, or goes on without a run,
\* having queued a job only if that was its business.
TookSnapshot(c) ==
    /\ \E r \in ActiveRuns :
          /\ call'[c].pc = "probe" /\ call'[c].run = r /\ call'[c].age = run[r].age
    /\ UNCHANGED << run, job >>
FoundOrphan(c) ==
    /\ call[c].pc = "probe"
    /\ call[c].age >= Timeout
    /\ ~ Living(job[call[c].run].state)
    /\ call'[c].pc = "release" /\ call'[c].run = call[c].run
    /\ UNCHANGED << run, job >>
HasOpened(c) ==
    /\ run[call'[c].run].status = "NONE" /\ call'[c].run \in Runs
    /\ run'[call'[c].run].age = Started(c)
    /\ call'[c].pc = "enqueue" /\ call'[c].age = Started(c)
    /\ call[c].pc = "create" /\ UNCHANGED job
WentOn(c) ==
    /\ call'[c].pc \notin {"probe", "release", "enqueue"}
    /\ call'[c].pc = "create" /\ call'[c].kind = "plan" => call'[c].age < Timeout
    /\ \/ UNCHANGED job
       \/ call[c].pc = "enqueue" /\ job' = Waiting(call[c].run)

\* A move of a call that needs no look at the runs.
LEMMA PlainMoves ==
    ASSUME TypeOK, NEW c \in Calls
    PROVE  /\ NoCall.pc = "idle"
           /\ Finish(c) => call'[c].pc = "idle"
           /\ Goto(c, "assert") => call'[c].pc = "assert"
           /\ Goto(c, "create") => call'[c].pc = "create" /\ call'[c].kind = call[c].kind
           /\ Goto(c, "reread") => call'[c].pc = "reread"
           /\ Goto(c, "enqueueFailed") => call'[c].pc = "enqueueFailed"
           /\ Goto(c, "disconnect") => call'[c].pc = "disconnect"
           /\ Goto(c, "release") => call'[c].pc = "release" /\ call'[c].run = call[c].run
BY DEF TypeOK, CallRow, Goto, Finish, NoCall

\* The other calls stay where they are.
LEMMA CallsApart ==
    ASSUME TypeOK, NEW c \in Calls, CallStep(c)
    PROVE  \A d \in Calls \ {c} : call'[d] = call[d]
<1> DEFINE Apart == \A d \in Calls \ {c} : call'[d] = call[d]
<1>1. call \in [Calls -> CallRow]
  BY DEF TypeOK
<1>2. (\E row : call' = [call EXCEPT ![c] = row]) => Apart
  BY <1>1
<1>3. Finish(c) => Apart
  BY <1>2 DEF Finish
<1>4. ASSUME NEW pc, Goto(c, pc) PROVE Apart
  BY <1>1, <1>4 DEF Goto
<1>5. ASSUME NEW kind, NEW retry, Snapshot(c, kind, retry) PROVE Apart
  BY <1>2, <1>5 DEF Snapshot
<1>6. ASSUME NEW released, Reconciled(c, released) PROVE Apart
  BY <1>3, <1>4, <1>6 DEF Reconciled
<1>7. CASE StartCall(c) \/ CurrentCall(c) \/ DisconnectCall(c) \/ PlanTick(c)
  BY <1>7, <1>2, <1>5 DEF StartCall, CurrentCall, DisconnectCall, PlanTick
<1>8. CASE Probe(c) \/ ProbeUnknown(c) \/ Release(c)
  BY <1>8, <1>4, <1>6 DEF Probe, ProbeUnknown, Release
<1>9. CASE Create(c)
  BY <1>9, <1>1 DEF Create
<1>10. CASE CreateViolation(c) \/ Reread(c)
  BY <1>10, <1>3, <1>4, <1>5 DEF CreateViolation, Reread
<1>11. CASE Enqueue(c) \/ EnqueueError(c) \/ EnqueueFailed(c) \/ AssertIdle(c)
  BY <1>11, <1>3, <1>4 DEF Enqueue, EnqueueError, EnqueueFailed, AssertIdle
<1>12. CASE Disconnect(c) \/ AbortCall(c)
  BY <1>12, <1>3 DEF Disconnect, AbortCall
<1> QED BY <1>7, <1>8, <1>9, <1>10, <1>11, <1>12 DEF CallStep

\* Every step of a call is one of the four.
LEMMA CallMoves ==
    ASSUME TypeOK, NEW c \in Calls, CallStep(c)
    PROVE  TookSnapshot(c) \/ FoundOrphan(c) \/ HasOpened(c) \/ WentOn(c)
<1>0. call \in [Calls -> CallRow] /\ run \in [Runs -> RunRow]
  BY DEF TypeOK
<1>1. ASSUME NEW kind, NEW retry, Snapshot(c, kind, retry), UNCHANGED << run, job >>
      PROVE  TookSnapshot(c)
  BY <1>0, <1>1 DEF Snapshot, TookSnapshot
<1>2. ASSUME NEW released, Reconciled(c, released), UNCHANGED job PROVE WentOn(c)
  BY <1>2, PlainMoves DEF Reconciled, WentOn
<1>3. CASE StartCall(c) \/ CurrentCall(c) \/ DisconnectCall(c) \/ PlanTick(c)
  <2>1. UNCHANGED << run, job >>
    BY <1>3 DEF StartCall, CurrentCall, DisconnectCall, PlanTick
  <2>2. \/ Snapshot(c, "start", FALSE) \/ Snapshot(c, "current", FALSE)
        \/ Snapshot(c, "disconnect", FALSE)
        \/ call' = [call EXCEPT ![c] = [NoCall EXCEPT !.pc = "create", !.kind = "start"]]
        \/ call' = [call EXCEPT ![c] = [NoCall EXCEPT !.pc = "assert", !.kind = "disconnect"]]
        \/ \E age \in 0 .. Timeout - 1 :
              call' = [call EXCEPT ![c] = [NoCall EXCEPT !.pc = "create", !.kind = "plan", !.age = age]]
    BY <1>3 DEF StartCall, CurrentCall, DisconnectCall, PlanTick
  <2>3. CASE call' = [call EXCEPT ![c] = [NoCall EXCEPT !.pc = "create", !.kind = "start"]]
    BY <2>1, <2>3, <1>0 DEF NoCall, WentOn
  <2>4. CASE call' = [call EXCEPT ![c] = [NoCall EXCEPT !.pc = "assert", !.kind = "disconnect"]]
    BY <2>1, <2>4, <1>0 DEF NoCall, WentOn
  <2>5. CASE \E age \in 0 .. Timeout - 1 :
               call' = [call EXCEPT ![c] = [NoCall EXCEPT !.pc = "create", !.kind = "plan", !.age = age]]
    BY <2>1, <2>5, <1>0, SyncAssumption DEF NoCall, WentOn
  <2> QED BY <2>1, <2>2, <2>3, <2>4, <2>5, <1>1
<1>4. CASE Probe(c)
  <2>1. CASE IsOrphan(call[c].age, job[call[c].run].state) /\ Goto(c, "release")
    BY <1>4, <2>1, PlainMoves DEF Probe, IsOrphan, FoundOrphan
  <2>2. CASE Reconciled(c, FALSE)
    BY <1>4, <2>2, <1>2 DEF Probe
  <2> QED BY <1>4, <2>1, <2>2 DEF Probe
<1>5. CASE ProbeUnknown(c) \/ Release(c)
  BY <1>5, <1>2 DEF ProbeUnknown, Release
<1>6. CASE Create(c)
  <2>1. PICK r \in Runs :
           /\ run[r].status = "NONE"
           /\ \E trigger : run' = [run EXCEPT ![r] = [status |-> "PENDING",
                              trigger |-> trigger, age |-> Started(c)]]
           /\ call' = [call EXCEPT ![c].pc = "enqueue", ![c].run = r, ![c].age = Started(c)]
    BY <1>6 DEF Create, CreatePending
  <2>2. run'[r].age = Started(c)
    BY <2>1, <1>0
  <2>3. call'[c].run = r /\ call'[c].pc = "enqueue" /\ call'[c].age = Started(c)
    BY <2>1, <1>0 DEF CallRow
  <2>4. call[c].pc = "create" /\ UNCHANGED job
    BY <1>6 DEF Create
  <2> QED BY <2>1, <2>2, <2>3, <2>4 DEF HasOpened
<1>7. CASE CreateViolation(c)
  BY <1>7, PlainMoves DEF CreateViolation, WentOn
<1>8. CASE Reread(c)
  BY <1>8, <1>1, PlainMoves DEF Reread, WentOn
<1>9. CASE Enqueue(c) \/ EnqueueError(c)
  BY <1>9, PlainMoves DEF Enqueue, EnqueueError, WentOn
<1>10. CASE EnqueueFailed(c) \/ AssertIdle(c) \/ Disconnect(c) \/ AbortCall(c)
  BY <1>10, PlainMoves DEF EnqueueFailed, AssertIdle, Disconnect, AbortCall, WentOn
<1> QED BY <1>3, <1>4, <1>5, <1>6, <1>7, <1>8, <1>9, <1>10 DEF CallStep

\* A run's row gets older only with the call that still has to queue its job.
LEMMA FreshStep == TypeOK /\ SyncInvariant /\ [Next]_vars => Fresh'
<1> SUFFICES ASSUME TypeOK, SyncInvariant, [Next]_vars PROVE Fresh'
  OBVIOUS
<1>0. /\ call \in [Calls -> CallRow] /\ run \in [Runs -> RunRow]
      /\ \A c \in Calls : call[c].age \in Nat
      /\ \A s \in Runs : run[s].age \in Nat
      /\ Timeout \in Nat \ {0}
  BY SyncAssumption DEF TypeOK, CallRow, RunRow
<1>7. /\ Fresh /\ Opened /\ Assigned
      /\ Tick \/ \A s \in Runs : run[s].status # "NONE" => run'[s].age \in {0, run[s].age}
      /\ \A s \in Runs : run[s].status # "NONE" => run'[s].status # "NONE"
  BY RunSteps, RowFacts DEF SyncInvariant, RunStep
<1>1. CASE Tick
  <2>1. \A s \in Runs : run'[s].age \in {run[s].age, Older(run[s].age, Timeout)}
    BY <1>1, <1>0 DEF Tick, RunRow
  <2>2. \A c \in Calls : /\ call'[c].pc = call[c].pc /\ call'[c].run = call[c].run
                         /\ call'[c].kind = call[c].kind
                         /\ call[c].pc = "probe" \/ Opening(c)
                               => call'[c].age = Older(call[c].age, Timeout)
    BY <1>1, <1>0 DEF Tick, CallRow
  <2>3. \A d \in Calls : Opening(d)
           => /\ call[d].age + 1 < Timeout
              /\ call'[d].age = call[d].age + 1
    <3> SUFFICES ASSUME NEW d \in Calls, Opening(d)
                 PROVE  call[d].age + 1 < Timeout /\ call'[d].age = call[d].age + 1
      OBVIOUS
    <3>1. call[d].age + 1 < Timeout
      BY <1>1 DEF Tick, EnqueueIsPrompt
    <3>2. call'[d].age = Older(call[d].age, Timeout)
      BY <2>2
    <3> QED BY <3>1, <3>2, <1>0 DEF Older
  <2>6. ASSUME NEW d \in Calls, Opening(d)'
        PROVE  call'[d].age < Timeout
    BY <1>0, <2>2, <2>3, <2>6 DEF Opening
  <2>4. ASSUME NEW d \in Calls, call'[d].pc = "enqueue"
        PROVE  run'[call'[d].run].age <= call'[d].age
    <3>1. /\ call[d].pc = "enqueue" /\ call'[d].run = call[d].run /\ call[d].run \in Runs
          /\ run[call[d].run].age <= call[d].age
      BY <2>2, <2>4, <1>7 DEF Fresh, Assigned
    <3> QED BY <3>1, <2>1, <2>3, <1>0 DEF Older, Opening
  <2>5. ASSUME NEW d \in Calls, call'[d].pc = "enqueue",
               NEW c \in Calls, call'[c].run = call'[d].run
        PROVE  /\ call'[c].pc = "probe" => call'[c].age <= call'[d].age
               /\ call'[c].pc # "release"
    <3>1. /\ call[d].pc = "enqueue" /\ call[c].run = call[d].run
          /\ call[c].pc = "probe" => call[c].age <= call[d].age
          /\ call[c].pc # "release"
      BY <2>2, <2>5, <1>7 DEF Fresh
    <3>2. call[c].pc = "probe" => call'[c].age <= call[c].age + 1
      BY <2>2, <1>0 DEF Older
    <3>3. call'[c].age \in Nat \/ call[c].pc # "probe"
      BY <2>2, <1>0 DEF Older
    <3> QED BY <3>1, <3>2, <3>3, <2>2, <2>3, <1>0 DEF Opening
  <2> QED BY <2>4, <2>5, <2>6 DEF Fresh
<1>2. ASSUME ~ Tick, UNCHANGED call PROVE Fresh'
  BY <1>2, <1>0, <1>7 DEF Fresh, Assigned, Opened, Opening
<1>3. ASSUME ~ Tick, NEW c \in Calls, CallStep(c) PROVE Fresh'
  <2>1. \A s \in Runs : run[s].status # "NONE" => run'[s].age \in {0, run[s].age}
    BY <1>3, <1>7
  <2>2. \A d \in Calls \ {c} : call'[d] = call[d]
    BY <1>3, CallsApart
  <2>8. \A d \in Calls \ {c} : Opening(d)' => call'[d].age < Timeout
    BY <2>2, <1>7 DEF Fresh, Opening
  <2>3. \A d \in Calls \ {c} : call'[d].pc = "enqueue"
           => /\ run'[call'[d].run].age <= call'[d].age
              /\ \A b \in Calls \ {c} : call'[b].run = call'[d].run =>
                    /\ call'[b].pc = "probe" => call'[b].age <= call'[d].age
                    /\ call'[b].pc # "release"
    BY <2>1, <2>2, <1>0, <1>7 DEF Fresh, Assigned, Opened
  <2>4. CASE WentOn(c)
    BY <2>3, <2>4, <2>8 DEF Fresh, WentOn, Opening
  <2>5. CASE TookSnapshot(c)
    BY <2>2, <2>3, <2>5, <2>8, <1>7 DEF Fresh, TookSnapshot, Opening
  <2>6. CASE FoundOrphan(c)
    <3>1. \A d \in Calls \ {c} : call'[d].pc = "enqueue" => call'[d].run # call'[c].run
      BY <2>2, <2>6, <1>0, <1>7 DEF Fresh, FoundOrphan, Opening
    <3> QED BY <2>3, <2>6, <2>8, <3>1 DEF Fresh, FoundOrphan, Opening
  <2>7. CASE HasOpened(c)
    <3>1. \A d \in Calls \ {c} : call'[d].pc \in {"probe", "release", "enqueue"}
                                   => call'[d].run # call'[c].run
      BY <2>2, <2>7, <1>7 DEF HasOpened, Opened
    <3>2. call'[c].age < Timeout /\ run'[call'[c].run].age <= call'[c].age
      BY <2>7, <1>0, <1>7 DEF HasOpened, Started, Fresh, Opening
    <3> QED BY <2>3, <2>7, <2>8, <3>1, <3>2 DEF Fresh, HasOpened, Opening
  <2> QED BY <1>3, <2>4, <2>5, <2>6, <2>7, CallMoves
<1>4. ASSUME ~ Tick, NEW w \in Workers, EngineStep(w) \/ WorkerStep(w) PROVE Fresh'
  BY <1>4, <1>2, Footprints
<1>5. ASSUME ~ Tick, NEW r \in Runs, QueueStep(r) PROVE Fresh'
  BY <1>5, <1>2, Footprints
<1>6. CASE ~ Tick /\ (Environment \/ UNCHANGED vars)
  BY <1>6, <1>2, Footprints DEF vars
<1> QED BY <1>1, <1>3, <1>4, <1>5, <1>6 DEF Next

\* A job that is dead when its run is probed stays dead until the run is released: only
\* the call that opened the run queues it, and that call is done or gone.
LEMMA DeadStep == TypeOK /\ SyncInvariant /\ [Next]_vars => ReleasedIsDead'
<1> SUFFICES ASSUME TypeOK, SyncInvariant, [Next]_vars PROVE ReleasedIsDead'
  OBVIOUS
<1> DEFINE StaysDead(s) == ~ Living(job[s].state) => ~ Living(job'[s].state)
<1>0. /\ call \in [Calls -> CallRow] /\ job \in [Runs -> JobRow]
      /\ Fresh /\ Assigned /\ ReleasedIsDead
  BY DEF TypeOK, SyncInvariant
<1>1. ASSUME UNCHANGED call, \A s \in Runs : StaysDead(s) PROVE ReleasedIsDead'
  BY <1>1, <1>0 DEF ReleasedIsDead, Assigned
<1>2. UNCHANGED job => \A s \in Runs : StaysDead(s)
  OBVIOUS
<1>3. ASSUME NEW c \in Calls, CallStep(c) PROVE ReleasedIsDead'
  <2>1. \A d \in Calls \ {c} : call'[d] = call[d]
    BY <1>3, CallsApart
  <2>2. CASE WentOn(c)
    <3>1. \A d \in Calls : call[d].pc = "release" => job'[call[d].run] = job[call[d].run]
      <4>1. CASE UNCHANGED job
        BY <4>1
      <4>2. CASE call[c].pc = "enqueue" /\ job' = Waiting(call[c].run)
        <5>1. \A d \in Calls : call[d].pc = "release" => call[d].run # call[c].run
          BY <4>2, <1>0 DEF Fresh
        <5>2. \A s \in Runs : s # call[c].run => job'[s] = job[s]
          BY <4>2, <1>0 DEF Waiting
        <5> QED BY <5>1, <5>2, <1>0 DEF Assigned
      <4> QED BY <2>2, <4>1, <4>2 DEF WentOn
    <3> QED BY <2>1, <2>2, <3>1, <1>0 DEF WentOn, ReleasedIsDead
  <2>3. CASE TookSnapshot(c)
    BY <2>1, <2>3, <1>0 DEF TookSnapshot, ReleasedIsDead
  <2>4. CASE FoundOrphan(c)
    BY <2>1, <2>4, <1>0 DEF FoundOrphan, ReleasedIsDead
  <2>5. CASE HasOpened(c)
    BY <2>1, <2>5, <1>0 DEF HasOpened, ReleasedIsDead
  <2> QED BY <1>3, <2>2, <2>3, <2>4, <2>5, CallMoves
<1>4. ASSUME NEW w \in Workers, EngineStep(w) PROVE ReleasedIsDead'
  BY <1>4, <1>1, <1>2, Footprints
<1>5. ASSUME NEW w \in Workers, WorkerStep(w) PROVE ReleasedIsDead'
  <2>1. ASSUME NEW r \in Runs, Activate(w, r) PROVE \A s \in Runs : StaysDead(s)
    <3>1. Living(job[r].state)
      BY <2>1 DEF Activate, Living, LivingJobStates
    <3>2. \A s \in Runs \ {r} : job'[s] = job[s]
      BY <2>1, <1>0 DEF Activate
    <3> QED BY <3>1, <3>2
  <2>2. ASSUME JobCompleted(w) PROVE \A s \in Runs : StaysDead(s)
    BY <2>2, <1>0 DEF JobCompleted, Removed, NoJob, Living, LivingJobStates
  <2>3. ASSUME JobFailed(w) PROVE \A s \in Runs : StaysDead(s)
    BY <2>3, <1>0 DEF JobFailed, FailedJob, NoJob, Living, LivingJobStates
  <2>4. ASSUME Crash(w) \/ Restart(w) PROVE \A s \in Runs : StaysDead(s)
    BY <2>4 DEF Crash, Restart
  <2>5. UNCHANGED call
    BY <1>5, Footprints
  <2> QED BY <1>5, <1>1, <2>1, <2>2, <2>3, <2>4, <2>5 DEF WorkerStep
<1>6. ASSUME NEW r \in Runs, QueueStep(r) PROVE ReleasedIsDead'
  <2>1. CASE Stall(r)
    <3>1. Living(job[r].state)
      BY <2>1 DEF Stall, Living, LivingJobStates
    <3>2. \A s \in Runs \ {r} : job'[s] = job[s]
      BY <2>1, <1>0 DEF Stall
    <3> QED BY <3>1, <3>2, <1>1, <1>6, Footprints
  <2>2. CASE HandleFailed(r) \/ LoseFailedEvent(r)
    BY <2>2, <1>1, <1>2, <1>6, Footprints DEF HandleFailed, LoseFailedEvent
  <2> QED BY <1>6, <2>1, <2>2 DEF QueueStep
<1>7. CASE Environment
  <2>1. CASE Tick
    <3>1. \A c \in Calls : call'[c].pc = call[c].pc /\ call'[c].run = call[c].run
      BY <2>1, <1>0 DEF Tick, CallRow
    <3>2. UNCHANGED job
      BY <2>1 DEF Tick
    <3> QED BY <3>1, <3>2, <1>0 DEF ReleasedIsDead
  <2> QED BY <1>7, <2>1, <1>1, <1>2, Footprints
<1>8. CASE UNCHANGED vars
  BY <1>8, <1>1, <1>2 DEF vars
<1> QED BY <1>3, <1>4, <1>5, <1>6, <1>7, <1>8 DEF Next

\* Only the planner makes a call of its kind, and only of an integration with a baseline.
LEMMA PlanSteps ==
    ASSUME TypeOK, NEW c \in Calls, CallStep(c), call'[c].kind = "plan"
    PROVE  call[c].kind = "plan" \/ baseline # Never
<1>0. call \in [Calls -> CallRow]
  BY DEF TypeOK
<1>1. ASSUME NEW pc, Goto(c, pc) PROVE call'[c].kind = call[c].kind
  BY <1>0, <1>1 DEF Goto, CallRow
<1>2. ~ Finish(c)
  BY <1>0 DEF Finish, NoCall
<1>3. ASSUME NEW retry PROVE /\ ~ Snapshot(c, "start", retry)
                             /\ ~ Snapshot(c, "current", retry)
                             /\ ~ Snapshot(c, "disconnect", retry)
  BY <1>0 DEF Snapshot
<1>4. ASSUME NEW released, Reconciled(c, released) PROVE call'[c].kind = call[c].kind
  BY <1>1, <1>2, <1>4 DEF Reconciled
<1>5. ~ StartCall(c) /\ ~ CurrentCall(c) /\ ~ DisconnectCall(c)
  BY <1>0, <1>3 DEF StartCall, CurrentCall, DisconnectCall, NoCall
<1>6. PlanTick(c) => baseline # Never
  BY DEF PlanTick, AutoSyncEligible
<1>7. Probe(c) \/ ProbeUnknown(c) \/ Release(c) => call'[c].kind = call[c].kind
  BY <1>1, <1>4 DEF Probe, ProbeUnknown, Release
<1>8. Create(c) => call'[c].kind = call[c].kind
  BY <1>0 DEF Create, CallRow
<1>9. CreateViolation(c) \/ Reread(c) \/ Enqueue(c) \/ EnqueueError(c)
         => call'[c].kind = call[c].kind
  BY <1>1, <1>2, <1>3 DEF CreateViolation, Reread, Enqueue, EnqueueError
<1>10. EnqueueFailed(c) \/ AssertIdle(c) \/ Disconnect(c) \/ AbortCall(c)
         => call'[c].kind = call[c].kind
  BY <1>1, <1>2 DEF EnqueueFailed, AssertIdle, Disconnect, AbortCall
<1> QED BY <1>5, <1>6, <1>7, <1>8, <1>9, <1>10 DEF CallStep

\* Nothing takes the baseline away, and only a scheduled run moves the cursor.
LEMMA BaselineMoves ==
    ASSUME TypeOK, SyncInvariant, [Next]_vars
    PROVE  /\ baseline # Never => baseline' # Never
           /\ cursor' # NoAccount => cursor # NoAccount \/ baseline # Never
           /\ cursor' = cursor \/ \E w \in Workers : AdvanceCursor(w)
<1> DEFINE Kept == baseline' = baseline /\ cursor' = cursor
<1>0. baseline \in 0..Never /\ Interval \in Nat \ {0}
  BY SyncAssumption DEF TypeOK
<1>1. ASSUME NEW c \in Calls, CallStep(c) PROVE Kept
  BY <1>1 DEF envVars, CallStep, StartCall, CurrentCall, DisconnectCall, PlanTick, Probe,
     ProbeUnknown, Release, Create, CreateViolation, Reread, Enqueue, EnqueueError,
     EnqueueFailed, AssertIdle, Disconnect, AbortCall
<1>2. ASSUME NEW w \in Workers, EngineStep(w)
      PROVE  Kept \/ AdvanceCursor(w) \/ Succeed(w)
  BY <1>2 DEF envVars, EngineStep, Load, Mark, FetchPage, Unauthorized, EngineError,
     Recheck, Fail, FailLost
<1>3. ASSUME NEW w \in Workers, WorkerStep(w) PROVE Kept
  BY <1>3 DEF envVars, WorkerStep, Activate, JobCompleted, JobFailed, Crash, Restart
<1>4. ASSUME NEW r \in Runs, QueueStep(r) PROVE Kept
  BY <1>4 DEF envVars, QueueStep, Stall, HandleFailed, LoseFailedEvent
<1>5. Environment => Kept \/ Tick
  BY DEF Environment, Reconnect, IntegrationUpdated, SetTenantStatus
<1>6. ASSUME NEW w \in Workers, AdvanceCursor(w)
      PROVE  baseline' = baseline /\ baseline # Never
  BY <1>6 DEF AdvanceCursor, At, SyncInvariant, Assigned, Baselined
<1>7. ASSUME NEW w \in Workers, Succeed(w) PROVE cursor' = cursor /\ baseline' # Never
  BY <1>7, <1>0 DEF Succeed, Never
<1>8. Tick => cursor' = cursor /\ (baseline # Never => baseline' # Never)
  BY <1>0 DEF Tick, Older, Never
<1>9. UNCHANGED vars => Kept
  BY DEF vars
<1> QED BY <1>1, <1>2, <1>3, <1>4, <1>5, <1>6, <1>7, <1>8, <1>9 DEF Next

\* So the planner, scheduled runs and the cursor always have a baseline.
LEMMA BaselineStep == TypeOK /\ SyncInvariant /\ [Next]_vars => Baselined'
<1> SUFFICES ASSUME TypeOK, SyncInvariant, [Next]_vars PROVE Baselined'
  OBVIOUS
<1>0. /\ baseline # Never => baseline' # Never
      /\ cursor' # NoAccount => cursor # NoAccount \/ baseline # Never
      /\ Baselined
  BY BaselineMoves DEF SyncInvariant
<1>1. \A r \in Runs : run'[r].trigger = "SCHEDULED" => baseline # Never
  BY <1>0, RunSteps DEF RunStep, Baselined
<1>2. ASSUME NEW d \in Calls, call'[d].kind = "plan" PROVE baseline # Never
  <2>1. CASE call'[d].kind = call[d].kind
    BY <2>1, <1>0, <1>2 DEF Baselined
  <2>2. ASSUME NEW c \in Calls, CallStep(c) PROVE baseline # Never
    <3>1. CASE c = d
      BY <3>1, <2>2, <1>0, <1>2, PlanSteps DEF Baselined
    <3>2. CASE c # d
      BY <3>2, <2>2, <2>1, CallsApart
    <3> QED BY <3>1, <3>2
  <2>3. ASSUME UNCHANGED call PROVE baseline # Never
    BY <2>3, <2>1
  <2>4. CASE Tick
    <3>1. call'[d].kind = call[d].kind
      BY <2>4 DEF Tick, TypeOK, CallRow
    <3> QED BY <3>1, <2>1
  <2>5. UNCHANGED vars => UNCHANGED call
    BY DEF vars
  <2> QED BY <2>2, <2>3, <2>4, <2>5, Footprints DEF Next
<1> QED BY <1>0, <1>1, <1>2 DEF Baselined, IncrementalNeedsBaseline

-----------------------------------------------------------------------------
(* The cursor *)

\* What an engine that has not passed the cursor did last: it goes on with the company it
\* has read, or it has just read one that the cursor allows.
GoesOn(w) ==
    /\ BeforeCursor(w)
    /\ engine'[w].run = engine[w].run /\ engine'[w].account = engine[w].account
HasRead(w) ==
    /\ At(w, "load") /\ cursor' = cursor
    /\ engine'[w].run = engine[w].run
    /\ run[engine[w].run].trigger = "SCHEDULED" => cursor \in {NoAccount, engine'[w].account}

\* The engines that come before the cursor, after a step of one of them.
LEMMA EngineBeforeCursor ==
    ASSUME TypeOK, NEW w \in Workers, EngineStep(w)
    PROVE  \A v \in Workers : BeforeCursor(v)' => GoesOn(v) \/ HasRead(v)
<1>0. /\ engine \in [Workers -> EngineRow]
      /\ \A v \in Workers : DOMAIN engine[v] = {"pc", "run", "account", "elapsed"}
  BY DEF TypeOK, EngineRow
<1>1. ASSUME NEW pc, Step(w, pc), pc \in {"mark", "first", "pages"} => BeforeCursor(w)
      PROVE  \A v \in Workers : BeforeCursor(v)' => GoesOn(v)
  BY <1>0, <1>1 DEF Step, BeforeCursor, GoesOn
<1>2. ASSUME NEW pc, Leave(w, pc), pc \notin {"mark", "first", "pages"}
      PROVE  \A v \in Workers : BeforeCursor(v)' => GoesOn(v)
  BY <1>0, <1>2 DEF Leave, Idle, BeforeCursor, GoesOn
<1>3. CASE Load(w)
  <2> DEFINE r == engine[w].run
             a == IF run[r].trigger = "SCHEDULED" THEN integration.identity ELSE NoAccount
  <2>1. CASE Step(w, "return") \/ Step(w, "fail")
    BY <2>1, <1>1
  <2>2. CASE MayExecute(r) /\ engine' = [engine EXCEPT ![w].pc = "mark", ![w].account = a]
    <3>1. \A v \in Workers \ {w} : engine'[v] = engine[v]
      BY <2>2, <1>0
    <3>2. engine'[w].run = r /\ engine'[w].account = a
      BY <2>2, <1>0
    <3>3. run[r].trigger = "SCHEDULED" => cursor \in {NoAccount, integration.identity}
      BY <2>2 DEF MayExecute, IdentityMismatch
    <3>4. HasRead(w)
      BY <1>3, <3>2, <3>3 DEF Load, HasRead, envVars
    <3> QED BY <3>1, <3>4 DEF BeforeCursor, GoesOn
  <2> QED BY <1>3, <2>1, <2>2 DEF Load
<1>4. CASE Mark(w)
  BY <1>1, <1>4 DEF Mark, At, BeforeCursor
<1>5. CASE FetchPage(w)
  <2>1. CASE Leave(w, "fail")
    BY <2>1, <1>2
  <2>2. CASE Step(w, IF At(w, "first") THEN "pages" ELSE engine[w].pc)
    <3>1. CASE At(w, "first")
      BY <2>2, <3>1, <1>1 DEF At, BeforeCursor
    <3>2. CASE ~ At(w, "first")
      BY <2>2, <3>2, <1>1 DEF BeforeCursor
    <3> QED BY <3>1, <3>2
  <2> QED BY <1>5, <2>1, <2>2 DEF FetchPage
<1>6. CASE AdvanceCursor(w)
  BY <1>1, <1>6 DEF AdvanceCursor
<1>7. CASE Unauthorized(w) \/ EngineError(w) \/ Recheck(w)
  BY <1>2, <1>7 DEF Unauthorized, EngineError, Recheck
<1>8. CASE Succeed(w) \/ Fail(w) \/ FailLost(w)
  BY <1>1, <1>8 DEF Succeed, Fail, FailLost
<1> QED BY <1>3, <1>4, <1>5, <1>6, <1>7, <1>8 DEF EngineStep

\* And after any step.
LEMMA BeforeCursorSteps ==
    ASSUME TypeOK, [Next]_vars
    PROVE  \A v \in Workers : BeforeCursor(v)' => GoesOn(v) \/ HasRead(v)
<1>0. /\ engine \in [Workers -> EngineRow]
      /\ \A v \in Workers : DOMAIN engine[v] = {"pc", "run", "account", "elapsed"}
  BY DEF TypeOK, EngineRow
<1>1. UNCHANGED engine => \A v \in Workers : BeforeCursor(v)' => GoesOn(v)
  BY DEF BeforeCursor, GoesOn
<1>2. ASSUME NEW w \in Workers, WorkerStep(w)
      PROVE  \A v \in Workers : BeforeCursor(v)' => GoesOn(v)
  <2>1. ASSUME NEW r \in Runs, Activate(w, r)
        PROVE  \A v \in Workers : BeforeCursor(v)' => GoesOn(v)
    BY <2>1, <1>0 DEF Activate, Idle, BeforeCursor, GoesOn
  <2>2. CASE JobCompleted(w) \/ JobFailed(w) \/ Restart(w)
    BY <2>2, <1>0 DEF JobCompleted, JobFailed, Restart, Stop, Idle, BeforeCursor, GoesOn
  <2>3. CASE Crash(w)
    BY <2>3, <1>0 DEF Crash, Down, Idle, BeforeCursor, GoesOn
  <2> QED BY <1>2, <2>1, <2>2, <2>3 DEF WorkerStep
<1>3. Tick => \A v \in Workers : BeforeCursor(v)' => GoesOn(v)
  BY <1>0 DEF Tick, BeforeCursor, GoesOn
<1>4. UNCHANGED vars => UNCHANGED engine
  BY DEF vars
<1> QED BY <1>1, <1>2, <1>3, <1>4, EngineBeforeCursor, Footprints DEF Next

\* While no two engines come before the cursor at the same time, a run moves it to the
\* company it follows already, and what the other runs read stays true.
LEMMA CursorStep ==
    TypeOK /\ SyncInvariant /\ OneExecution /\ CursorFollows /\ [Next]_vars
        => CursorFollows' /\ (cursor # NoAccount => cursor' = cursor)
<1> SUFFICES ASSUME TypeOK, SyncInvariant, OneExecution, CursorFollows, [Next]_vars
             PROVE  CursorFollows' /\ (cursor # NoAccount => cursor' = cursor)
  OBVIOUS
<1>0. /\ engine \in [Workers -> EngineRow]
      /\ \A v \in Workers : DOMAIN engine[v] = {"pc", "run", "account", "elapsed"}
  BY DEF TypeOK, EngineRow
<1>1. \A v \in Workers : BeforeCursor(v)' => GoesOn(v) \/ HasRead(v)
  BY BeforeCursorSteps
<1>2. ASSUME NEW v \in Workers, GoesOn(v) \/ HasRead(v)
      PROVE  run'[engine'[v].run].trigger = run[engine[v].run].trigger
  <2>1. engine[v].run \in Runs /\ run[engine[v].run].status # "NONE"
    BY <1>2 DEF GoesOn, HasRead, BeforeCursor, At, SyncInvariant, Assigned, Opened
  <2>2. engine'[v].run = engine[v].run
    BY <1>2 DEF GoesOn, HasRead
  <2> QED BY <2>1, <2>2, RunSteps DEF RunStep
<1>3. CASE cursor' = cursor
  <2>1. ASSUME NEW v \in Workers, BeforeCursor(v)',
               run'[engine'[v].run].trigger = "SCHEDULED"
        PROVE  cursor \in {NoAccount, engine'[v].account}
    <3>1. run[engine[v].run].trigger = "SCHEDULED"
      BY <2>1, <1>1, <1>2
    <3>2. CASE GoesOn(v)
      BY <3>1, <3>2 DEF GoesOn, CursorFollows
    <3>3. CASE HasRead(v)
      BY <3>1, <3>3 DEF HasRead
    <3> QED BY <2>1, <3>2, <3>3, <1>1
  <2> QED BY <2>1, <1>3 DEF CursorFollows
<1>4. ASSUME NEW w \in Workers, AdvanceCursor(w)
      PROVE  CursorFollows' /\ (cursor # NoAccount => cursor' = cursor)
  <2>1. BeforeCursor(w) /\ engine'[w].pc = "hot"
    BY <1>4, <1>0 DEF AdvanceCursor, At, Step, BeforeCursor
  <2>2. cursor' = engine[w].account /\ cursor \in {NoAccount, engine[w].account}
    BY <1>4, <2>1 DEF AdvanceCursor, CursorFollows
  <2>3. \A v \in Workers \ {w} : engine'[v] = engine[v]
    BY <1>4, <1>0 DEF AdvanceCursor, Step
  <2>4. \A v \in Workers : ~ BeforeCursor(v)'
    BY <2>1, <2>3 DEF BeforeCursor, OneExecution
  <2> QED BY <2>2, <2>4 DEF CursorFollows
<1> QED BY <1>3, <1>4, BaselineMoves

-----------------------------------------------------------------------------
(* The theorems *)

\* Every step keeps the invariant.
LEMMA InvariantStep == TypeOK /\ SyncInvariant /\ [Next]_vars => SyncInvariant'
<1> SUFFICES ASSUME TypeOK, SyncInvariant, [Next]_vars PROVE SyncInvariant'
  OBVIOUS
<1>1. Assigned'
  BY AssignedStep DEF SyncInvariant
<1>2. Opened' /\ Begun' /\ Fresh' /\ ReleasedIsDead'
  BY OpenedStep, BegunStep, FreshStep, DeadStep
<1>3. OneActiveRun'
  BY RunSteps, OneActiveStep DEF SyncInvariant
<1>4. Baselined'
  BY BaselineStep
<1> QED BY <1>1, <1>2, <1>3, <1>4 DEF SyncInvariant

\* The initial states have their types and satisfy the invariant.
LEMMA InitInvariant == Init => TypeOK /\ SyncInvariant
<1> SUFFICES ASSUME Init PROVE TypeOK /\ SyncInvariant
  OBVIOUS
<1>1. NoRow \in RunRow /\ NoJob \in JobRow /\ Idle \in EngineRow /\ NoCall \in CallRow
  BY SyncAssumption DEF NoRow, RunRow, RunStatus, Triggers, NoJob, JobRow, JobStates,
     Idle, EngineRow, EnginePcs, NoCall, CallRow, CallPcs, Kinds
<1>2. integration \in IntegrationRow /\ baseline \in 0..Never
  BY SyncAssumption DEF Init, IntegrationInit, NotConnected, IntegrationRow, Never
<1>3. TypeOK
  BY <1>1, <1>2 DEF Init, TypeOK
<1>4. Assigned /\ Opened /\ Begun
  BY DEF Init, Assigned, Opened, Begun, Idle, NoCall, NoJob
<1>5. Fresh /\ ReleasedIsDead /\ OneActiveRun
  BY DEF Init, Fresh, Opening, ReleasedIsDead, OneActiveRun, Active, ActiveStatuses, NoRow, NoCall
<1>6. Baselined
  BY DEF Init, Baselined, IncrementalNeedsBaseline, NoRow, NoCall
<1> QED BY <1>3, <1>4, <1>5, <1>6 DEF SyncInvariant

\* The rows, jobs, processes and the integration always have their types.
THEOREM TypeCorrect == Spec => []TypeOK
<1>1. TypeOK /\ SyncInvariant /\ [Next]_vars => TypeOK'
  BY TypeStep DEF SyncInvariant
<1> QED BY <1>1, InitInvariant, InvariantStep, PTL DEF Spec

\* The inductive invariant holds in every reachable state.
THEOREM InvariantHolds == Spec => []SyncInvariant
<1>1. TypeOK /\ SyncInvariant /\ [Next]_vars => TypeOK'
  BY TypeStep DEF SyncInvariant
<1> QED BY <1>1, InitInvariant, InvariantStep, PTL DEF Spec

\* However many calls, planner ticks and workers interleave, an integration never has two
\* runs PENDING or RUNNING.
THEOREM AtMostOneActiveRun == Spec => []OneActiveRun
<1>1. SyncInvariant => OneActiveRun
  BY DEF SyncInvariant
<1> QED BY <1>1, InvariantHolds, PTL

\* No interleaving of runs, reconnections and lost updates gives an incremental run a
\* cursor before the integration has a baseline.
THEOREM IncrementalAfterBaseline == Spec => []IncrementalNeedsBaseline
<1>1. SyncInvariant => IncrementalNeedsBaseline
  BY DEF SyncInvariant, Baselined
<1> QED BY <1>1, InvariantHolds, PTL

\* While engines execute one after the other up to the cursor, no reconnection,
\* identification, stall or restart lets a run move the cursor to another company.
THEOREM CursorStaysWithCompany == Spec /\ []OneExecution => CursorKeepsAccount
<1>1. Init => CursorFollows
  BY DEF Init, CursorFollows, BeforeCursor, Idle
<1>2. TypeOK /\ SyncInvariant /\ OneExecution /\ CursorFollows /\ [Next]_vars
        => CursorFollows' /\ [cursor # NoAccount => cursor' = cursor]_vars
  BY CursorStep
<1>3. Spec => []TypeOK /\ []SyncInvariant
  BY TypeCorrect, InvariantHolds, PTL
<1> QED BY <1>1, <1>2, <1>3, PTL DEF Spec, CursorKeepsAccount

\* With the one worker process of the deployment they do, so it always holds there: also
\* when jobs stall, the worker crashes and restarts and tenants are disabled.
THEOREM OneWorkerKeepsCompany ==
    ASSUME \A v, w \in Workers : v = w
    PROVE  Spec => CursorKeepsAccount
<1>1. OneExecution
  BY DEF OneExecution
<1> QED BY <1>1, CursorStaysWithCompany, PTL

\* A run that ended is never changed again, by a late worker, handler or release.
THEOREM EndedRunsAreFinal == Spec => TerminalIsFinal
<1>1. TypeOK /\ [Next]_vars
        => [\A r \in Runs : run[r].status \in TerminalStatuses => run'[r] = run[r]]_run
  BY RunSteps, RowFacts
<1> QED BY <1>1, TypeCorrect, PTL DEF Spec, TerminalIsFinal

\* A stale snapshot never releases a run whose job waits or is executed.
THEOREM ReleasesAreSafe == Spec => ReleaseOnlyDead
<1>1. SyncInvariant /\ [Next]_vars
        => [\A r \in Runs : Releases(r) => ~ Living(job[r].state)]_vars
  BY DEF SyncInvariant, ReleasedIsDead, Releases
<1> QED BY <1>1, InvariantHolds, PTL DEF Spec, ReleaseOnlyDead

\* The synchronisation implements the lifecycle it promises to the readers of sync_runs.
THEOREM SyncImplementsLifecycle == Spec => ImplementsLifecycle
<1> DEFINE status == [r \in Runs |-> run[r].status]
<1>1. Init => Lifecycle!Init
  BY DEF Init, Lifecycle!Init, NoRow
<1>2. TypeOK /\ SyncInvariant /\ [Next]_vars => [Lifecycle!Next]_status
  <2> SUFFICES ASSUME TypeOK, SyncInvariant, [Next]_vars, status' # status
               PROVE  Lifecycle!Next
    OBVIOUS
  <2>1. RunStep /\ Begun
    BY RunSteps DEF SyncInvariant
  <2>2. PICK r \in Runs : run'[r].status # run[r].status
    OBVIOUS
  <2>3. status' = [status EXCEPT ![r] = run'[r].status]
    BY <2>1, <2>2 DEF RunStep
  <2>4. RowStep(r)
    BY <2>1 DEF RunStep
  <2>5. CASE run[r].status = "NONE" /\ run'[r].status = "PENDING" /\ ActiveRuns = {}
    <3>1. \A s \in Runs : status[s] \notin {"PENDING", "RUNNING"}
      BY <2>5 DEF ActiveRuns, Active, ActiveStatuses
    <3> QED BY <2>3, <2>5, <3>1 DEF Lifecycle!Next, Lifecycle!Open, Lifecycle!Become,
               Lifecycle!Ongoing
  <2>6. CASE Active(r) /\ run'[r].status = "FAILED"
    BY <2>3, <2>6 DEF Lifecycle!Next, Lifecycle!Close, Lifecycle!Become, Lifecycle!Ongoing,
       Active, ActiveStatuses
  <2>7. CASE Active(r) /\ run'[r].status = "RUNNING"
    BY <2>2, <2>3, <2>7 DEF Lifecycle!Next, Lifecycle!Begin, Lifecycle!Become, Active,
       ActiveStatuses
  <2>8. CASE Active(r) /\ run'[r].status = "SUCCESS" /\ Succeeding(r)
    <3>1. run[r].status = "RUNNING"
      BY <2>1, <2>8 DEF Succeeding, At, Begun, Active, ActiveStatuses
    <3> QED BY <2>3, <2>8, <3>1 DEF Lifecycle!Next, Lifecycle!Close, Lifecycle!Become
  <2> QED BY <2>2, <2>4, <2>5, <2>6, <2>7, <2>8 DEF RowStep
<1>3. Spec => []TypeOK /\ []SyncInvariant
  BY TypeCorrect, InvariantHolds, PTL
<1> QED BY <1>1, <1>2, <1>3, PTL DEF Spec, ImplementsLifecycle, Lifecycle!Spec

=============================================================================
