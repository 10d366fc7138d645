---------------------------- MODULE ContaAzulSync ----------------------------
(***************************************************************************)
(* The synchronisation core of the Conta Azul integration, for one tenant: *)
(* the rows of sync_runs, the BullMQ queue conta-azul-manual-sync, the     *)
(* worker processes that execute the engine, the HTTP calls and the        *)
(* planner that open runs, and the opportunistic reconciliation of orphan  *)
(* runs.  Everything that waits (a query, a Redis command, an HTTP         *)
(* request) is a point where the other processes may step in; consecutive  *)
(* reads with no write between them are one step.                          *)
(*                                                                         *)
(* Time is kept as ages that saturate at the only values the code compares *)
(* them with: Timeout is CONTA_AZUL_SYNC_JOB_TIMEOUT_MS and Interval is    *)
(* the automatic-sync interval.                                            *)
(***************************************************************************)
EXTENDS Naturals, IntegrationLifecycle

CONSTANTS
    Runs,       \* the sync_runs rows that may ever be created (bound)
    Workers,    \* worker processes
    Calls,      \* concurrent HTTP calls and planner ticks
    NoRun, NoWorker,
    Timeout,    \* orphan / execution timeout
    Interval    \* automatic-sync interval

ASSUME SyncAssumption ==
    /\ NoRun \notin Runs
    /\ NoWorker \notin Workers
    /\ NoAccount \notin Accounts
    /\ Timeout \in Nat \ {0}
    /\ Interval \in Nat \ {0}

VARIABLES
    run,          \* sync_runs: status, trigger, age of the last activity
    job,          \* the BullMQ job of each run: state, lock holder, stall count
    failedEvents, \* runs whose 'failed' event the worker has not handled yet
    engine,       \* per worker process: where the engine is
    call,         \* per HTTP call or planner tick: where it is
    tenantActive, \* tenants.status = ACTIVE
    baseline,     \* age of integrations.lastSuccessfulSyncAt, or Never
    cursor        \* externalAccountId of the PEOPLE cursor, or NoAccount

vars == << run, job, failedEvents, engine, call, tenantActive, integration,
           baseline, cursor >>
envVars == << tenantActive, integration, baseline, cursor >>

-----------------------------------------------------------------------------
(* Data *)

ActiveStatuses   == {"PENDING", "RUNNING"}
TerminalStatuses == {"SUCCESS", "FAILED"}
RunStatus == {"NONE"} \cup ActiveStatuses \cup TerminalStatuses
Triggers  == {"MANUAL", "SCHEDULED"}
RunRow == [status: RunStatus, trigger: Triggers, age: 0..Timeout]
NoRow  == [status |-> "NONE", trigger |-> "MANUAL", age |-> 0]

\* "waiting" stands for every queued state (waiting, delayed, prioritized, paused).
JobStates == {"missing", "waiting", "active", "failed"}
JobRow == [state: JobStates, lock: Workers \cup {NoWorker}, stalls: 0..1]
NoJob  == [state |-> "missing", lock |-> NoWorker, stalls |-> 0]

Never == Interval + 1

EnginePcs == {"down", "idle", "load", "mark", "first", "pages", "hot",
              "success", "fail", "throw", "return"}
EngineRow == [pc: EnginePcs, run: Runs \cup {NoRun},
              account: Accounts \cup {NoAccount}, elapsed: 0..Timeout]
Idle == [pc |-> "idle", run |-> NoRun, account |-> NoAccount, elapsed |-> 0]
Down == [Idle EXCEPT !.pc = "down"]

Kinds   == {"start", "current", "disconnect", "plan"}
CallPcs == {"idle", "probe", "release", "create", "reread", "enqueue",
            "enqueueFailed", "assert", "disconnect"}
CallRow == [pc: CallPcs, kind: Kinds, run: Runs \cup {NoRun},
            age: 0..Timeout, retry: BOOLEAN]
NoCall == [pc |-> "idle", kind |-> "current", run |-> NoRun, age |-> 0, retry |-> FALSE]

TypeOK ==
    /\ run \in [Runs -> RunRow]
    /\ job \in [Runs -> JobRow]
    /\ failedEvents \subseteq Runs
    /\ engine \in [Workers -> EngineRow]
    /\ call \in [Calls -> CallRow]
    /\ tenantActive \in BOOLEAN
    /\ integration \in IntegrationRow
    /\ baseline \in 0..Never
    /\ cursor \in Accounts \cup {NoAccount}

\* A tenant whose integration has just been connected and identified, or not yet.
Init ==
    /\ run = [r \in Runs |-> NoRow]
    /\ job = [r \in Runs |-> NoJob]
    /\ failedEvents = {}
    /\ engine = [w \in Workers |-> Idle]
    /\ call = [c \in Calls |-> NoCall]
    /\ tenantActive = TRUE
    /\ IntegrationInit
    /\ baseline = Never
    /\ cursor = NoAccount

-----------------------------------------------------------------------------
(* sync-run.repository: every update is guarded by the status it expects *)

Active(r)  == run[r].status \in ActiveStatuses
ActiveRuns == {r \in Runs : Active(r)}

\* Mutant: the partial unique index on active runs is missing.
CreatePendingUnindexed(r, trigger, age) ==
    /\ run[r].status = "NONE"
    /\ run' = [run EXCEPT ![r] = [status |-> "PENDING", trigger |-> trigger, age |-> age]]

\* createPending fails with a unique violation while another run is active.
CreatePending(r, trigger, age) ==
    /\ ActiveRuns = {}
    /\ run[r].status = "NONE"
    /\ run' = [run EXCEPT ![r] = [status |-> "PENDING", trigger |-> trigger, age |-> age]]

\* Mutants: an update that forgot its status guard.
MarkRunningAlways(r) == [run EXCEPT ![r].status = "RUNNING", ![r].age = 0]
MarkFailedAlways(r)  == [run EXCEPT ![r].status = "FAILED", ![r].age = 0]

MarkRunning(r) ==
    IF Active(r) THEN [run EXCEPT ![r].status = "RUNNING", ![r].age = 0] ELSE run
Heartbeat(row) == IF row.status = "RUNNING" THEN [row EXCEPT !.age = 0] ELSE row
MarkFailed(r) ==
    IF Active(r) THEN [run EXCEPT ![r].status = "FAILED", ![r].age = 0] ELSE run
MarkSuccess(r) ==
    IF Active(r) THEN [run EXCEPT ![r].status = "SUCCESS", ![r].age = 0] ELSE run

-----------------------------------------------------------------------------
(* The queue, as BullMQ behaves with attempts 1 and maxStalledCount 1 *)

\* Mutants: a queued job counts as dead; a failed one as living.
LivingWhenActive   == {"active"}
LivingUntilRemoved == JobStates \ {"missing"}

LivingJobStates == {"waiting", "active"}
Living(state) == state \in LivingJobStates

Waiting(r) == [job EXCEPT ![r].state = "waiting"]
Removed(r) == [job EXCEPT ![r] = NoJob]
HoldsLock(w) == LET j == job[engine[w].run] IN j.state = "active" /\ j.lock = w

-----------------------------------------------------------------------------
(* HTTP calls and the planner *)

Finish(c)   == call' = [call EXCEPT ![c] = NoCall]
Goto(c, pc) == call' = [call EXCEPT ![c].pc = pc]

\* Where a call goes once reconcileByIntegrationId has answered.
Reconciled(c, released) ==
    \/ call[c].kind = "current" /\ Finish(c)
    \/ call[c].kind = "disconnect" /\ Goto(c, "assert")
    \/ call[c].kind = "start" /\ (~ call[c].retry \/ released) /\ Goto(c, "create")
    \/ call[c].kind = "start" /\ call[c].retry /\ ~ released /\ Finish(c)

\* findActiveByIntegrationId: the row is read now and used after the probe.
Snapshot(c, kind, retry) ==
    \E r \in ActiveRuns :
        call' = [call EXCEPT ![c] = [pc |-> "probe", kind |-> kind, run |-> r,
                                     age |-> run[r].age, retry |-> retry]]

StartCall(c) ==
    /\ call[c].pc = "idle"
    /\ tenantActive
    /\ integration.status = "CONNECTED"
    /\ integration.credential # NoAccount
    /\ \/ Snapshot(c, "start", FALSE)
       \/ /\ ActiveRuns = {}
          /\ call' = [call EXCEPT ![c] = [NoCall EXCEPT !.pc = "create", !.kind = "start"]]
    /\ UNCHANGED << run, job, failedEvents, engine, envVars >>

\* GET sync/current, and the reconcileActive a worker runs when it is ready.
CurrentCall(c) ==
    /\ call[c].pc = "idle"
    /\ Snapshot(c, "current", FALSE)
    /\ UNCHANGED << run, job, failedEvents, engine, envVars >>

DisconnectCall(c) ==
    /\ call[c].pc = "idle"
    /\ \/ Snapshot(c, "disconnect", FALSE)
       \/ /\ ActiveRuns = {}
          /\ call' = [call EXCEPT ![c] = [NoCall EXCEPT !.pc = "assert",
                                                        !.kind = "disconnect"]]
    /\ UNCHANGED << run, job, failedEvents, engine, envVars >>

IdentityMismatch == cursor # NoAccount /\ cursor # integration.identity

\* listAutoSyncCandidates and resolveAutoSyncSkipReason.
AutoSyncEligible ==
    /\ tenantActive
    /\ integration.status = "CONNECTED"
    /\ integration.credential # NoAccount
    /\ integration.identity # NoAccount
    /\ baseline # Never
    /\ ~ IdentityMismatch
    /\ ActiveRuns = {}
    /\ baseline >= Interval

\* The tick may have begun long ago, for other tenants: its beginning is what it writes.
PlanTick(c) ==
    /\ call[c].pc = "idle"
    /\ AutoSyncEligible
    /\ \E age \in 0 .. Timeout - 1 :
          call' = [call EXCEPT ![c] = [NoCall EXCEPT !.pc = "create", !.kind = "plan", !.age = age]]
    /\ UNCHANGED << run, job, failedEvents, engine, envVars >>

\* Mutant: only the age decides, the job of the run is not asked for.
IsOrphanIgnoringJob(age, state) == age >= Timeout

\* isOrphanSyncRun on the snapshot the call holds; an unreadable job counts as living.
IsOrphan(age, state) == ~ Living(state) /\ age >= Timeout

Probe(c) ==
    /\ call[c].pc = "probe"
    /\ \/ IsOrphan(call[c].age, job[call[c].run].state) /\ Goto(c, "release")
       \/ ~ IsOrphan(call[c].age, job[call[c].run].state) /\ Reconciled(c, FALSE)
    /\ UNCHANGED << run, job, failedEvents, engine, envVars >>

\* getJobState answers 'unknown' when Redis cannot be read.
ProbeUnknown(c) ==
    /\ call[c].pc = "probe"
    /\ Reconciled(c, FALSE)
    /\ UNCHANGED << run, job, failedEvents, engine, envVars >>

Release(c) ==
    /\ call[c].pc = "release"
    /\ run' = MarkFailed(call[c].run)
    /\ Reconciled(c, TRUE)
    /\ UNCHANGED << job, failedEvents, engine, envVars >>

Trigger(c) == IF call[c].kind = "plan" THEN "SCHEDULED" ELSE "MANUAL"

\* startedAt of the row: the beginning of the tick, or now.
Started(c) == IF call[c].kind = "plan" THEN call[c].age ELSE 0

\* createPendingRun: one retry after a unique violation, the planner none.
Create(c) ==
    /\ call[c].pc = "create"
    /\ \E r \in Runs :
          /\ CreatePending(r, Trigger(c), Started(c))
          /\ call' = [call EXCEPT ![c].pc = "enqueue", ![c].run = r, ![c].age = Started(c)]
    /\ UNCHANGED << job, failedEvents, engine, envVars >>

CreateViolation(c) ==
    /\ call[c].pc = "create"
    /\ ActiveRuns # {}
    /\ \/ call[c].kind = "start" /\ ~ call[c].retry /\ Goto(c, "reread")
       \/ (call[c].kind = "plan" \/ call[c].retry) /\ Finish(c)
    /\ UNCHANGED << run, job, failedEvents, engine, envVars >>

Reread(c) ==
    /\ call[c].pc = "reread"
    /\ \/ Snapshot(c, "start", TRUE)
       \/ ActiveRuns = {} /\ Finish(c)
    /\ UNCHANGED << run, job, failedEvents, engine, envVars >>

Enqueue(c) ==
    /\ call[c].pc = "enqueue"
    /\ job' = Waiting(call[c].run)
    /\ Finish(c)
    /\ UNCHANGED << run, failedEvents, engine, envVars >>

\* queue.add rejects; Redis may have applied the command before the reply was lost.
EnqueueError(c) ==
    /\ call[c].pc = "enqueue"
    /\ job' \in {job, Waiting(call[c].run)}
    /\ Goto(c, "enqueueFailed")
    /\ UNCHANGED << run, failedEvents, engine, envVars >>

EnqueueFailed(c) ==
    /\ call[c].pc = "enqueueFailed"
    /\ run' = MarkFailed(call[c].run)
    /\ Finish(c)
    /\ UNCHANGED << job, failedEvents, engine, envVars >>

\* assertCanDisconnect after its reconciliation; the disconnect itself comes later.
AssertIdle(c) ==
    /\ call[c].pc = "assert"
    /\ \/ ActiveRuns # {} /\ Finish(c)
       \/ ActiveRuns = {} /\ Goto(c, "disconnect")
    /\ UNCHANGED << run, job, failedEvents, engine, envVars >>

Disconnect(c) ==
    /\ call[c].pc = "disconnect"
    /\ EraseConnection
    /\ Finish(c)
    /\ UNCHANGED << run, job, failedEvents, engine, tenantActive, baseline, cursor >>

\* The process dies, or a query of the call throws.
AbortCall(c) ==
    /\ call[c].pc # "idle"
    /\ Finish(c)
    /\ UNCHANGED << run, job, failedEvents, engine, envVars >>

-----------------------------------------------------------------------------
(* The engine, inside the worker *)

At(w, pc)  == engine[w].pc = pc
Step(w, pc)  == engine' = [engine EXCEPT ![w].pc = pc]
Leave(w, pc) ==
    engine' = [engine EXCEPT ![w] = [Idle EXCEPT !.pc = pc, !.run = engine[w].run]]
Stop(w)     == engine' = [engine EXCEPT ![w] = Idle]

Activate(w, r) ==
    /\ At(w, "idle")
    /\ job[r].state = "waiting"
    /\ job' = [job EXCEPT ![r].state = "active", ![r].lock = w]
    /\ engine' = [engine EXCEPT ![w] = [Idle EXCEPT !.pc = "load", !.run = r]]
    /\ UNCHANGED << run, failedEvents, call, envVars >>

Connected == integration.status = "CONNECTED" /\ integration.credential # NoAccount

\* Mutant: the engine trusts the planner's identity check.
MayExecuteAnyIdentity(r) ==
    /\ tenantActive
    /\ Connected
    /\ run[r].trigger = "SCHEDULED" =>
          baseline # Never /\ integration.identity # NoAccount

\* What execute requires before it marks the run RUNNING.
MayExecute(r) ==
    /\ tenantActive
    /\ Connected
    /\ run[r].trigger = "SCHEDULED" =>
          /\ baseline # Never
          /\ integration.identity # NoAccount
          /\ ~ IdentityMismatch

\* A run that already ended is acknowledged without being executed again.
Load(w) ==
    LET r == engine[w].run IN
    /\ At(w, "load")
    /\ \/ ~ Active(r) /\ Step(w, "return")
       \/ Active(r) /\ ~ MayExecute(r) /\ Step(w, "fail")
       \/ /\ Active(r)
          /\ MayExecute(r)
          /\ engine' = [engine EXCEPT ![w].pc = "mark", ![w].account =
                IF run[r].trigger = "SCHEDULED" THEN integration.identity ELSE NoAccount]
    /\ UNCHANGED << run, job, failedEvents, call, envVars >>

Mark(w) ==
    /\ At(w, "mark")
    /\ run' = MarkRunning(engine[w].run)
    /\ Step(w, "first")
    /\ UNCHANGED << job, failedEvents, call, envVars >>

Fetching(w) == engine[w].pc \in {"first", "pages", "hot"}
TokenUsable == integration.status # "DISCONNECTED" /\ integration.credential # NoAccount

\* Mutant: a page is fetched whatever the time the run has taken.
FetchPageForever(w) ==
    /\ Fetching(w)
    /\ TokenUsable
    /\ run' = [run EXCEPT ![engine[w].run] = Heartbeat(@)]
    /\ Step(w, IF At(w, "first") THEN "pages" ELSE engine[w].pc)
    /\ UNCHANGED << job, failedEvents, call, envVars >>

\* One page: token, request, upsert, then the heartbeat that also enforces the timeout.
FetchPage(w) ==
    /\ Fetching(w)
    /\ TokenUsable
    /\ \/ /\ engine[w].elapsed >= Timeout
          /\ Leave(w, "fail")
          /\ UNCHANGED run
       \/ /\ engine[w].elapsed < Timeout
          /\ run' = [run EXCEPT ![engine[w].run] = Heartbeat(@)]
          /\ Step(w, IF At(w, "first") THEN "pages" ELSE engine[w].pc)
    /\ UNCHANGED << job, failedEvents, call, envVars >>

\* The window of people is done: an incremental run moves its cursor.
AdvanceCursor(w) ==
    /\ At(w, "pages")
    /\ run[engine[w].run].trigger = "SCHEDULED"
    /\ cursor' = engine[w].account
    /\ Step(w, "hot")
    /\ UNCHANGED << run, job, failedEvents, call, tenantActive, integration, baseline >>

\* The refresh is refused, or a second 401 follows it: the integration goes to ERROR.
Unauthorized(w) ==
    /\ Fetching(w)
    /\ MarkError
    /\ Leave(w, "fail")
    /\ UNCHANGED << run, job, failedEvents, call, tenantActive, baseline, cursor >>

\* Any await of the engine may throw: upstream, mapping or database.
EngineError(w) ==
    /\ engine[w].pc \in {"mark", "first", "pages", "hot", "success"}
    /\ Leave(w, "fail")
    /\ UNCHANGED << run, job, failedEvents, call, envVars >>

\* The tenant and the connection are read again before the success is written.
Recheck(w) ==
    /\ engine[w].pc \in {"pages", "hot"}
    /\ At(w, "hot") <=> run[engine[w].run].trigger = "SCHEDULED"
    /\ \/ tenantActive /\ Connected /\ Leave(w, "success")
       \/ ~ (tenantActive /\ Connected) /\ Leave(w, "fail")
    /\ UNCHANGED << run, job, failedEvents, call, envVars >>

\* markSuccess: the run is updated under its guard, the integration unconditionally.
Succeed(w) ==
    /\ At(w, "success")
    /\ run' = MarkSuccess(engine[w].run)
    /\ baseline' = 0
    /\ Step(w, "return")
    /\ UNCHANGED << job, failedEvents, call, tenantActive, integration, cursor >>

\* The catch of execute; the update itself may throw and is then lost.
Fail(w) ==
    /\ At(w, "fail")
    /\ run' = MarkFailed(engine[w].run)
    /\ Step(w, "throw")
    /\ UNCHANGED << job, failedEvents, call, envVars >>

FailLost(w) ==
    /\ At(w, "fail")
    /\ Step(w, "throw")
    /\ UNCHANGED << run, job, failedEvents, call, envVars >>

-----------------------------------------------------------------------------
(* The worker around the engine, and BullMQ's stalled check *)

\* removeOnComplete; a worker that lost the job's lock can no longer move the job.
JobCompleted(w) ==
    /\ At(w, "return")
    /\ job' = IF HoldsLock(w) THEN Removed(engine[w].run) ELSE job
    /\ Stop(w)
    /\ UNCHANGED << run, failedEvents, call, envVars >>

FailedJob == [NoJob EXCEPT !.state = "failed"]

JobFailed(w) ==
    LET r == engine[w].run IN
    /\ At(w, "throw")
    /\ \/ /\ HoldsLock(w)
          /\ job' = [job EXCEPT ![r] = FailedJob]
          /\ failedEvents' = failedEvents \cup {r}
       \/ ~ HoldsLock(w) /\ UNCHANGED << job, failedEvents >>
    /\ Stop(w)
    /\ UNCHANGED << run, call, envVars >>

\* Mutant: a job may stall any number of times.
StallAgain(r) ==
    /\ job[r].state = "active"
    /\ job' = [job EXCEPT ![r] = [state |-> "waiting", lock |-> NoWorker, stalls |-> @.stalls + 1]]
    /\ UNCHANGED << run, failedEvents, engine, call, envVars >>

\* The lock of an active job expired: its worker died, or could not renew it.
Stall(r) ==
    /\ job[r].state = "active"
    /\ \/ /\ job[r].stalls = 0
          /\ job' = [job EXCEPT ![r] = [state |-> "waiting", lock |-> NoWorker, stalls |-> 1]]
          /\ UNCHANGED failedEvents
       \/ /\ job[r].stalls = 1
          /\ job' = [job EXCEPT ![r] = FailedJob]
          /\ failedEvents' = failedEvents \cup {r}
    /\ UNCHANGED << run, engine, call, envVars >>

\* worker.on('failed'): a markFailed nobody awaits.
HandleFailed(r) ==
    /\ r \in failedEvents
    /\ run' = MarkFailed(r)
    /\ failedEvents' = failedEvents \ {r}
    /\ UNCHANGED << job, engine, call, envVars >>

LoseFailedEvent(r) ==
    /\ r \in failedEvents
    /\ failedEvents' = failedEvents \ {r}
    /\ UNCHANGED << run, job, engine, call, envVars >>

Crash(w) ==
    /\ engine[w].pc # "down"
    /\ engine' = [engine EXCEPT ![w] = Down]
    /\ UNCHANGED << run, job, failedEvents, call, envVars >>

Restart(w) ==
    /\ At(w, "down")
    /\ Stop(w)
    /\ UNCHANGED << run, job, failedEvents, call, envVars >>

-----------------------------------------------------------------------------
(* The rest of the system, as far as a run can see it *)

\* Mutant: connecting again forgets the baseline but keeps the cursor.
ReconnectForgets(a) ==
    /\ Connect(a)
    /\ baseline' = Never
    /\ UNCHANGED << run, job, failedEvents, engine, call, tenantActive, cursor >>

\* handleCallback persists the tokens of the company the administrator authorised,
\* whatever the tenant has become since the callback read it.
Reconnect(a) ==
    /\ Connect(a)
    /\ UNCHANGED << run, job, failedEvents, engine, call, tenantActive, baseline, cursor >>

\* An identification, a renewal of the token or the failure of either goes on beside
\* everything else, one statement at a time.
IntegrationUpdated ==
    /\ (\E a \in Accounts : StoreIdentity(a)) \/ ClearError \/ MarkError
    /\ UNCHANGED << run, job, failedEvents, engine, call, tenantActive, baseline, cursor >>

SetTenantStatus ==
    /\ tenantActive' = ~ tenantActive
    /\ UNCHANGED << run, job, failedEvents, engine, call, integration, baseline, cursor >>

Older(age, bound) == IF age < bound THEN age + 1 ELSE age

\* The start of a run counts already, and its job is still to be queued.
Opening(c) == call[c].pc = "enqueue" \/ (call[c].pc = "create" /\ call[c].kind = "plan")

\* The job is queued promptly: not a whole Timeout after its row's insert or, when planned,
\* after the tick over all tenants began.
EnqueueIsPrompt == \A c \in Calls : Opening(c) => call[c].age + 1 < Timeout

Tick ==
    /\ EnqueueIsPrompt
    /\ run' = [r \in Runs |->
                 IF Active(r) THEN [run[r] EXCEPT !.age = Older(@, Timeout)] ELSE run[r]]
    /\ engine' = [w \in Workers |->
                    IF Fetching(w) THEN [engine[w] EXCEPT !.elapsed = Older(@, Timeout)]
                                   ELSE engine[w]]
    /\ call' = [c \in Calls |->
                  IF call[c].pc = "probe" \/ Opening(c)
                     THEN [call[c] EXCEPT !.age = Older(@, Timeout)] ELSE call[c]]
    /\ baseline' = IF baseline = Never THEN Never ELSE Older(baseline, Interval)
    /\ UNCHANGED << job, failedEvents, tenantActive, integration, cursor >>

-----------------------------------------------------------------------------

CallStep(c) ==
    \/ StartCall(c) \/ CurrentCall(c) \/ DisconnectCall(c) \/ PlanTick(c)
    \/ Probe(c) \/ ProbeUnknown(c) \/ Release(c)
    \/ Create(c) \/ CreateViolation(c) \/ Reread(c)
    \/ Enqueue(c) \/ EnqueueError(c) \/ EnqueueFailed(c)
    \/ AssertIdle(c) \/ Disconnect(c) \/ AbortCall(c)

EngineStep(w) ==
    \/ Load(w) \/ Mark(w) \/ FetchPage(w) \/ AdvanceCursor(w)
    \/ Unauthorized(w) \/ EngineError(w) \/ Recheck(w)
    \/ Succeed(w) \/ Fail(w) \/ FailLost(w)

WorkerStep(w) ==
    \/ \E r \in Runs : Activate(w, r)
    \/ JobCompleted(w) \/ JobFailed(w) \/ Crash(w) \/ Restart(w)

QueueStep(r) == Stall(r) \/ HandleFailed(r) \/ LoseFailedEvent(r)

Environment ==
    \/ \E a \in Accounts : Reconnect(a)
    \/ IntegrationUpdated \/ SetTenantStatus \/ Tick

Next ==
    \/ \E c \in Calls : CallStep(c)
    \/ \E w \in Workers : EngineStep(w) \/ WorkerStep(w)
    \/ \E r \in Runs : QueueStep(r)
    \/ Environment

Spec == Init /\ [][Next]_vars
(* Fairness.  A worker that is up keeps executing, and one that died is
   restarted; workers are not in a crash loop forever, so a queued job is
   eventually taken.  BullMQ notices abandoned jobs.  Somebody keeps asking for
   the state of the synchronisation (the integration page polls it while a run is
   active), and these calls do not all fail. *)

\* No process that executes the job is left to move it.
Abandoned(r) == \A w \in Workers : ~ (job[r].lock = w /\ engine[w].run = r)

Fairness ==
    /\ WF_vars(Tick)
    /\ \A w \in Workers :
          /\ WF_vars(EngineStep(w))
          /\ WF_vars(JobCompleted(w) \/ JobFailed(w))
          /\ WF_vars(Restart(w))
    /\ \A r \in Runs :
          /\ SF_vars(\E w \in Workers : Activate(w, r))
          /\ WF_vars(Abandoned(r) /\ Stall(r))
          /\ WF_vars(HandleFailed(r) \/ LoseFailedEvent(r))
    /\ \A c \in Calls :
          /\ SF_vars(CurrentCall(c))
          /\ SF_vars(Probe(c))
          /\ SF_vars(Release(c))
          /\ WF_vars(CallStep(c) /\ call[c].pc # "idle")

FairSpec == Spec /\ Fairness

-----------------------------------------------------------------------------
(* What the synchronisation promises *)

\* At most one run of the integration is PENDING or RUNNING: the lock that manual
\* starts, the planner, retries and releases all share.
OneActiveRun == \A r, s \in Runs : Active(r) /\ Active(s) => r = s

\* A run that ended never changes again: no late worker, failure handler or stale
\* release revives it, or turns a SUCCESS into a FAILED or back.
TerminalIsFinal ==
    [][\A r \in Runs : run[r].status \in TerminalStatuses => run'[r] = run[r]]_run

\* Reconciliation, working on an old snapshot, releases a run as sync_stale_run only
\* if at that moment no job of it is waiting or being executed.
Releases(r) ==
    /\ Active(r)
    /\ run'[r].status = "FAILED"
    /\ \E c \in Calls : call[c].pc = "release" /\ call[c].run = r /\ call'[c] # call[c]
ReleaseOnlyDead == [][\A r \in Runs : Releases(r) => ~ Living(job[r].state)]_vars

\* A cursor exists only after a baseline: an incremental run never precedes the
\* first complete one, however runs, reconnections and disconnections interleave.
IncrementalNeedsBaseline == cursor # NoAccount => baseline # Never

\* Once incremental runs follow one company, no later run moves the cursor to another.
\* This needs the one worker process of the deployment (docs/10, "1 fila, 1 job type, 1
\* worker, concurrency 1"): two engines that execute one stalled job may each have read
\* another company.
CursorKeepsAccount == [][cursor # NoAccount => cursor' = cursor]_vars

\* Seen from outside, sync_runs follows its abstract lifecycle; in particular a run
\* that was never marked RUNNING cannot succeed, whatever reaches it late.
Lifecycle == INSTANCE SyncRunLifecycle WITH status <- [r \in Runs |-> run[r].status]
ImplementsLifecycle == Lifecycle!Spec

\* Every opened run ends: crashes, stalls, lost failure events, lost updates and a
\* queue that was never reached leave no run holding the lock forever.
EveryRunEnds == \A r \in Runs : Active(r) ~> ~ Active(r)

\* Every queued job leaves the queue, also the job of a run that ended meanwhile.
QueueDrains == \A r \in Runs : Living(job[r].state) ~> ~ Living(job[r].state)

-----------------------------------------------------------------------------
(* Why it keeps these promises: the inductive invariant *)

\* Whoever works on a run works on one of the table.
Assigned ==
    /\ \A w \in Workers : engine[w].pc \notin {"idle", "down"} => engine[w].run \in Runs
    /\ \A c \in Calls : call[c].pc \in {"probe", "release", "enqueue", "enqueueFailed"}
                          => call[c].run \in Runs

\* Jobs, engines and calls only know runs that have been opened.
Opened ==
    /\ \A r \in Runs : job[r].state # "missing" => run[r].status # "NONE"
    /\ \A w \in Workers : engine[w].pc \notin {"idle", "down"}
                             => run[engine[w].run].status # "NONE"
    /\ \A c \in Calls : call[c].pc \in {"probe", "release", "enqueue"}
                          => run[call[c].run].status # "NONE"

\* An engine that fetches, or is about to write the success, has begun its run.
Begun ==
    \A w \in Workers : engine[w].pc \in {"first", "pages", "hot", "success"}
                        => run[engine[w].run].status \notin {"NONE", "PENDING"}

\* While a call still has to queue the job of its run, the run has not been active for
\* longer than the call has been waiting, and no reader holds an older snapshot of it.
Fresh ==
  /\ \A d \in Calls : Opening(d) => call[d].age < Timeout
  /\ \A d \in Calls : call[d].pc = "enqueue" =>
        /\ run[call[d].run].age <= call[d].age
        /\ \A c \in Calls : call[c].run = call[d].run =>
              /\ call[c].pc = "probe" => call[c].age <= call[d].age
              /\ call[c].pc # "release"

\* A run about to be released has no job that waits or is executed.
ReleasedIsDead ==
    \A c \in Calls : call[c].pc = "release" => ~ Living(job[call[c].run].state)

\* The planner, the scheduled runs and the cursor exist only once there is a baseline.
Baselined ==
    /\ \A c \in Calls : call[c].kind = "plan" => baseline # Never
    /\ \A r \in Runs : run[r].trigger = "SCHEDULED" => baseline # Never
    /\ IncrementalNeedsBaseline

\* An engine that has read the identified company and has not passed the cursor yet.
BeforeCursor(w) == engine[w].pc \in {"mark", "first", "pages"}
OneExecution == \A v, w \in Workers : BeforeCursor(v) /\ BeforeCursor(w) => v = w

\* The company of an incremental run under way is the one the cursor follows, whatever
\* the integration has been connected to or identified as since the run read it.
CursorFollows ==
    \A w \in Workers :
        BeforeCursor(w) /\ run[engine[w].run].trigger = "SCHEDULED"
            => cursor \in {NoAccount, engine[w].account}

\* The invariant the proofs use, checked here on a small instance.
SyncInvariant ==
    /\ Assigned /\ Opened /\ Begun
    /\ Fresh /\ ReleasedIsDead
    /\ OneActiveRun /\ Baselined
=============================================================================
