# Verification of the Dashboard Economização back end

This directory specifies and verifies the parts of the back end in which several processes or
requests work on shared state: the synchronisation with the Conta Azul ERP and its OAuth
grant, user accounts, the proactive insights, a conversation with the advisor, and branding. It
holds TLA+ modules, TLC configurations and TLAPS proofs. Paths are relative to the repository's
`backend/src/`, where `CA/` stands for `modules/integrations/conta-azul/` and `AD/` for
`modules/advisor/`.

## 1. Inventory

| Part | State | Operations | Interacts with |
|---|---|---|---|
| Sync runs (`CA/repositories/sync-run.repository.ts`) | `sync_runs` with a partial unique index on active runs; `integrations.lastSuccessfulSyncAt` | createPending, markRunning, heartbeat, markSuccess, markFailed, each guarded by the status it expects | everything below |
| Sync service (`CA/services/conta-azul-sync.service.ts`) | – | start, current, assertCanDisconnect | runs, reconciliation, queue |
| Reconciliation (`CA/services/conta-azul-sync-reconcile.ts`) | – | releaseIfOrphan: read the run, ask the queue, mark it FAILED | runs, queue |
| Planner (`CA/services/conta-azul-auto-sync.planner.ts`) | a repeated BullMQ job | plan: open and queue a SCHEDULED run for each eligible integration | runs, queue, cursors |
| Queue and worker (`infrastructure/jobs/conta-azul-manual-sync.*`) | BullMQ jobs in Redis: state, lock, stall counter | enqueue, getJobState, processor, failed handler | engine, runs |
| Engine (`CA/services/conta-azul-sync.engine.ts`) | one execution; cursors | execute: preconditions, pages with heartbeat, cursors, recheck, outcome | runs, grant, ERP |
| OAuth grant (`CA/services/conta-azul-oauth.service.ts`, `oauth-state.store.ts`, `CA/repositories/integration.repository.ts`) | `integrations`, credentials; single-use states in Redis | startConnect, handleCallback, refreshAccessToken, disconnect | engine, identification, ERP |
| Identification (`CA/services/conta-azul-identity.service.ts`) | `integration_external_accounts` | identify | grant |
| Ledger, presence, transfers, cost centres, balances (`CA/services/*-sync.service.ts`), rate limiter | mirrored ERP rows, checkpoints | upserts, tombstones, waits | engine |
| User accounts (`modules/auth`) | `users`: status, lockout, attempts; credentials | login, recovery of an expired lockout, create, block, unblock, disable, enable, reset password, remove access | every route |
| Support mode (`modules/auth/services/support-mode.service.ts`) | `support_sessions`, a flag in the Redis session | enter, exit, end at login | accounts |
| Proactive evaluation (`infrastructure/jobs/proactive-evaluation.*`, `AD/services/proactive-trigger-engine.service.ts`) | trigger configurations, `ai_insights`; one BullMQ job per tenant | enqueue, evaluate, recordOccurrence; administration of triggers | sync success, saved goals |
| Proactive narration (`infrastructure/jobs/proactive-narration.*`, `AD/services/proactive-narration.service.ts`) | `narrationStatus`; one BullMQ job per insight | narrate, saveNarration, markNarrationFailed | evaluation, language model |
| Proactive delivery (`AD/services/proactive-insight-delivery.service.ts`) | conversations, messages, links, `ai_insight_reads` | present, delete a conversation | narration |
| Advisor (`AD/services/send-advisor-message.ts`) | `analytical_context` of a conversation, `ai_runs` | execute | language model, finance |
| Branding (`modules/branding`, `infrastructure/storage`) | branding rows, `files`, bytes in the storage | upload, delete, update, reset; deletion of a tenant | tenants |
| Analytics, dashboard, finance, reports, audit, front end | read-only over mirrored data | composition, text, presentation | – |

What is hard here: API instances, workers and a planner share PostgreSQL rows and Redis queues
without a common transaction. A row is inserted before its job is queued; `queue.add` may fail
after Redis stored the job, and is ignored when the job id is still known; BullMQ executes
stalled jobs again; administrators' checks rely on what several locked rows said; whole
contexts are read once and written back; files, rows and references are written one after
the other.

What makes each part correct:

- **Runs**: at most one run of an integration is active; a run that ended never changes; only a
  run that was marked RUNNING succeeds. **Reconciliation** releases exactly the runs without a
  living job; every run ends and every job leaves the queue. **Engine**: an incremental run needs
  a baseline and keeps to the company of its cursor.
- **Grant**: a state is used once; the stored refresh token is the provider's newest; a renewal
  neither revives a removed grant nor restores a replaced one; no call waits forever.
- **Accounts**: restrictions leave one operational ADMIN; an account in use is below the limit of
  wrong passwords; only a lockout ends by itself; no request waits forever.
- **Proactive**: an insight is recorded once, announces what was reached, is narrated once and
  never changes then; it is read only after it was shown, and shown once; a queued narration is
  settled.
- **Conversation**: an offer is carried out once and never after it was refused; an ended query
  stays ended; a premise stays in force until it is replaced or leaves the list of the last
  eight, and one that was replaced does not come back.
- **Branding**: what is referred to can be delivered; nothing unreferenced is left; an image
  changes only by a request about it.

## 2. Modules

| Module | Models |
|---|---|
| `SyncRunLifecycle` | abstract: what `sync_runs` promises its readers; implemented by `ContaAzulSync` |
| `IntegrationLifecycle` | abstract: how the integration of a tenant may change under the synchronisation; implemented by `ContaAzulOAuth` for every tenant, taken as its environment by `ContaAzulSync` |
| `ContaAzulSync` | runs, service, planner, reconciliation, queue, worker and engine of one tenant |
| `ContaAzulOAuth` | OAuth states, grants, tokens, identification, disconnect, of several tenants |
| `UserAccounts` | logins, lockouts and the administrators' operations on accounts |
| `InsightLifecycle` | abstract: what `ai_insights` promises its readers |
| `ProactiveTriggers` | triggers, evaluation and narration; implements `InsightLifecycle` |
| `ProactiveDelivery` | presentation; extends `InsightLifecycle`, whose steps are where its insights come from. The two modules compose through it: what the delivery is shown to promise over the abstract life cycle, it promises over the triggers |
| `AdvisorConversation` | the context and runs of one conversation |
| `Branding` | branding rows, file rows and bytes |
| `*Proofs` | the theorems about the module named |
| `MC*` | symmetry and the bounds the configurations name |

One action stands for the code between two points that another process may notice: an await
of a query, a provider, a queue or a file. Consecutive reads on which nobody can act are one
action. In `UserAccounts` and `ContaAzulOAuth` transactions are taken apart at each statement
that may wait for a row.

### ContaAzulSync

| Variable | Code |
|---|---|
| `run` | `sync_runs`: status, trigger, time since `heartbeatAt` (before it, `startedAt`) |
| `job`, `failedEvents` | BullMQ's job of each run (id = run id): state, lock holder, stalls; 'failed' events not handled yet |
| `engine` | per worker process: where `execute` is, its run, the company it read first, the time it has run |
| `call` | per HTTP call or planner tick: where it is and the snapshot it decides on |
| `integration`, `tenantActive`, `baseline`, `cursor` | integration with credential and account; `tenants.status`; age of `lastSuccessfulSyncAt`; company of the PEOPLE cursor |

Calls: `StartCall`, `CurrentCall`, `DisconnectCall`, `PlanTick` begin; `Probe` asks the queue,
`Release` is the guarded markFailed, `Create` / `CreateViolation` the insert under the unique index,
`Reread` its one retry, `Enqueue` / `EnqueueError` / `EnqueueFailed` the `queue.add`. Engine: `Load`,
`Mark`, `FetchPage`, `AdvanceCursor`, `Recheck`, `Succeed`, `Fail` / `FailLost`. Worker: `Activate`,
`JobCompleted`, `JobFailed`, `HandleFailed` / `LoseFailedEvent`, `Crash`, `Restart`; `Stall` is BullMQ's
check.

Abstracted: pages, windows and mapping errors to "may throw"; time to ages that saturate at
the values the code compares them with; the callback, the renewals and the identification to the
steps of `IntegrationLifecycle`, which `ContaAzulOAuth` takes apart and is shown to implement: any
of them may come between any two steps of a run. A planned run starts at the
beginning of the tick (`startedAt: at`), which may lie back when the planner comes to its tenant
(`Started`). `EnqueueIsPrompt` assumes that no call waits a whole `Timeout` (30 minutes) between the
insert of its row and `queue.add`, nor a tick over all tenants between its beginning and the
`queue.add` of this one; without it a run about to be queued could be released.

### ContaAzulOAuth

| Variable | Code |
|---|---|
| `status`, `credential`, `account` | integration, credential and external account. A refresh token is its grant and the rotations behind it; of the access token only its freshness is kept |
| `rowLock`, `childLock` | the transaction that holds the integrations row; the disconnect that holds the rows it is deleting |
| `state` | OAuth states in Redis, consumed by GETDEL or expired |
| `provider`, `lost` | external: the grants as Conta Azul knows them; history: grants whose newest token was rolled back |
| `call` | per request or engine execution: its await, purpose and locals |

`Consume`, `Exchange`, `Persist`, `PersistCommit` are handleCallback; `Load`, `Lock`, `Ask`,
`RefreshCommit`, `AskFails`, `TransactionExpires`, `AnswerLate`, `MarkError` are refreshAccessToken, which asks
the provider while the row is locked; `WhoAmI`, `FindConflict`, `StoreAccount`, `MarkHealthy` are
identify; `Erase`, `DisconnectCommit`, `CreateDisconnected` are disconnect. The checks of session,
role and tenant have one effect, the first outcome of `Consume`. `WaitsFor` says whose row a
statement needs (the account's upsert also waits, where it inserts, for a renewal's `FOR UPDATE` on
the integrations row its foreign key names), `Deadlocked` whom PostgreSQL's detector may roll back; `IntegrationOf` is what the
synchronisation sees of a tenant.

### UserAccounts

| Variable | Code |
|---|---|
| `user` | users and credentials: status, `lockedUntil` (null, past, future), attempts, deactivated, removed |
| `lock` | the transaction that holds each row |
| `call` | per request: its await, its target, the administrators' rows still to lock |
| `undercut` | history: a lockout hit an administrator, or one became usable while a check was under way |

`StartLogin`, `Recover`, `Verify`, `RegisterFailure`, `RegisterSuccess` are a login, `StartRequest` and
`Recover` any other request; `StartRestriction`, `LockNextRow`, `LockTarget`, `WriteRestriction` are block and
disable, which lock the active administrators in the order of their ids, then the target, count,
and write. `Unblock`, `Enable`, `ResetPassword`, `Remove`, `CreateUser` with `StoreCredential` are the
other operations; `LockoutElapses` is time.

Left out: SUPER_ADMIN, PENDING, e-mails, sessions. A call is shorter than a lockout. A
`SELECT … FOR UPDATE` locks what is free at once, and PostgreSQL hands a row to who waits for it.

### ProactiveTriggers and ProactiveDelivery

| Variable | Code |
|---|---|
| `trigger`, `figures`, `advisor` | the configurations; the highest threshold the month's figures reach; whether the advisor is off, without a key or ready |
| `insight` | `ai_insights`: an occurrence is a trigger with the parameters it had |
| `evalJob`, `evaluation`; `job`, `narration` | BullMQ's jobs (state, lock holder, attempts, stalls) and their executions |
| `due` | history: figures were saved and no evaluation has begun since |
| `conversation`, `found`, `read` | a user's conversations, the insights findUserMessage finds in each, `ai_insight_reads` |
| `call`, `shown`, `disturbed` | requests; history: what was shown to whom, and whose requests overlapped or stopped half-way |

Evaluation: `SaveFigures` queues, `StartEvaluation` reads configurations and figures,
`RecordOccurrence` reads the trigger again and inserts, `ListAwaiting` and `EnqueueNarration` queue what
is not narrated, `FinishEvaluation`, `EvaluationFails`. Narration: `Narrate` up to the provider,
`NarrateFails` when a query before it rejects, `SaveNarration`, `NarrationFails`. Queues: `EvaluationStalls`, `NarrationStalls`, `DropEvaluation`,
`DropNarration`, `Die`. Delivery: `Present`, `ChooseConversation`, `LookForMessage`, `CreateMessage`,
`LinkInsights`, `Written`, `MarkRead`, `DeleteConversation`, `Abandon`.

One period and one subject; texts are model values; the two reads at the start of an
evaluation commute and are one step. Titles of one kind share a message.

### AdvisorConversation

| Variable | Code |
|---|---|
| `context`, `old` | `ai_conversations.analytical_context`: offer with status, last query, the list of premises, ACTIVE or superseded; offers older than 30 minutes |
| `message` | per message: where its `execute` is and its copy of the context, which `PersistBag` writes back whole |
| `run` | `ai_runs` |
| `ran`, `refused`, `forgotten`, `overlapped` | history: offers carried out or refused, ended queries, messages answered at once |
| `stated` | history: the premises stated, in order: whether the write was acknowledged, whether another replaced it; kept until messages overlap |

`Ask`, `Blocked`; `Gate` and `Resolve` are tryHandlePendingAnalyticalAction; `NewQuery`, `KeepQuery`; `NoPremise`,
`PremiseFound`, `PremiseUnanswered`; `Answer` with its replies that save before or after the message; `NothingOffered`,
`Offer`; `RunFails`, `Abandon`, `Expire`.

Offers and queries are named by the message that brought them about. Which branch a text takes
is a choice. The state of the families of questions is left out, their writes of the whole
context are kept (`SaveFamily`). FAILED stands for TIMEOUT too.

`WithPremise` is applyUserAssumptionToList: a premise may supersede one in force, which stays in the
list, and the list keeps the last `PremiseLimit` entries (eight in the code), superseded ones
included. Which one is superseded – what the user corrects, or the latest of the same role,
cadence and kind – depends on the text and is a choice. When the write succeeds and its answer is
lost, execute catches the error and goes on with a copy that does not know the premise
(`PremiseUnanswered`); its next write takes the premise away again.

### Branding

| Variable | Code |
|---|---|
| `owners`, `branding` | tenants and the platform; their branding rows with colours (present or not) and a file per kind of image |
| `rows`, `bytes`, `owner` | `files`; objects in the storage; whose file an id is, as its row and its storage key say |
| `call` | per request: its await, the file it uploads, the files it will drop |
| `failed`, `disturbed` | history: uploads answered with an error; owners whose requests overlapped, died, lost an answer of the database or could not delete a file |

`StartUpload`, `ReadPrevious`, `Put`, `CreateRow`, `SetImage`, `UploadFails`, `Undo` are the uploads;
`StartDelete`, `LookBeforeClearing`, `SetNull`, `RemoveRow` the deletions; `StartReset`, `Reset`; `StartUpdate`,
`Update`; `StartRemoval`, `RemoveTenant` the deletion of a tenant, whose foreign keys take rows along;
`Drop` the removal of each file's row and bytes, both of which ignore failures.

Any statement may reject and any process die between two of them. A statement may also have
been carried out although its answer was lost: that is how a reference to a file that `Undo`
deletes can come about (`failed`).

## 3. Checks

| Run | Question | Instance |
|---|---|---|
| `sync_calls` | `OneActiveRun`, `ReleaseOnlyDead`, the inductive invariant, the abstract life cycle | 2 runs, 2 calls that overlap, 1 worker, `Timeout` 2 |
| `sync_companies` | `IncrementalNeedsBaseline`, `CursorKeepsAccount` | 3 runs, 2 companies, 1 worker, 1 call |
| `sync_live` | types, `TerminalIsFinal`, `EveryRunEnds`, `QueueDrains` | 1 run, 1 worker that crashes and loses locks, 1 call, fair |
| `oauth_grant` | types, `StateUsedOnce`, `StoredTokenIsNewest`, `WaitsEnd`, `RenewalKeepsGrant`, `ImplementsIntegration`, `EveryCallEnds` | 1 tenant, 2 calls, 2 companies, 1 state, 1 grant, 1 rotation, fair |
| `accounts` | types, `AdminRemains`, `ActiveBelowLimit`, `OnlyLockoutsExpire` | 2 administrators, 1 user of a company, 2 requests, limit 2 |
| `accounts_live` | `OrderAvoidsDeadlock`, `EveryCallEnds` | 2 administrators, 2 requests, limit 2, fair |
| `narration` | types, `ImplementsLifecycle`, `ReachedUnlessEdited`, `NarrationSettles` | 1 trigger, 1 threshold, 1 evaluator, 2 narrators, 2 attempts, 1 stall, 2 texts, fair |
| `delivery` | types, `ReadWasShown`, `PresentedOnce` | 2 insights that share a message, a member and an operator, 2 conversations, 2 requests |
| `conversation` | types, `OfferRunsOnce`, `ForgottenStaysForgotten`, `PremisesRemain`, `ReplacedStaysReplaced` | 3 messages, one after the other or at once; 2 premises kept, so that the third drops the oldest; after an overlap, only while no premise is kept |
| `branding` | types, `ReferencedIsStored`, `NothingLeaks`, `OnlyOwnImage` | a tenant and the platform, logo and icon, 2 files, 2 requests |

Why these bounds: every race of this code is between one decision taken on what was read and
one step that makes it stale, so two requests (or two workers of one job) meet it. Two runs
are the least for the unique index, three for a cursor moved by two incremental runs. Two
administrators are the least of which both can be restricted, and the third account
tells a company's user from them. Three messages are an offer, its acceptance and one more
acceptance, and with `PremiseLimit` 2 they fill the list of premises and make it drop one; two
insights are a message that shows more than one; two files are a replacement or two concurrent
uploads. What an instance leaves out in number, the theorems of section 4
cover: several tenants and grants, more administrators, triggers, users, messages or files. In
particular:

- Two engines on one run, after a lost lock: no run has a second worker; `EndedRunsAreFinal` and
  `SyncImplementsLifecycle` hold for any workers.
- A trigger edited between the comparison and the record: with one threshold an edit changes
  nothing that is recorded, so `narration` shows `ReachedUnlessEdited` only for triggers left alone;
  `InsightsAreReached` covers any thresholds and edits, with the exception the property states.
- Two tenants that identify one company at once: `oauth_company` has one call, because one is
  enough to break what the documentation says.

Each property is broken by a plausible bug in the code it is about, named a mutant beside the
definition and listed in `PROJECT.json`.

Restrictions: `StaysConnected`, `TenantStaysEnabled`, `WorkersStayUp`, `LocksAreRenewed`,
`InitiallyConnected` in the synchronisation runs whose question lies elsewhere; `sync_live` and the
theorems do without. `PremisesUntilOverlap` stops `conversation` at states with a premise after messages
overlapped, of which only the types say anything: they are proved without it. `delivery` and `conversation` may stop (`CHECK_DEADLOCK FALSE`): all insights
read and all messages answered. `SYMMETRY` is used only without liveness.

### Exceptions that are part of a property

Some promises hold only while something does not happen, which a history variable records:

- `AdminRemains`: wrong passwords lock an administrator out without the check of the last one, and
  one who becomes ACTIVE while a check runs is not among the rows it has locked (`undercut`).
- `ReachedUnlessEdited`: recordOccurrence reads its trigger again; one edited meanwhile is recorded
  with parameters nobody compared.
- `NarrationSettles`: the advisor is switched off, or the job's attempts and stalls are used up.
- `PresentedOnce`: requests of one user overlap, one stops between the message and its links, or
  a conversation with the message is deleted.
- `StoredTokenIsNewest`: a transaction rolled back, or a process that died, after the provider had
  rotated the token (`lost`).
- The four properties of the conversation: nothing keeps a second message from being answered
  while the first is; each then writes back its own copy of the context.
- `PremisesRemain`: the list keeps the last eight, superseded ones included, so a premise is promised
  only until the eighth after it is stated; and one whose write was not acknowledged may
  go with the next write of the same message.
- `NothingLeaks`, `OnlyOwnImage`: requests of one owner overlap (what clearLogo or upsert decided about
  the other images is stale then), a process dies, or a file cannot be deleted. docs/14, 13.3
  leaves those files to a periodic cleanup, which is not implemented.

Where an exception is exactly what a hazard is about, no property catches it, and `PROJECT.json`
says so beside the hazard: a rotated token lost in a rollback, a lockout written over another
status, a narration skipped while the advisor is off, two requests presenting one insight, a
trigger edited before its record, two messages writing back their copies.

### Fairness

- `ContaAzulSync`: a worker that is up goes on, and one that died is restarted; a queued job is
  eventually taken; BullMQ's stalled check finds a job nobody executes; somebody keeps asking for
  the current run, as the integration page does (`company-integrations-page.tsx:159` of the
  front end, docs/18 section 7), and these calls do not fail every time. Reconciliation is opportunistic: without
  the last assumption a run whose failure was lost keeps the lock. Crashes, stalls and lost events
  are not restricted.
- `ContaAzulOAuth`, `UserAccounts`: requests have time limits, PostgreSQL grants a row to those who
  wait for it and detects deadlocks. The detector matters in both: a disconnect and a renewal lock
  integration and credential in opposite orders, and restrictions may wait for each other when an
  administrator becomes active or is restricted between their first statements. In the first
  module cycles of two are all there are (`WaitsEnd`); in the second three restrictions may form a
  longer one, so `Deadlocked` there is membership in any cycle of waits.
- `ProactiveTriggers`: waiting jobs are taken in turn (strong fairness, as workers die), executions
  end, stalled jobs are found. Nothing makes a queue forget the jobs it keeps.
- The others need none: each request is a finite sequence of steps.

### Where the code disagrees with its documentation

Two runs expect a violation; `PROJECT.json` quotes the lines.

- `oauth_company`: a renewal clears any error, `external_account_conflict` included, so two
  integrations end up CONNECTED to one company, with one call at a time.
- `evaluation_dropped`: the evaluation job's id is fixed per tenant and BullMQ keeps jobs that are
  over, so it ignores the next request; with Redis up and every worker fair the evaluation the
  new figures call for (docs/06, phase 14) may never take place.

Others met while modelling, which the properties above leave room for:

- A reconnection to another company during a run makes it store pages of both and succeed: the
  recheck before markSuccess (`conta-azul-sync.engine.ts:862`) does not compare companies
  (docs/18:238 "não mistura ERP").
- markSuccess guards the run but not the integration, so a run already FAILED still advances
  `lastSuccessfulSyncAt` (docs/18:148).
- A run may be opened between assertCanDisconnect and the disconnect (docs/18:170); markError of
  a call that failed writes ERROR over DISCONNECTED (docs/18:27); after a change of company the
  error asks for a manual synchronisation, which leaves the cursor as it is.
- A wrong password at the limit, counted after an administrator disabled the account, overwrites
  DISABLED with a temporary block that ends by itself (docs/16:164). The comment "anti-deadlock"
  at `user.repository.ts:255` does not hold for administrators that become active in between, nor,
  with three restrictions at once, for one that was restricted in between: who locked the older
  list waits for a row of who locked the newer one and has a target in the older.
- Two messages at once may carry out one offer twice, in spite of "Consome antes da execução para
  idempotência / anti-replay" (`send-advisor-message.ts:4231`); an independent question recognised
  by the model rather than by its wording does not end the last query (docs/21:42-44); a run that
  SUCCEEDED is rewritten FAILED if what follows its reply fails (docs/20:9-10).

## 4. Proofs

Every theorem holds for any sets of the constants and any positive bounds; the assumptions,
named beside the constants, say that the "none" values are not members and the bounds are
positive (that ids are natural numbers, where an order is used).

| Module | Theorems (property) |
|---|---|
| `ContaAzulSyncProofs` | `TypeCorrect` (`TypeOK`), `InvariantHolds` (`SyncInvariant`), `AtMostOneActiveRun`, `IncrementalAfterBaseline`, `EndedRunsAreFinal`, `ReleasesAreSafe`, `SyncImplementsLifecycle`, `CursorStaysWithCompany` and `OneWorkerKeepsCompany` (`CursorKeepsAccount`) |
| `ContaAzulOAuthProofs` | `TypeCorrect`, `InvariantHolds` (`GrantInvariant`), `StatesAreSingleUse`, `StoredTokensAreNewest`, `RenewalsKeepGrants`, `IntegrationImplemented` (`ImplementsIntegration`), `CallsWaitForProgress` (`WaitsEnd`) |
| `UserAccountsProofs` | `TypeCorrect`, `OperationalAdminRemains`, `ActiveAccountsBelowLimit`, `LockoutsExpireOnly`, `OrderedLocksAvoidDeadlock` (`OrderAvoidsDeadlock`) |
| `ProactiveTriggersProofs` | `TypeCorrect`, `TriggersImplementLifecycle`, `InsightsAreReached` |
| `ProactiveDeliveryProofs` | `TypeCorrect`, `ReadInsightsWereShown`, `InsightsPresentedOnce` |
| `AdvisorConversationProofs` | `TypeCorrect`, `OffersRunOnce`, `ForgottenQueriesStay`, `PremisesAreKept` (`PremisesRemain`), `ReplacedPremisesStay` (`ReplacedStaysReplaced`) |
| `BrandingProofs` | `TypeCorrect`, `ImagesAreStored`, `FilesDoNotLeak`, `ImagesAreChangedAlone` |

The inductive invariants, beside the types, and what needs them:

- **Sync** (`SyncInvariant`): `Assigned`, `Opened` – nobody holds a run that is not there; `Begun` – an
  engine that fetches has marked its run or found it ended, so PENDING never becomes SUCCESS;
  `Fresh` – while a call still has to queue its job, the run and every older snapshot of it are
  younger than `Timeout`, so nobody is about to release it; `ReleasedIsDead` – a run about to be
  released has no living job, and a dead job never comes to life; `OneActiveRun`; `Baselined`.
  `RunSteps` says once what a step may do to `sync_runs`. `CursorFollows` – an incremental
  execution that has yet to write its cursor read the company of the cursor there is – is inductive
  only while `OneExecution` holds: two engines that execute one stalled job may have read different
  companies. `CursorStaysWithCompany` therefore names that condition, and `OneWorkerKeepsCompany`
  discharges it for the one worker of the deployment (docs/10), crashes and restarts included.
- **Grant** (`GrantInvariant`): states are bound to the call that consumed them; a call past its lock
  holds the row and keeps the credential it read; grants are issued once and belong to one tenant;
  what a renewal is about to store is newer than what is stored, and a late answer is not stored.
  For `ImplementsIntegration`, `SeenInvariant`: the grants a call carries were issued, an issued grant
  keeps its company (so a rotation changes nothing that is seen), and a renewal past its lock
  renews a tenant that is not DISCONNECTED – a step that is not visible, but whose commit clears
  errors. For `WaitsEnd`, `LocksInUse`: each row is held by a call in the transaction that takes it, so
  a disconnect waits only while it holds no integrations row, and a renewal or callback holds
  that row while it waits for the others.
- **Accounts** (`AdminInvariant`): who is about to write a restriction holds its target; unless
  undercut, the administrators a check may still count are locked or in its reach, and another
  operational one is counted when it writes. Two checks therefore cannot remove each other's
  last administrator. For `OrderAvoidsDeadlock`, `LocksAscend`: until it has its target a restriction
  holds administrators only, and those it has yet to lock come after them. In a cycle of
  restrictions that are all at this, the one that is waited for at the least row would hold a
  smaller one; so somebody waits for its target, which `AdminsInReach` says is not operational.
- **Triggers**: types say when an execution belongs to its job; `EvaluationsReached` – what an
  evaluation still has to record is reached by the figures it read. The refinement maps each
  step to a step of `InsightLifecycle` or a stutter.
- **Delivery** (`ReadInvariant`, `OnceInvariant`): what a request has in hand is narrated, was shown
  before it is marked, and, for an undisturbed user, is found by the next request that looks for it.
- **Conversation** (`InHand`, while nothing overlapped): one message is in progress and its copy
  agrees with the context on offer and query (not on the premises, of which an unacknowledged
  write leaves it behind); the offer in the context is neither carried out nor refused while it is
  pending; ended queries are in no copy. (`PremisesInvariant`, likewise): the context and every copy
  in hand are `Faithful` to what was stated. An entry is at least as near the end of the list as its
  statement is to the end of the statements – the list has lost some, never gained – so what
  slice(-8) drops has eight stated after it; what was acknowledged and not replaced since is in
  force, and what was replaced is not. `Heard` – a premise is named by a message past its own
  step – keeps the new entry apart from the old ones.
- **Branding** (`StoredInvariant`): everybody deals with his owner's files; an uploaded file is one
  image at most, and before that one request's, stored and doomed by nobody; what an upload or a
  deletion will drop is at most the image it replaces, and no image any more when its turn comes.
  (`CleanInvariant`, for undisturbed owners): one request at a time, which takes along what it
  replaces or removes; each file is an image or the request's. Every step changes one owner's
  images and files, so each conjunct is shown for that owner only.

Only model-checked: liveness (`EveryRunEnds`, `QueueDrains`, both `EveryCallEnds`, `NarrationSettles`), which
the prover does not reach; `WaitsEnd` and `OrderAvoidsDeadlock` are the safety the two `EveryCallEnds` rest on.

## 5. Not modelled

- Contents of ledger, presence, transfer, cost-centre and balance pages; the rate limiter: data
  and waits, sequential under the engine.
- Classification of texts, tools, facts and families of the advisor; analytics, finance,
  dashboard, reports: functions of data already stored, for which the repository has unit tests.
- Support mode, sessions, SUPER_ADMIN and PENDING accounts; tenants but for their status and their
  deletion; the bootstrap of suggested triggers, a sequence of creations; `ai_runs` of narrations.
- HTTP schemas, rendering, configuration scripts, front end; only its polling appears, as fairness.

## 6. What is left

1. Support mode: `support_sessions` beside the whole-session writes of the Redis store, with
   logins and other requests of the operator at the same time.
2. Presence of instalments: tombstones and reappearance over the pages of two runs.
3. The jobs of several tenants sharing the limit of kept jobs of the evaluation queue.
