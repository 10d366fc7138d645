-------------------------- MODULE ProactiveTriggers --------------------------
(***************************************************************************)
(* The proactive triggers of one tenant: their administration, the queue   *)
(* that evaluates them after a synchronisation or a new goal, the facts an *)
(* evaluation records, and the queue that has each of them narrated.       *)
(*                                                                         *)
(* One period and one subject: an occurrence is a trigger together with    *)
(* the parameters it had.  Each parameter is a threshold, and the tenant's *)
(* figures are the highest threshold they reach.  A job's id is that of    *)
(* its tenant or of its insight, and BullMQ ignores an id it still has.    *)
(***************************************************************************)
EXTENDS Naturals

CONSTANTS
    Triggers,      \* ids of proactive_trigger_configurations, all of one type
    MaxThreshold,
    Evaluators,    \* executions of evaluation jobs: one, or more when locks are lost
    Narrators,     \* likewise for narration jobs
    NoWorker,
    MaxAttempts,   \* attempts of a job
    MaxStalls,     \* how often a job may stall (BullMQ: once)
    Texts, NoText

Thresholds == 1..MaxThreshold
Insights == Triggers \X Thresholds

ASSUME TriggersAssumption ==
    /\ Triggers \subseteq Nat
    /\ MaxThreshold \in Nat
    /\ NoWorker \notin Evaluators \cup Narrators
    /\ MaxAttempts \in Nat \ {0}
    /\ MaxStalls \in Nat
    /\ NoText \notin Texts

VARIABLES
    trigger,    \* the configurations
    figures,    \* the tenant's figures in the current month
    insight,    \* ai_insights, one for each analytical event
    advisor,    \* the tenant's advisor: switched off, without a key, or ready
    evalJob, evaluation,   \* the tenant's evaluation job, and its executions
    job, narration,        \* the insights' narration jobs, and their executions
    due         \* history: figures were saved and no evaluation has begun since

vars == << trigger, figures, insight, advisor, evalJob, evaluation,
           job, narration, due >>
evaluating == << evalJob, evaluation, due >>
narrating  == << job, narration >>

-----------------------------------------------------------------------------
(* Data *)

Lifecycle == INSTANCE InsightLifecycle

TriggerRow == [state: {"none", "active", "inactive", "deleted"}, threshold: 0..MaxThreshold]
NoTrigger == [state |-> "none", threshold |-> 0]

Job(workers) == [state: {"none", "waiting", "active", "completed", "failed"},
                 owner: workers \cup {NoWorker},
                 attempts: 0..MaxAttempts, stalls: 0..MaxStalls]
NoJob == [state |-> "none", owner |-> NoWorker, attempts |-> 0, stalls |-> 0]

Evaluation == [pc: {"idle", "record", "list", "enqueue"}, todo: SUBSET Insights,
               figures: 0..MaxThreshold]
NoEvaluation == [pc |-> "idle", todo |-> {}, figures |-> 0]
NoNarration == {}   \* an execution is the insight it narrates

TypeOK ==
    /\ trigger \in [Triggers -> TriggerRow]
    /\ figures \in 0..MaxThreshold
    /\ insight \in [Insights -> Lifecycle!InsightRow]
    /\ advisor \in {"off", "nokey", "ready"}
    /\ evalJob \in Job(Evaluators)
    /\ evaluation \in [Evaluators -> Evaluation]
    /\ job \in [Insights -> Job(Narrators)]
    /\ narration \in [Narrators -> SUBSET Insights]
    /\ due \in BOOLEAN

Init ==
    /\ trigger = [k \in Triggers |-> NoTrigger]
    /\ figures \in 0..MaxThreshold
    /\ insight = [i \in Insights |-> Lifecycle!Undetected]
    /\ advisor \in {"off", "nokey", "ready"}
    /\ evalJob = NoJob
    /\ evaluation = [e \in Evaluators |-> NoEvaluation]
    /\ job = [i \in Insights |-> NoJob]
    /\ narration = [w \in Narrators |-> NoNarration]
    /\ due = FALSE

-----------------------------------------------------------------------------
(* Jobs *)

\* queue.add: an id the queue still has, also of a job it keeps as a record, is ignored.
Added(j)    == IF j.state = "none" THEN [NoJob EXCEPT !.state = "waiting"] ELSE j
Taken(j, w) == [j EXCEPT !.state = "active", !.owner = w]

\* Only the worker that has the job's lock can end it.
Ended(j, w, state) == IF j.owner = w THEN [NoJob EXCEPT !.state = state] ELSE j
Completed(j, w) == Ended(j, w, "completed")

\* Mutant: the attempts are counted and never looked at.
RetriedForever(j, w) ==
    IF j.owner = w THEN [j EXCEPT !.state = "waiting", !.owner = NoWorker, !.attempts = @ + 1]
                   ELSE j

FailedOnce(j, w) ==
    IF j.owner = w /\ j.attempts + 1 < MaxAttempts
      THEN [j EXCEPT !.state = "waiting", !.owner = NoWorker, !.attempts = @ + 1]
      ELSE Ended(j, w, "failed")

\* The lock of an active job was not renewed: it waits again, or fails for good.
Stalled(j) ==
    IF j.stalls < MaxStalls
      THEN [j EXCEPT !.state = "waiting", !.owner = NoWorker, !.stalls = @ + 1]
      ELSE [NoJob EXCEPT !.state = "failed"]

\* Completed and failed jobs are dropped when enough others have ended after them.
Over(j) == j.state \in {"completed", "failed"}

-----------------------------------------------------------------------------
(* Administration *)

Configured(k) == trigger[k].state \in {"active", "inactive"}
Duplicate(k, n) == \E l \in Triggers \ {k} : Configured(l) /\ trigger[l].threshold = n
HasHistory(k) == \E n \in Thresholds : insight[<<k, n>>] # Lifecycle!Undetected

CreateTrigger(k, n) ==
    /\ trigger[k].state = "none"
    /\ ~ Duplicate(k, n)
    /\ trigger' = [trigger EXCEPT ![k] = [state |-> "active", threshold |-> n]]
    /\ UNCHANGED << figures, insight, advisor, evaluating, narrating >>

UpdateParameters(k, n) ==
    /\ Configured(k)
    /\ ~ Duplicate(k, n)
    /\ trigger' = [trigger EXCEPT ![k].threshold = n]
    /\ UNCHANGED << figures, insight, advisor, evaluating, narrating >>

SetActive(k, state) ==
    /\ Configured(k)
    /\ trigger' = [trigger EXCEPT ![k].state = state]
    /\ UNCHANGED << figures, insight, advisor, evaluating, narrating >>

\* deleteIfNoHistory: the foreign key refuses what its count did not see.
DeleteIfNoHistory(k) ==
    /\ Configured(k)
    /\ ~ HasHistory(k)
    /\ trigger' = [trigger EXCEPT ![k] = [NoTrigger EXCEPT !.state = "deleted"]]
    /\ UNCHANGED << figures, insight, advisor, evaluating, narrating >>

SetAdvisor(mode) ==
    /\ advisor' = mode
    /\ UNCHANGED << trigger, figures, insight, evaluating, narrating >>

-----------------------------------------------------------------------------
(* Evaluation *)

\* A synchronisation succeeds or a goal of this month is saved; a failure to enqueue is
\* swallowed.
SaveFigures(n) ==
    /\ figures' = n
    /\ \/ evalJob' = Added(evalJob) /\ due' = TRUE
       \/ UNCHANGED << evalJob, due >>
    /\ UNCHANGED << trigger, insight, advisor, evaluation, narrating >>

Qualified == {i \in Insights : /\ trigger[i[1]] = [state |-> "active", threshold |-> i[2]]
                               /\ i[2] <= figures}

\* Mutant: the threshold itself is not looked at.
StartUnqualified(e) ==
    /\ evaluation[e].pc = "idle"
    /\ evalJob.state = "waiting"
    /\ evalJob' = Taken(evalJob, e)
    /\ due' = FALSE
    /\ evaluation' = [evaluation EXCEPT ![e] =
           [pc |-> "record", figures |-> figures,
            todo |-> {i \in Insights : trigger[i[1]] = [state |-> "active",
                                                        threshold |-> i[2]]}]]
    /\ UNCHANGED << trigger, figures, insight, advisor, narrating >>

\* The active triggers and the figures are read once.  The two reads count as one: a
\* change of a trigger and one of the figures between them commute.
StartEvaluation(e) ==
    /\ evaluation[e].pc = "idle"
    /\ evalJob.state = "waiting"
    /\ evalJob' = Taken(evalJob, e)
    /\ due' = FALSE
    /\ evaluation' = [evaluation EXCEPT ![e] = [pc |-> "record", todo |-> Qualified,
                                                figures |-> figures]]
    /\ UNCHANGED << trigger, figures, insight, advisor, narrating >>

\* In the order of their parameters.
NextFact(e) == CHOOSE i \in evaluation[e].todo : \A j \in evaluation[e].todo : i[2] <= j[2]

\* recordOccurrence reads the trigger again: what is recorded has its present parameters.
RecordOccurrence(e) ==
    LET k == NextFact(e)[1]
        i == << k, trigger[k].threshold >> IN
    /\ evaluation[e].pc = "record"
    /\ evaluation[e].todo # {}
    /\ trigger[k].state = "active"
    /\ evaluation' = [evaluation EXCEPT ![e].todo = @ \ {NextFact(e)}]
    /\ IF insight[i] = Lifecycle!Undetected
         THEN Lifecycle!Detect(i)
         ELSE UNCHANGED insight
    /\ UNCHANGED << trigger, figures, advisor, evalJob, due, narrating >>

\* The trigger is inactive or gone by now, another execution records the same occurrence,
\* or the database fails: the rest is left to the job's next attempt.
EvaluationFails(e) ==
    /\ evaluation[e].pc # "idle"
    /\ evaluation' = [evaluation EXCEPT ![e] = NoEvaluation]
    /\ evalJob' = FailedOnce(evalJob, e)
    /\ UNCHANGED << trigger, figures, insight, advisor, due, narrating >>

ListAwaiting(e) ==
    /\ evaluation[e].pc = "record"
    /\ evaluation[e].todo = {}
    /\ evaluation' = [evaluation EXCEPT ![e] =
           [pc |-> "enqueue", figures |-> 0,
            todo |-> {i \in Insights : insight[i] = Lifecycle!Awaiting}]]
    /\ UNCHANGED << trigger, figures, insight, advisor, evalJob, due,
                    narrating >>

\* One that cannot be enqueued is left for the next evaluation.
EnqueueNarration(e, i) ==
    /\ evaluation[e].pc = "enqueue"
    /\ i \in evaluation[e].todo
    /\ evaluation' = [evaluation EXCEPT ![e].todo = @ \ {i}]
    /\ job' \in {job, [job EXCEPT ![i] = Added(@)]}
    /\ UNCHANGED << trigger, figures, insight, advisor, evalJob, due,
                    narration >>

FinishEvaluation(e) ==
    /\ evaluation[e].pc = "enqueue"
    /\ evaluation[e].todo = {}
    /\ evaluation' = [evaluation EXCEPT ![e] = NoEvaluation]
    /\ evalJob' = Completed(evalJob, e)
    /\ UNCHANGED << trigger, figures, insight, advisor, due, narrating >>

-----------------------------------------------------------------------------
(* Narration *)

Narrating(w, i) == narration[w] = {i}

\* Mutant: a missing key ends the job without a word about the insight.
NarrateSilently(w, i) ==
    /\ narration[w] = NoNarration
    /\ job[i].state = "waiting"
    /\ IF advisor = "ready" /\ Lifecycle!Eligible(i)
         THEN narration' = [narration EXCEPT ![w] = {i}] /\ job' = [job EXCEPT ![i] = Taken(@, w)]
         ELSE UNCHANGED narration /\ job' = [job EXCEPT ![i] = Completed(Taken(@, w), w)]
    /\ UNCHANGED << trigger, figures, insight, advisor, evaluating >>

\* narrate, up to the provider.  Nothing is left to do when the insight is narrated or
\* the advisor off; without a key the narration fails, and is not tried again.
Narrate(w, i) ==
    /\ narration[w] = NoNarration
    /\ job[i].state = "waiting"
    /\ IF advisor = "ready" /\ Lifecycle!Eligible(i)
         THEN narration' = [narration EXCEPT ![w] = {i}] /\ job' = [job EXCEPT ![i] = Taken(@, w)]
         ELSE UNCHANGED narration /\ job' = [job EXCEPT ![i] = Completed(Taken(@, w), w)]
    /\ IF advisor = "nokey" /\ Lifecycle!Eligible(i) THEN Lifecycle!Fail(i)
                                                     ELSE UNCHANGED insight
    /\ UNCHANGED << trigger, figures, advisor, evaluating >>

\* Before the provider is asked a query may fail, and the job with it: when there is no
\* key, before the failure is marked or after it.
NarrateFails(w, i) ==
    /\ narration[w] = NoNarration
    /\ job[i].state = "waiting"
    /\ job' = [job EXCEPT ![i] = FailedOnce(Taken(@, w), w)]
    /\ \/ UNCHANGED insight
       \/ advisor = "nokey" /\ Lifecycle!Eligible(i) /\ Lifecycle!Fail(i)
    /\ UNCHANGED << trigger, figures, advisor, evaluating, narration >>

\* Mutant: saveNarration does not look at the status.
SaveUnguarded(w, i) ==
    /\ Narrating(w, i)
    /\ narration' = [narration EXCEPT ![w] = NoNarration]
    /\ \E x \in Texts : insight' = [insight EXCEPT ![i] = Lifecycle!Narrated(x)]
    /\ job' = [job EXCEPT ![i] = Completed(@, w)]
    /\ UNCHANGED << trigger, figures, advisor, evaluating >>

\* The answer is saved unless another execution has saved one; the record of the run
\* that follows may fail, and the job with it.
SaveNarration(w, i) ==
    /\ Narrating(w, i)
    /\ narration' = [narration EXCEPT ![w] = NoNarration]
    /\ IF Lifecycle!Eligible(i) THEN \E x \in Texts : Lifecycle!Narrate(i, x)
                                ELSE UNCHANGED insight
    /\ job' \in {[job EXCEPT ![i] = Completed(@, w)], [job EXCEPT ![i] = FailedOnce(@, w)]}
    /\ UNCHANGED << trigger, figures, advisor, evaluating >>

\* The provider, its answer or the database fails.
NarrationFails(w, i) ==
    /\ Narrating(w, i)
    /\ narration' = [narration EXCEPT ![w] = NoNarration]
    /\ job' = [job EXCEPT ![i] = FailedOnce(@, w)]
    /\ \/ UNCHANGED insight
       \/ Lifecycle!Fail(i)
    /\ UNCHANGED << trigger, figures, advisor, evaluating >>

-----------------------------------------------------------------------------
(* Crashes, lost locks and the jobs the queues keep *)

\* The process dies; its jobs stay active until they are found stalled.
Die ==
    /\ evaluation' = [e \in Evaluators |-> NoEvaluation]
    /\ narration' = [w \in Narrators |-> NoNarration]
    /\ UNCHANGED << trigger, figures, insight, advisor, evalJob, due, job >>

\* The worker is dead, or goes on without the lock.
EvaluationStalls ==
    /\ evalJob.state = "active"
    /\ evalJob' = Stalled(evalJob)
    /\ UNCHANGED << trigger, figures, insight, advisor, evaluation, due,
                    narrating >>

NarrationStalls(i) ==
    /\ job[i].state = "active"
    /\ job' = [job EXCEPT ![i] = Stalled(@)]
    /\ UNCHANGED << trigger, figures, insight, advisor, evaluating,
                    narration >>

DropEvaluation ==
    /\ Over(evalJob)
    /\ evalJob' = NoJob
    /\ UNCHANGED << trigger, figures, insight, advisor, evaluation, due,
                    narrating >>

DropNarration(i) ==
    /\ Over(job[i])
    /\ job' = [job EXCEPT ![i] = NoJob]
    /\ UNCHANGED << trigger, figures, insight, advisor, evaluating,
                    narration >>

-----------------------------------------------------------------------------

Administration ==
    \/ \E k \in Triggers :
          \/ \E n \in Thresholds : CreateTrigger(k, n) \/ UpdateParameters(k, n)
          \/ \E state \in {"active", "inactive"} : SetActive(k, state)
          \/ DeleteIfNoHistory(k)
    \/ \E mode \in {"off", "nokey", "ready"} : SetAdvisor(mode)

EvaluationStep(e) ==
    \/ RecordOccurrence(e) \/ EvaluationFails(e) \/ ListAwaiting(e)
    \/ \E i \in Insights : EnqueueNarration(e, i)
    \/ FinishEvaluation(e)

NarrationStep(w, i) == SaveNarration(w, i) \/ NarrationFails(w, i)

Next ==
    \/ Administration
    \/ \E n \in 0..MaxThreshold : SaveFigures(n)
    \/ \E e \in Evaluators : StartEvaluation(e) \/ EvaluationStep(e)
    \/ \E w \in Narrators, i \in Insights :
          Narrate(w, i) \/ NarrateFails(w, i) \/ NarrationStep(w, i)
    \/ Die \/ EvaluationStalls \/ DropEvaluation
    \/ \E i \in Insights : NarrationStalls(i) \/ DropNarration(i)

Spec == Init /\ [][Next]_vars

(* Fairness.  Waiting jobs are taken in turn, what a worker does ends, and the job of *)
(* a worker that died is found.  Nothing makes a queue drop the jobs that are over.   *)
Fairness ==
    /\ SF_vars(\E e \in Evaluators : StartEvaluation(e))
    /\ \A e \in Evaluators : WF_vars(EvaluationStep(e))
    /\ WF_vars(EvaluationStalls /\ evaluation[evalJob.owner].pc = "idle")
    /\ \A i \in Insights :
          /\ SF_vars(\E w \in Narrators : Narrate(w, i))
          /\ \A w \in Narrators : WF_vars(NarrationStep(w, i))
          /\ WF_vars(NarrationStalls(i) /\ ~ Narrating(job[i].owner, i))

FairSpec == Spec /\ Fairness

-----------------------------------------------------------------------------
(* What the triggers promise *)

\* Whatever is evaluated twice, retried or executed by two workers at once, every insight
\* follows its lifecycle: recorded once, never removed, final when narrated.
ImplementsLifecycle == Lifecycle!InsightSpec

\* No insight announces a threshold the figures of its evaluation had not reached, unless
\* its trigger was edited after the evaluation had compared it.
ReachedUnlessEdited ==
    [][\A i \in Insights :
          insight[i] = Lifecycle!Undetected /\ insight'[i] # Lifecycle!Undetected =>
             \E e \in Evaluators :
                /\ evaluation'[e] # evaluation[e]
                /\ \/ i \in evaluation[e].todo /\ i[2] <= evaluation[e].figures
                   \/ NextFact(e) # i]_vars

\* An insight whose narration is queued is narrated or known to have failed, unless the
\* advisor is off meanwhile or its workers give up on the job.
NarrationSettles ==
    \A i \in Insights :
        job[i].state = "waiting" ~> \/ insight[i] \notin {Lifecycle!Undetected,
                                                          Lifecycle!Awaiting}
                                    \/ advisor = "off"
                                    \/ job[i].state = "failed"

-----------------------------------------------------------------------------
(* What the documentation says and the code does not keep *)

\* docs/06, phase 14: the evaluation runs after a successful synchronisation and after a
\* goal of the current month is saved.
EvaluationFollowsFigures == due ~> ~ due
=============================================================================
