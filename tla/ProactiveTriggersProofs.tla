------------------------ MODULE ProactiveTriggersProofs ------------------------
(***************************************************************************)
(* What holds of ProactiveTriggers for any triggers, thresholds, texts and *)
(* workers and any number of attempts and stalls.                          *)
(***************************************************************************)
EXTENDS ProactiveTriggers, WellFoundedInduction, TLAPS

-----------------------------------------------------------------------------
(* Jobs *)

LEMMA JobTypes ==
    ASSUME NEW workers, NEW j \in Job(workers), NEW w \in workers
    PROVE  /\ NoJob \in Job(workers)
           /\ Added(j) \in Job(workers)
           /\ Taken(j, w) \in Job(workers)
           /\ Completed(j, w) \in Job(workers)
           /\ FailedOnce(j, w) \in Job(workers)
<1> USE TriggersAssumption
<1>1. NoJob \in Job(workers)
  BY DEF NoJob, Job
<1>2. Added(j) \in Job(workers)
  BY <1>1 DEF Added, Job
<1>3. Taken(j, w) \in Job(workers)
  BY DEF Taken, Job
<1>4. ASSUME NEW state \in {"completed", "failed"}
      PROVE  Ended(j, w, state) \in Job(workers)
  BY <1>1 DEF Ended, Job
<1>5. CASE j.owner = w /\ j.attempts + 1 < MaxAttempts
  <2> DEFINE n == j.attempts + 1
             retry == [j EXCEPT !.state = "waiting", !.owner = NoWorker, !.attempts = n]
  <2>1. n \in 0..MaxAttempts
    BY <1>5 DEF Job
  <2>2. FailedOnce(j, w) = retry
    BY <1>5 DEF FailedOnce, Job
  <2> HIDE DEF n
  <2>3. retry \in Job(workers)
    BY <2>1 DEF Job
  <2> QED BY <1>1, <1>2, <1>3, <1>4, <2>2, <2>3 DEF Completed
<1>6. CASE ~ (j.owner = w /\ j.attempts + 1 < MaxAttempts)
  BY <1>1, <1>2, <1>3, <1>4, <1>6 DEF Completed, FailedOnce
<1> QED BY <1>5, <1>6

LEMMA StalledTypes ==
    ASSUME NEW workers, NEW j \in Job(workers)
    PROVE  Stalled(j) \in Job(workers) /\ NoJob \in Job(workers)
<1> USE TriggersAssumption
<1>1. NoJob \in Job(workers) /\ [NoJob EXCEPT !.state = "failed"] \in Job(workers)
  BY DEF NoJob, Job
<1>2. CASE j.stalls < MaxStalls
  <2> DEFINE n == j.stalls + 1
             again == [j EXCEPT !.state = "waiting", !.owner = NoWorker, !.stalls = n]
  <2>1. n \in 0..MaxStalls
    BY <1>2 DEF Job
  <2>2. Stalled(j) = again
    BY <1>2 DEF Stalled, Job
  <2> HIDE DEF n
  <2>3. again \in Job(workers)
    BY <2>1 DEF Job
  <2> QED BY <1>1, <2>2, <2>3
<1> QED BY <1>1, <1>2 DEF Stalled

-----------------------------------------------------------------------------
(* Insights *)

\* A step records, fails or narrates at most one insight.
InsightStep ==
    \/ UNCHANGED insight
    \/ \E i \in Insights : Lifecycle!Detect(i) \/ Lifecycle!Fail(i)
                           \/ \E x \in Texts : Lifecycle!Narrate(i, x)

InsightsTyped == insight \in [Insights -> Lifecycle!InsightRow]

LEMMA InsightStepTypes ==
    ASSUME InsightsTyped, InsightStep
    PROVE  InsightsTyped'
<1>1. ASSUME NEW i \in Insights, NEW row \in Lifecycle!InsightRow,
             insight' = [insight EXCEPT ![i] = row]
      PROVE  InsightsTyped'
  BY <1>1 DEF InsightsTyped
<1>2. /\ Lifecycle!Awaiting \in Lifecycle!InsightRow /\ Lifecycle!Failed \in Lifecycle!InsightRow
      /\ \A x \in Texts : Lifecycle!Narrated(x) \in Lifecycle!InsightRow
  BY DEF Lifecycle!InsightRow
<1>3. CASE UNCHANGED insight
  BY <1>3 DEF InsightsTyped
<1>4. ASSUME NEW i \in Insights, Lifecycle!Detect(i) \/ Lifecycle!Fail(i)
      PROVE  InsightsTyped'
  BY <1>1, <1>2, <1>4 DEF Lifecycle!Detect, Lifecycle!Fail
<1>5. ASSUME NEW i \in Insights, NEW x \in Texts, Lifecycle!Narrate(i, x)
      PROVE  InsightsTyped'
  BY <1>1, <1>2, <1>5 DEF Lifecycle!Narrate
<1> QED BY <1>3, <1>4, <1>5 DEF InsightStep

\* What an evaluation records may be a fact it did not list, of the same trigger, but
\* never anything outside the lifecycle.
LEMMA RecordingStep ==
    ASSUME InsightsTyped, NEW e \in Evaluators, RecordOccurrence(e)
    PROVE  InsightStep
<1> DEFINE i == << NextFact(e)[1], trigger[NextFact(e)[1]].threshold >>
<1>1. Lifecycle!Detect(i) \/ UNCHANGED insight
  BY DEF RecordOccurrence
<1>2. i \notin Insights /\ Lifecycle!Detect(i) => UNCHANGED insight
  BY DEF Lifecycle!Detect, InsightsTyped
<1> HIDE DEF i
<1> QED BY <1>1, <1>2 DEF InsightStep

LEMMA InsightSteps ==
    ASSUME InsightsTyped, Next
    PROVE  InsightStep
<1>1. CASE Administration \/ \E n \in 0..MaxThreshold : SaveFigures(n)
  BY <1>1 DEF Administration, CreateTrigger, UpdateParameters, SetActive, DeleteIfNoHistory,
              SetAdvisor, SaveFigures, InsightStep
<1>2. ASSUME NEW e \in Evaluators, StartEvaluation(e) \/ EvaluationStep(e)
      PROVE  InsightStep
  BY <1>2, RecordingStep DEF StartEvaluation, EvaluationStep, EvaluationFails, ListAwaiting,
              EnqueueNarration, FinishEvaluation, InsightStep
<1>3. ASSUME NEW w \in Narrators, NEW i \in Insights,
             Narrate(w, i) \/ NarrateFails(w, i) \/ NarrationStep(w, i)
      PROVE  InsightStep
  BY <1>3 DEF Narrate, NarrateFails, NarrationStep, SaveNarration, NarrationFails, InsightStep
<1>4. CASE \/ Die \/ EvaluationStalls \/ DropEvaluation
           \/ \E i \in Insights : NarrationStalls(i) \/ DropNarration(i)
  BY <1>4 DEF Die, EvaluationStalls, DropEvaluation, NarrationStalls, DropNarration, InsightStep
<1> QED BY <1>1, <1>2, <1>3, <1>4 DEF Next

-----------------------------------------------------------------------------
(* Evaluations *)

LEMMA LeastNumber ==
    ASSUME NEW S, S \subseteq Nat, S # {}
    PROVE  \E n \in S : \A m \in S : n <= m
<1>1. PICK n \in S : \A m \in S : ~ (<< m, n >> \in OpToRel(<, Nat))
  BY WFMin, NatLessThanWellFounded, Zenon
<1>2. \A m \in S : m \in Nat /\ n \in Nat /\ ~ (m < n)
  BY <1>1 DEF OpToRel
<1> QED BY <1>2

LEMMA NextFactListed ==
    ASSUME TypeOK, NEW e \in Evaluators, evaluation[e].todo # {}
    PROVE  NextFact(e) \in evaluation[e].todo
<1> DEFINE S == evaluation[e].todo
           numbers == {i[2] : i \in S}
<1>1. S \subseteq Insights
  BY DEF TypeOK, Evaluation
<1>2. \A i \in S : i[2] \in Nat
  BY <1>1, TriggersAssumption DEF Insights, Thresholds
<1>3. numbers \subseteq Nat /\ numbers # {}
  BY <1>2
<1> HIDE DEF S
<1>4. PICK n \in numbers : \A m \in numbers : n <= m
  BY <1>3, LeastNumber
<1>5. PICK i \in S : i[2] = n
  BY <1>4
<1>6. \A j \in S : i[2] <= j[2]
  BY <1>4, <1>5
<1> QED BY <1>5, <1>6 DEF NextFact, S

\* What an evaluation has yet to record was reached by the figures it read.
FactsReached(e) ==
    evaluation[e].pc = "record" => \A i \in evaluation[e].todo : i[2] <= evaluation[e].figures

EvaluationsReached == \A e \in Evaluators : FactsReached(e)

\* What a step may make of the evaluations: one goes on, or all are lost.
EvaluationOK(row) ==
    /\ row \in Evaluation
    /\ row.pc = "record" => \A i \in row.todo : i[2] <= row.figures
OneEvaluation(e) ==
    /\ evaluation' = [evaluation EXCEPT ![e] = evaluation'[e]]
    /\ EvaluationOK(evaluation'[e])
EvaluationsStep ==
    \/ UNCHANGED evaluation
    \/ evaluation' = [e \in Evaluators |-> NoEvaluation]
    \/ \E e \in Evaluators : OneEvaluation(e)

LEMMA NoEvaluationOK == EvaluationOK(NoEvaluation)
BY TriggersAssumption DEF EvaluationOK, NoEvaluation, Evaluation

LEMMA NewEvaluation ==
    ASSUME TypeOK, NEW e \in Evaluators, NEW row, EvaluationOK(row),
           evaluation' = [evaluation EXCEPT ![e] = row]
    PROVE  EvaluationsStep
<1>1. evaluation'[e] = row
  BY DEF TypeOK
<1> QED BY <1>1 DEF EvaluationsStep, OneEvaluation

LEMMA EvaluationProgress ==
    ASSUME TypeOK, EvaluationsReached, NEW e \in Evaluators, StartEvaluation(e) \/ EvaluationStep(e)
    PROVE  EvaluationsStep
<1>0. evaluation[e] \in Evaluation /\ EvaluationOK(evaluation[e])
  BY DEF TypeOK, EvaluationsReached, FactsReached, EvaluationOK
<1>1. CASE StartEvaluation(e)
  <2> DEFINE row == [pc |-> "record", todo |-> Qualified, figures |-> figures]
  <2>1. Qualified \subseteq Insights /\ \A i \in Qualified : i[2] <= figures
    BY DEF Qualified
  <2>2. EvaluationOK(row)
    BY <2>1 DEF EvaluationOK, Evaluation, TypeOK
  <2>3. evaluation' = [evaluation EXCEPT ![e] = row]
    BY <1>1 DEF StartEvaluation
  <2> HIDE DEF row
  <2> QED BY <2>2, <2>3, NewEvaluation
<1>2. ASSUME NEW done, evaluation' = [evaluation EXCEPT ![e].todo = @ \ {done}]
      PROVE  EvaluationsStep
  <2> DEFINE row == [evaluation[e] EXCEPT !.todo = @ \ {done}]
  <2>1. row \in Evaluation
    BY <1>0 DEF Evaluation
  <2>2. /\ row.pc = evaluation[e].pc /\ row.figures = evaluation[e].figures
        /\ row.todo \subseteq evaluation[e].todo
    BY <1>0 DEF Evaluation
  <2>3. evaluation' = [evaluation EXCEPT ![e] = row]
    BY <1>2
  <2> HIDE DEF row
  <2>4. EvaluationOK(row)
    BY <1>0, <2>1, <2>2 DEF EvaluationOK
  <2> QED BY <2>3, <2>4, NewEvaluation
<1>3. CASE RecordOccurrence(e)
  BY <1>2, <1>3 DEF RecordOccurrence
<1>4. CASE EvaluationFails(e) \/ FinishEvaluation(e)
  BY <1>4, NoEvaluationOK, NewEvaluation DEF EvaluationFails, FinishEvaluation
<1>5. CASE ListAwaiting(e)
  <2> DEFINE todo == {i \in Insights : insight[i] = Lifecycle!Awaiting}
             row == [pc |-> "enqueue", figures |-> 0, todo |-> todo]
  <2>1. todo \subseteq Insights
    OBVIOUS
  <2>2. evaluation' = [evaluation EXCEPT ![e] = row]
    BY <1>5 DEF ListAwaiting
  <2> HIDE DEF todo
  <2>3. 0 \in 0..MaxThreshold
    BY TriggersAssumption
  <2>4. EvaluationOK(row)
    BY <2>1, <2>3 DEF EvaluationOK, Evaluation
  <2> HIDE DEF row
  <2> QED BY <2>2, <2>4, NewEvaluation
<1>6. CASE \E i \in Insights : EnqueueNarration(e, i)
  BY <1>2, <1>6 DEF EnqueueNarration
<1> QED BY <1>1, <1>3, <1>4, <1>5, <1>6 DEF EvaluationStep

LEMMA EvaluationsSteps ==
    ASSUME TypeOK, EvaluationsReached, Next
    PROVE  EvaluationsStep
<1>1. CASE Administration \/ \E n \in 0..MaxThreshold : SaveFigures(n)
  BY <1>1 DEF Administration, CreateTrigger, UpdateParameters, SetActive, DeleteIfNoHistory,
              SetAdvisor, SaveFigures, EvaluationsStep, evaluating
<1>2. ASSUME NEW w \in Narrators, NEW i \in Insights,
             Narrate(w, i) \/ NarrateFails(w, i) \/ NarrationStep(w, i)
      PROVE  EvaluationsStep
  BY <1>2 DEF Narrate, NarrateFails, NarrationStep, SaveNarration, NarrationFails,
              EvaluationsStep, evaluating
<1>3. CASE \/ Die \/ EvaluationStalls \/ DropEvaluation
           \/ \E i \in Insights : NarrationStalls(i) \/ DropNarration(i)
  BY <1>3 DEF Die, EvaluationStalls, DropEvaluation, NarrationStalls, DropNarration,
              EvaluationsStep, evaluating
<1> QED BY <1>1, <1>2, <1>3, EvaluationProgress DEF Next

LEMMA ReachedPreserved ==
    ASSUME TypeOK, EvaluationsReached, EvaluationsStep
    PROVE  evaluation' \in [Evaluators -> Evaluation] /\ EvaluationsReached'
<1>0. \A e \in Evaluators : EvaluationOK(evaluation[e])
  BY DEF TypeOK, EvaluationsReached, FactsReached, EvaluationOK
<1>1. evaluation' \in [Evaluators -> Evaluation] /\ \A e \in Evaluators : EvaluationOK(evaluation'[e])
  BY <1>0, NoEvaluationOK DEF EvaluationsStep, OneEvaluation, TypeOK, EvaluationOK
<1> QED BY <1>1 DEF EvaluationsReached, FactsReached, EvaluationOK

-----------------------------------------------------------------------------
(* Jobs and the rest *)

JobsTyped == evalJob \in Job(Evaluators) /\ job \in [Insights -> Job(Narrators)]

LEMMA JobsPreserved ==
    ASSUME TypeOK, Next
    PROVE  JobsTyped'
<1>0. evalJob \in Job(Evaluators) /\ job \in [Insights -> Job(Narrators)]
  BY DEF TypeOK
<1>1. CASE Administration
  BY <1>0, <1>1 DEF Administration, CreateTrigger, UpdateParameters, SetActive,
              DeleteIfNoHistory, SetAdvisor, JobsTyped, evaluating, narrating
<1>2. ASSUME NEW n \in 0..MaxThreshold, SaveFigures(n)
      PROVE  JobsTyped'
  <2>1. Added(evalJob) \in Job(Evaluators)
    <3>1. [NoJob EXCEPT !.state = "waiting"] \in Job(Evaluators)
      BY TriggersAssumption DEF NoJob, Job
    <3> QED BY <1>0, <3>1 DEF Added
  <2> QED BY <1>0, <1>2, <2>1 DEF SaveFigures, JobsTyped, narrating
<1>3. ASSUME NEW e \in Evaluators, StartEvaluation(e) \/ EvaluationStep(e)
      PROVE  JobsTyped'
  <2>1. /\ Taken(evalJob, e) \in Job(Evaluators) /\ Completed(evalJob, e) \in Job(Evaluators)
        /\ FailedOnce(evalJob, e) \in Job(Evaluators)
    BY <1>0, JobTypes
  <2>2. ASSUME NEW i \in Insights
        PROVE  Added(job[i]) \in Job(Narrators)
    <3>1. [NoJob EXCEPT !.state = "waiting"] \in Job(Narrators)
      BY TriggersAssumption DEF NoJob, Job
    <3> QED BY <1>0, <3>1 DEF Added
  <2>3. CASE \E i \in Insights : EnqueueNarration(e, i)
    BY <1>0, <2>2, <2>3 DEF EnqueueNarration, JobsTyped
  <2> QED BY <1>0, <1>3, <2>1, <2>3 DEF StartEvaluation, EvaluationStep, RecordOccurrence,
             EvaluationFails, ListAwaiting, FinishEvaluation, JobsTyped, narrating
<1>4. ASSUME NEW w \in Narrators, NEW i \in Insights,
             Narrate(w, i) \/ NarrateFails(w, i) \/ NarrationStep(w, i)
      PROVE  JobsTyped'
  <2>1. job[i] \in Job(Narrators)
    BY <1>0
  <2>2. Taken(job[i], w) \in Job(Narrators)
    BY <2>1, JobTypes
  <2>3. /\ Completed(Taken(job[i], w), w) \in Job(Narrators)
        /\ Completed(job[i], w) \in Job(Narrators) /\ FailedOnce(job[i], w) \in Job(Narrators)
        /\ FailedOnce(Taken(job[i], w), w) \in Job(Narrators)
    BY <2>1, <2>2, JobTypes
  <2> QED BY <1>0, <1>4, <2>2, <2>3 DEF Narrate, NarrateFails, NarrationStep, SaveNarration, NarrationFails,
             JobsTyped, evaluating
<1>5. CASE Die \/ EvaluationStalls \/ DropEvaluation
  BY <1>0, <1>5, StalledTypes DEF Die, EvaluationStalls, DropEvaluation, JobsTyped, narrating
<1>6. ASSUME NEW i \in Insights, NarrationStalls(i) \/ DropNarration(i)
      PROVE  JobsTyped'
  <2>1. Stalled(job[i]) \in Job(Narrators) /\ NoJob \in Job(Narrators)
    BY <1>0, StalledTypes
  <2> QED BY <1>0, <1>6, <2>1 DEF NarrationStalls, DropNarration, JobsTyped, evaluating
<1> QED BY <1>1, <1>2, <1>3, <1>4, <1>5, <1>6 DEF Next

OthersTyped ==
    /\ trigger \in [Triggers -> TriggerRow]
    /\ figures \in 0..MaxThreshold
    /\ advisor \in {"off", "nokey", "ready"}
    /\ narration \in [Narrators -> SUBSET Insights]
    /\ due \in BOOLEAN

LEMMA OthersPreserved ==
    ASSUME TypeOK, Next
    PROVE  OthersTyped'
<1>0. OthersTyped
  BY DEF TypeOK, OthersTyped
<1>1. CASE Administration
  <2>1. ASSUME NEW k \in Triggers, NEW row \in TriggerRow,
               trigger' = [trigger EXCEPT ![k] = row]
        PROVE  trigger' \in [Triggers -> TriggerRow]
    BY <1>0, <2>1 DEF OthersTyped
  <2>2. ASSUME NEW k \in Triggers, NEW n \in Thresholds,
               CreateTrigger(k, n) \/ UpdateParameters(k, n)
        PROVE  trigger' \in [Triggers -> TriggerRow]
    <3>1. /\ [state |-> "active", threshold |-> n] \in TriggerRow
          /\ [trigger[k] EXCEPT !.threshold = n] \in TriggerRow
      BY <1>0, TriggersAssumption DEF OthersTyped, TriggerRow, Thresholds
    <3> QED BY <2>1, <2>2, <3>1 DEF CreateTrigger, UpdateParameters
  <2>3. ASSUME NEW k \in Triggers,
               DeleteIfNoHistory(k) \/ \E state \in {"active", "inactive"} : SetActive(k, state)
        PROVE  trigger' \in [Triggers -> TriggerRow]
    <3>1. /\ [NoTrigger EXCEPT !.state = "deleted"] \in TriggerRow
          /\ \A state \in {"active", "inactive"} : [trigger[k] EXCEPT !.state = state] \in TriggerRow
      BY <1>0, TriggersAssumption DEF OthersTyped, TriggerRow, NoTrigger
    <3> QED BY <2>1, <2>3, <3>1 DEF SetActive, DeleteIfNoHistory
  <2>4. trigger' \in [Triggers -> TriggerRow] /\ advisor' \in {"off", "nokey", "ready"}
    BY <1>0, <1>1, <2>2, <2>3 DEF Administration, SetAdvisor, OthersTyped, CreateTrigger,
       UpdateParameters, SetActive, DeleteIfNoHistory
  <2> QED BY <1>0, <1>1, <2>4 DEF Administration, CreateTrigger, UpdateParameters, SetActive,
         DeleteIfNoHistory, SetAdvisor, OthersTyped, evaluating, narrating
<1>2. ASSUME NEW n \in 0..MaxThreshold, SaveFigures(n)
      PROVE  OthersTyped'
  BY <1>0, <1>2 DEF SaveFigures, OthersTyped, narrating
<1>3. ASSUME NEW e \in Evaluators, StartEvaluation(e) \/ EvaluationStep(e)
      PROVE  OthersTyped'
  BY <1>0, <1>3 DEF StartEvaluation, EvaluationStep, RecordOccurrence, EvaluationFails,
     ListAwaiting, EnqueueNarration, FinishEvaluation, OthersTyped, narrating
<1>4. ASSUME NEW w \in Narrators, NEW i \in Insights,
             Narrate(w, i) \/ NarrateFails(w, i) \/ NarrationStep(w, i)
      PROVE  OthersTyped'
  BY <1>0, <1>4 DEF Narrate, NarrateFails, NarrationStep, SaveNarration, NarrationFails, OthersTyped,
     NoNarration, evaluating
<1>5. CASE \/ Die \/ EvaluationStalls \/ DropEvaluation
           \/ \E i \in Insights : NarrationStalls(i) \/ DropNarration(i)
  BY <1>0, <1>5 DEF Die, EvaluationStalls, DropEvaluation, NarrationStalls, DropNarration,
     OthersTyped, NoNarration, evaluating, narrating
<1> QED BY <1>1, <1>2, <1>3, <1>4, <1>5 DEF Next

-----------------------------------------------------------------------------
(* The inductive invariant *)

TriggersInvariant == TypeOK /\ EvaluationsReached

LEMMA InitInvariant == Init => TriggersInvariant
<1> SUFFICES ASSUME Init
             PROVE  TriggersInvariant
  OBVIOUS
<1>1. NoTrigger \in TriggerRow /\ NoEvaluation \in Evaluation
  BY TriggersAssumption DEF NoTrigger, TriggerRow, NoEvaluation, Evaluation
<1>2. NoJob \in Job(Evaluators) /\ NoJob \in Job(Narrators)
  BY TriggersAssumption DEF NoJob, Job
<1>3. Lifecycle!Undetected \in Lifecycle!InsightRow
  BY DEF Lifecycle!InsightRow
<1>4. TypeOK
  BY <1>1, <1>2, <1>3 DEF Init, TypeOK, NoNarration
<1>5. EvaluationsReached
  BY DEF Init, EvaluationsReached, FactsReached, NoEvaluation
<1> QED BY <1>4, <1>5 DEF TriggersInvariant

LEMMA InvariantPreserved == TriggersInvariant /\ [Next]_vars => TriggersInvariant'
<1> SUFFICES ASSUME TriggersInvariant, [Next]_vars
             PROVE  TriggersInvariant'
  OBVIOUS
<1> USE DEF TriggersInvariant
<1>1. CASE UNCHANGED vars
  BY <1>1 DEF TypeOK, EvaluationsReached, FactsReached, vars, evaluating, narrating
<1>2. CASE Next
  <2>1. InsightsTyped'
    BY <1>2, InsightSteps, InsightStepTypes DEF TypeOK, InsightsTyped
  <2>2. evaluation' \in [Evaluators -> Evaluation] /\ EvaluationsReached'
    BY <1>2, EvaluationsSteps, ReachedPreserved
  <2>3. JobsTyped' /\ OthersTyped'
    BY <1>2, JobsPreserved, OthersPreserved
  <2> QED BY <2>1, <2>2, <2>3 DEF TypeOK, InsightsTyped, JobsTyped, OthersTyped
<1> QED BY <1>1, <1>2

-----------------------------------------------------------------------------
(* The theorems *)

\* Type correctness: jobs keep to their limits of attempts and stalls.
THEOREM TypeCorrect == Spec => []TypeOK
<1>1. TriggersInvariant => TypeOK
  BY DEF TriggersInvariant
<1> QED BY <1>1, InitInvariant, InvariantPreserved, PTL DEF Spec

LEMMA StepsImplement == TypeOK /\ [Next]_vars => [Lifecycle!InsightNext]_insight
<1> SUFFICES ASSUME TypeOK, [Next]_vars
             PROVE  [Lifecycle!InsightNext]_insight
  OBVIOUS
<1>1. CASE UNCHANGED vars
  BY <1>1 DEF vars
<1>2. CASE Next
  BY <1>2, InsightSteps DEF TypeOK, InsightsTyped, InsightStep, Lifecycle!InsightNext
<1> QED BY <1>1, <1>2

\* Evaluations and narrations, retried, stalled or overlapping, implement the lifecycle of
\* insights.
THEOREM TriggersImplementLifecycle == Spec => ImplementsLifecycle
<1>1. Init => Lifecycle!InsightInit
  BY DEF Init, Lifecycle!InsightInit
<1>2. TriggersInvariant /\ [Next]_vars => [Lifecycle!InsightNext]_insight
  BY StepsImplement DEF TriggersInvariant
<1>3. Spec => Lifecycle!InsightSpec
  BY <1>1, <1>2, InitInvariant, InvariantPreserved, PTL DEF Spec, Lifecycle!InsightSpec
<1> QED BY <1>3 DEF ImplementsLifecycle

\* Who records an insight.
Recorder(e, i) ==
    /\ evaluation'[e] # evaluation[e]
    /\ \/ i \in evaluation[e].todo /\ i[2] <= evaluation[e].figures
       \/ NextFact(e) # i
Recorded(i) == insight[i] = Lifecycle!Undetected /\ insight'[i] # Lifecycle!Undetected

LEMMA OnlyRecorded ==
    ASSUME TriggersInvariant, Next, NEW i \in Insights, Recorded(i)
    PROVE  \E e \in Evaluators : RecordOccurrence(e)
<1> USE DEF TriggersInvariant
<1>0. Lifecycle!Undetected # Lifecycle!Awaiting /\ Lifecycle!Undetected # Lifecycle!Failed
  BY DEF Lifecycle!Undetected, Lifecycle!Awaiting, Lifecycle!Failed
<1> SUFFICES ASSUME \A e \in Evaluators : ~ RecordOccurrence(e)
             PROVE  insight'[i] = insight[i]
  BY DEF Recorded
<1>1. CASE Administration \/ \E n \in 0..MaxThreshold : SaveFigures(n)
  BY <1>1 DEF Administration, CreateTrigger, UpdateParameters, SetActive, DeleteIfNoHistory,
              SetAdvisor, SaveFigures
<1>2. ASSUME NEW e \in Evaluators, StartEvaluation(e) \/ EvaluationStep(e)
      PROVE  insight'[i] = insight[i]
  BY <1>2 DEF StartEvaluation, EvaluationStep, EvaluationFails, ListAwaiting,
              EnqueueNarration, FinishEvaluation
<1>3. ASSUME NEW w \in Narrators, NEW j \in Insights,
             Narrate(w, j) \/ NarrateFails(w, j) \/ NarrationStep(w, j)
      PROVE  insight'[i] = insight[i]
  <2>1. \/ UNCHANGED insight
        \/ Lifecycle!Fail(j) \/ \E x \in Texts : Lifecycle!Narrate(j, x)
    BY <1>3 DEF Narrate, NarrateFails, NarrationStep, SaveNarration, NarrationFails
  <2>2. Lifecycle!Eligible(j) => j # i
    BY <1>0 DEF Lifecycle!Eligible, Recorded
  <2> QED BY <2>1, <2>2 DEF Lifecycle!Fail, Lifecycle!Narrate, TypeOK
<1>4. CASE \/ Die \/ EvaluationStalls \/ DropEvaluation
           \/ \E j \in Insights : NarrationStalls(j) \/ DropNarration(j)
  BY <1>4 DEF Die, EvaluationStalls, DropEvaluation, NarrationStalls, DropNarration
<1> QED BY <1>1, <1>2, <1>3, <1>4 DEF Next

LEMMA RecordersReached ==
    ASSUME TriggersInvariant, Next, NEW i \in Insights, Recorded(i)
    PROVE  \E e \in Evaluators : Recorder(e, i)
<1> USE DEF TriggersInvariant
<1>1. PICK e \in Evaluators : RecordOccurrence(e)
  BY OnlyRecorded
<1>2. /\ evaluation[e].pc = "record" /\ evaluation[e].todo # {}
      /\ evaluation' = [evaluation EXCEPT ![e].todo = @ \ {NextFact(e)}]
  BY <1>1 DEF RecordOccurrence
<1>3. NextFact(e) \in evaluation[e].todo
  BY <1>2, NextFactListed
<1>4. evaluation'[e].todo # evaluation[e].todo
  BY <1>2, <1>3 DEF TypeOK, Evaluation
<1>5. NextFact(e)[2] <= evaluation[e].figures
  BY <1>2, <1>3 DEF EvaluationsReached, FactsReached
<1> QED BY <1>3, <1>4, <1>5 DEF Recorder

\* An insight announces what its evaluation found reached, unless its trigger was edited.
THEOREM InsightsAreReached == Spec => ReachedUnlessEdited
<1>1. TriggersInvariant /\ [Next]_vars =>
         [\A i \in Insights : Recorded(i) => \E e \in Evaluators : Recorder(e, i)]_vars
  BY RecordersReached
<1>2. Spec => [][\A i \in Insights : Recorded(i) => \E e \in Evaluators : Recorder(e, i)]_vars
  BY <1>1, InitInvariant, InvariantPreserved, PTL DEF Spec
<1> QED BY <1>2 DEF ReachedUnlessEdited, Recorded, Recorder
=============================================================================
