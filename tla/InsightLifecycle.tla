--------------------------- MODULE InsightLifecycle ---------------------------
(***************************************************************************)
(* What the proactive insights of one tenant promise to those who read     *)
(* them: a fact is detected once, waits for its narration, which may fail  *)
(* and be tried again, and once narrated never changes.                    *)
(***************************************************************************)
CONSTANTS
    Insights,   \* occurrences that may ever be recorded
    Texts,      \* narrations a provider may write
    NoText

ASSUME LifecycleAssumption == NoText \notin Texts

VARIABLE insight   \* the rows of ai_insights

Undetected == [status |-> "none", text |-> NoText]
Awaiting   == [status |-> "AWAITING_NARRATION", text |-> NoText]
Failed     == [status |-> "NARRATION_FAILED", text |-> NoText]
Narrated(x) == [status |-> "NARRATED", text |-> x]

InsightRow == {Undetected, Awaiting, Failed} \cup {Narrated(x) : x \in Texts}

Eligible(i) == insight[i] \in {Awaiting, Failed}

Detect(i)     == insight[i] = Undetected /\ insight' = [insight EXCEPT ![i] = Awaiting]
Fail(i)       == Eligible(i) /\ insight' = [insight EXCEPT ![i] = Failed]
Narrate(i, x) == Eligible(i) /\ insight' = [insight EXCEPT ![i] = Narrated(x)]

InsightInit == insight = [i \in Insights |-> Undetected]
InsightNext == \E i \in Insights : Detect(i) \/ Fail(i) \/ \E x \in Texts : Narrate(i, x)
InsightSpec == InsightInit /\ [][InsightNext]_insight
=============================================================================
