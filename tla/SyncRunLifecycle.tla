--------------------------- MODULE SyncRunLifecycle ---------------------------
(***************************************************************************)
(* What a sync_runs table promises to everything that reads it, without    *)
(* queue, workers, calls or time: runs are opened one at a time, may begin *)
(* once, and end once.  ContaAzulSync implements this specification.       *)
(***************************************************************************)
CONSTANT Runs
VARIABLE status

Ongoing(r) == status[r] \in {"PENDING", "RUNNING"}
Become(r, s) == status' = [status EXCEPT ![r] = s]

Init == status = [r \in Runs |-> "NONE"]

Open(r) ==
    /\ status[r] = "NONE"
    /\ \A s \in Runs : ~ Ongoing(s)
    /\ Become(r, "PENDING")

Begin(r) == status[r] = "PENDING" /\ Become(r, "RUNNING")

\* A run may be given up before it began, but it succeeds only from RUNNING.
Close(r) ==
    \/ Ongoing(r) /\ Become(r, "FAILED")
    \/ status[r] = "RUNNING" /\ Become(r, "SUCCESS")

Next == \E r \in Runs : Open(r) \/ Begin(r) \/ Close(r)

Spec == Init /\ [][Next]_status
=============================================================================
