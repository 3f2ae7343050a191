----------------------------- MODULE JobLifecycle -----------------------------
(***************************************************************************)
(* What the deployment queue promises, without workers, heartbeats,        *)
(* metadata or crashes: a history of jobs in which an application has at   *)
(* most one active job, jobs begin in the order they were submitted, and a *)
(* job that ended keeps its status.  DeploymentQueue implements it.        *)
(***************************************************************************)
EXTENDS Integers, Sequences

CONSTANT Apps

VARIABLE jobs  \* a sequence of [app, status], in order of submission

Positions == 1 .. Len(jobs)
IsActive(i) == jobs[i].status \in {"queued", "running"}

Init == jobs = <<>>

\* A request is accepted only while its application has no active job.
Submit(a) ==
    /\ \A i \in Positions : jobs[i].app = a => ~IsActive(i)
    /\ jobs' = Append(jobs, [app |-> a, status |-> "queued"])

\* First in, first out over all applications.
Begin(i) ==
    /\ jobs[i].status = "queued"
    /\ \A j \in Positions : jobs[j].status = "queued" => i <= j
    /\ jobs' = [jobs EXCEPT ![i].status = "running"]

\* A queued job can only be cancelled, a running one ends in any final status.
Close(i, status) ==
    /\ \/ jobs[i].status = "queued" /\ status = "cancelled"
       \/ jobs[i].status = "running"
    /\ jobs' = [jobs EXCEPT ![i].status = status]

\* A restart of the process fails whatever was running, all at once.
Restart ==
    jobs' = [i \in Positions |-> IF jobs[i].status = "running"
                                 THEN [jobs[i] EXCEPT !.status = "failed"]
                                 ELSE jobs[i]]

Next ==
    \/ \E a \in Apps : Submit(a)
    \/ \E i \in Positions : Begin(i)
    \/ \E i \in Positions, status \in {"successful", "failed", "cancelled"} : Close(i, status)
    \/ Restart

Spec == Init /\ [][Next]_jobs

=============================================================================
