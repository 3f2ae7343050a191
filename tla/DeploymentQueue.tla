--------------------------- MODULE DeploymentQueue ---------------------------
(***************************************************************************)
(* The durable deployment queue of MiniDock: the rows of the table         *)
(* "deployments" (internal/store/store.go) and the worker goroutines that  *)
(* claim, execute and finish them (internal/app/cicd.go), each with its    *)
(* heartbeat goroutine.  Every store call is one SQL statement or one      *)
(* transaction on a single connection, so each one is an atomic step, and  *)
(* the steps of workers, heartbeats, HTTP handlers, the operator and a     *)
(* crash of the process interleave between them.                           *)
(*                                                                         *)
(* The container runtime is abstract here: an executor call succeeds, and  *)
(* `released' then names the image it switched to, or it fails in one of   *)
(* its stages.  BlueGreen models what happens inside that call.            *)
(***************************************************************************)
EXTENDS Integers, Sequences, FiniteSets

CONSTANTS
    Apps,              \* the registered applications
    Workers,           \* the goroutines started by StartQueue
    AutoRollbackApps,  \* the applications whose auto_rollback flag is set
    Inputs,            \* what the outside world may do
    MaxRequests,       \* bound: requests are refused once this many rows exist
    MaxCrashes         \* bound: how often the process may disappear

ASSUME AutoRollbackAssumption == AutoRollbackApps \subseteq Apps
ASSUME InputsAssumption == Inputs \subseteq {"deploy", "rollback", "push", "cancel", "slow"}
ASSUME BoundsAssumption == MaxRequests \in Nat /\ MaxCrashes \in Nat

VARIABLES
    deployments,  \* the table, in order of id: row number i has id i
    describing,   \* requests between their INSERT and their metadata UPDATE
    up,           \* is the process alive?
    crashes,      \* how often it has died
    pc,           \* where each worker is in runNextDeployment
    job,          \* the id of the row each worker has claimed (0: none)
    ref,          \* the requested_ref each worker will record in its row
    image,        \* the image each worker will record in its row (0: none)
    err,          \* the stage of the error the worker holds ("": nil)
    verdict,      \* the status the worker is about to record
    heartbeat,    \* the heartbeat goroutine of each worker
    stopped,      \* has the worker's job context been cancelled?
    released      \* the image of the last executor call that succeeded, per app

table == <<deployments, describing>>
process == <<up, crashes>>
worker == <<pc, job, ref, image, err, verdict>>
beat == <<heartbeat, stopped>>
vars == <<deployments, describing, up, crashes, pc, job, ref, image, err,
          verdict, heartbeat, stopped, released>>

-----------------------------------------------------------------------------
(***************************************************************************)
(* Types.  An image is named by the id of the deploy job that built it:    *)
(* tags are unique per build, and a rollback reuses the tag of its target. *)
(***************************************************************************)

Statuses == {"queued", "running", "successful", "failed", "cancelled"}
Active == {"queued", "running"}
Actions == {"deploy", "rollback", "auto_rollback"}

\* "sha" is a commit pinned by a webhook, "" anything else: an empty
\* requested_ref or the name of the application's mutable branch.
Refs == {"", "sha"}

\* The stages of an error, up to what shouldTriggerAutoRollback tells apart:
\* "build" stands for source and build, "start" for start, health and route.
Stages == {"build", "start"}

\* failure_stage of a row; "restarted" is stage start, code worker_restarted.
RowStages == Stages \cup {"", "rollback", "restarted"}

Row == [app: Apps, status: Statuses, action: Actions, ref: Refs, image: Nat,
        digest: BOOLEAN, cancel: BOOLEAN, stage: RowStages]

NewRow(a, action) ==
    [app |-> a, status |-> "queued", action |-> action, ref |-> "", image |-> 0,
     digest |-> FALSE, cancel |-> FALSE, stage |-> ""]

Ids == 1 .. Len(deployments)

Steps == {"idle", "claimed", "deploying", "resolving", "starting", "recording",
          "joining", "finishing", "queueing", "describing"}

TypeOK ==
    /\ deployments \in Seq(Row)
    /\ describing \subseteq [id: Ids, ref: Refs]
    /\ up \in BOOLEAN
    /\ crashes \in Nat
    /\ pc \in [Workers -> Steps]
    /\ job \in [Workers -> Nat]
    /\ ref \in [Workers -> Refs]
    /\ image \in [Workers -> Nat]
    /\ err \in [Workers -> Stages \cup {""}]
    /\ verdict \in [Workers -> {"", "successful", "failed", "cancelled"}]
    /\ heartbeat \in [Workers -> {"off", "waiting", "failed"}]
    /\ stopped \in [Workers -> BOOLEAN]
    /\ released \in [Apps -> Nat]

-----------------------------------------------------------------------------
(***************************************************************************)
(* Queries of the store.                                                   *)
(***************************************************************************)

\* Mutant: an index over queued rows only.
HasQueued(a) == \E i \in Ids : deployments[i].app = a /\ deployments[i].status = "queued"

\* The partial unique index one_active_deployment_per_application.
HasActive(a) == \E i \in Ids : deployments[i].app = a /\ deployments[i].status \in Active

Queued == {i \in Ids : deployments[i].status = "queued"}

\* Mutant: every row that has an image is a candidate for a rollback.
WithImage(a) == {i \in Ids : deployments[i].app = a /\ deployments[i].image # 0}

\* SELECT ... WHERE status = 'successful' AND image <> '' of one application.
Successful(a) ==
    {i \in Ids : /\ deployments[i].app = a
                 /\ deployments[i].status = "successful"
                 /\ deployments[i].image # 0}

\* ORDER BY id DESC LIMIT 1
IsLatestSuccessful(i, a) ==
    i \in Successful(a) /\ \A j \in Successful(a) : j <= i

\* ORDER BY id DESC LIMIT 1 OFFSET 1
IsPreviousSuccessful(i, a) ==
    /\ i \in Successful(a)
    /\ \E k \in Successful(a) :
          k > i /\ \A j \in Successful(a) : j > i => j = k

\* The rollback target of a job: the operator's rollback skips the newest
\* successful row, the automatic one takes it.
IsTarget(i, id) ==
    \/ deployments[id].action = "rollback" /\ IsPreviousSuccessful(i, deployments[id].app)
    \/ deployments[id].action = "auto_rollback" /\ IsLatestSuccessful(i, deployments[id].app)

-----------------------------------------------------------------------------
Init ==
    /\ deployments = <<>>
    /\ describing = {}
    /\ up = TRUE
    /\ crashes = 0
    /\ pc = [w \in Workers |-> "idle"]
    /\ job = [w \in Workers |-> 0]
    /\ ref = [w \in Workers |-> ""]
    /\ image = [w \in Workers |-> 0]
    /\ err = [w \in Workers |-> ""]
    /\ verdict = [w \in Workers |-> ""]
    /\ heartbeat = [w \in Workers |-> "off"]
    /\ stopped = [w \in Workers |-> FALSE]
    /\ released = [a \in Apps |-> 0]

-----------------------------------------------------------------------------
(***************************************************************************)
(* HTTP handlers.  queueDeploymentRef inserts the row first and writes its *)
(* metadata, requested_ref included, in a second statement.  A request is  *)
(* "slow" when others act in between: a worker may claim the row, and the  *)
(* request's context may be cancelled (the client went away) before the    *)
(* second statement runs.                                                  *)
(***************************************************************************)

QueueDeployment(a, action, requestedRef) ==
    /\ up
    /\ Len(deployments) < MaxRequests
    /\ ~HasActive(a)
    /\ \/ /\ deployments' = Append(deployments, [NewRow(a, action) EXCEPT !.ref = requestedRef])
          /\ UNCHANGED describing
       \/ /\ "slow" \in Inputs
          /\ deployments' = Append(deployments, NewRow(a, action))
          /\ describing' = describing \cup {[id |-> Len(deployments) + 1, ref |-> requestedRef]}
    /\ UNCHANGED <<process, worker, beat, released>>

\* The operator's deploy and rollback buttons.
RequestDeploy(a) == "deploy" \in Inputs /\ QueueDeployment(a, "deploy", "")
RequestRollback(a) == "rollback" \in Inputs /\ QueueDeployment(a, "rollback", "")

\* An accepted GitHub push, pinned to the pushed commit.
WebhookPush(a) == "push" \in Inputs /\ QueueDeployment(a, "deploy", "sha")

\* The UPDATE rewrites every metadata column, so a late one also clears the
\* artifact digest that a finished job has recorded.
SetQueuedMetadata(request) ==
    /\ up
    /\ request \in describing
    /\ deployments' = [deployments EXCEPT ![request.id] =
                        [@ EXCEPT !.ref = request.ref, !.digest = FALSE]]
    /\ describing' = describing \ {request}
    /\ UNCHANGED <<process, worker, beat, released>>

AbandonRequest(request) ==
    /\ up
    /\ request \in describing
    /\ describing' = describing \ {request}
    /\ UNCHANGED <<deployments, process, worker, beat, released>>

\* Mutant: the UPDATE of a queued row forgets to look at its status.
CancelAnyStatus(id) ==
    /\ up
    /\ deployments' = [deployments EXCEPT ![id].status = "cancelled"]
    /\ UNCHANGED <<describing, process, worker, beat, released>>

\* A queued row is closed at once, a running one only gets a durable request.
CancelDeployment(id) ==
    /\ up
    /\ \/ /\ deployments[id].status = "queued"
          /\ deployments' = [deployments EXCEPT ![id].status = "cancelled"]
       \/ /\ deployments[id].status = "running"
          /\ ~deployments[id].cancel
          /\ deployments' = [deployments EXCEPT ![id].cancel = TRUE]
    /\ UNCHANGED <<describing, process, worker, beat, released>>

\* The operator's cancel button, for any row of the history.
RequestCancel(id) == "cancel" \in Inputs /\ CancelDeployment(id)

-----------------------------------------------------------------------------
(***************************************************************************)
(* A worker: runNextDeployment.                                            *)
(***************************************************************************)

Goto(w, step) == pc' = [pc EXCEPT ![w] = step]

\* runNextDeployment returns and its locals with it.
Return(w) ==
    /\ pc' = [pc EXCEPT ![w] = "idle"]
    /\ job' = [job EXCEPT ![w] = 0]
    /\ ref' = [ref EXCEPT ![w] = ""]
    /\ image' = [image EXCEPT ![w] = 0]
    /\ err' = [err EXCEPT ![w] = ""]
    /\ verdict' = [verdict EXCEPT ![w] = ""]
    /\ heartbeat' = [heartbeat EXCEPT ![w] = "off"]
    /\ stopped' = [stopped EXCEPT ![w] = FALSE]

\* Mutant: the status the worker decided on is written as it is.
FinishWithStatus(id, status) == deployments' = [deployments EXCEPT ![id].status = status]

\* FinishDeployment: the row's durable cancellation request wins over the
\* status the worker asks for.
FinishDeployment(id, status) ==
    deployments' = [deployments EXCEPT ![id].status =
                        IF deployments[id].cancel THEN "cancelled" ELSE status]

\* Mutant: any queued row may be taken, not the oldest.
ClaimAnyQueued(w) ==
    /\ up
    /\ pc[w] = "idle"
    /\ \E id \in Queued :
          /\ deployments' = [deployments EXCEPT ![id].status = "running"]
          /\ job' = [job EXCEPT ![w] = id]
          /\ ref' = [ref EXCEPT ![w] = deployments[id].ref]
    /\ Goto(w, "claimed")
    /\ UNCHANGED <<describing, process, image, err, verdict, beat, released>>

\* The transaction that reserves the oldest queued row.
NextQueuedDeployment(w) ==
    /\ up
    /\ pc[w] = "idle"
    /\ \E id \in Queued :
          /\ \A other \in Queued : id <= other
          /\ deployments' = [deployments EXCEPT ![id].status = "running"]
          /\ job' = [job EXCEPT ![w] = id]
          /\ ref' = [ref EXCEPT ![w] = deployments[id].ref]
    /\ Goto(w, "claimed")
    /\ UNCHANGED <<describing, process, image, err, verdict, beat, released>>

\* The log file cannot be opened: the job fails without further evidence.
OpenLogFails(w) ==
    /\ pc[w] = "claimed"
    /\ FinishDeployment(job[w], "failed")
    /\ Return(w)
    /\ UNCHANGED <<describing, process, released>>

\* The heartbeat starts, then the configuration is read; a locked MiniDock
\* cannot decrypt the secrets, an unclassified error that counts as "start"
\* and leads straight to stopJob().
BeginJob(w) ==
    /\ pc[w] = "claimed"
    /\ heartbeat' = [heartbeat EXCEPT ![w] = "waiting"]
    /\ \/ /\ err' = [err EXCEPT ![w] = "start"]
          /\ stopped' = [stopped EXCEPT ![w] = TRUE]
          /\ Goto(w, "joining")
       \/ /\ UNCHANGED <<err, stopped>>
          /\ Goto(w, IF deployments[job[w]].action = "deploy" THEN "deploying" ELSE "resolving")
    /\ UNCHANGED <<table, process, job, ref, image, verdict, released>>

\* executor.Deploy.  It ends well, or in one of its stages.  A cancelled
\* context makes its commands fail, but the last of them may already have
\* ended.  The name of the image is set before the build, so a failure of either
\* stage may leave it; what a failed job records of it no query reads.
DeploySucceeds(w) ==
    /\ pc[w] = "deploying"
    /\ image' = [image EXCEPT ![w] = job[w]]
    /\ released' = [released EXCEPT ![deployments[job[w]].app] = job[w]]
    /\ Goto(w, "recording")
    /\ UNCHANGED <<table, process, job, ref, err, verdict, beat>>

DeployFails(w) ==
    /\ pc[w] = "deploying"
    /\ \E stage \in Stages, i \in {0, job[w]} :
          /\ err' = [err EXCEPT ![w] = stage]
          /\ image' = [image EXCEPT ![w] = i]
    /\ Goto(w, "recording")
    /\ UNCHANGED <<table, process, job, ref, verdict, beat, released>>

\* The artifact of a release can only be verified against a recorded digest.
VerifyArtifact(i) == deployments[i].digest

\* A rollback looks its target up, restores the recorded configuration and
\* verifies the artifact; any of these may fail.  Then it copies the target's
\* evidence.
ResolveTargetFails(w) ==
    /\ pc[w] = "resolving"
    /\ err' = [err EXCEPT ![w] = "start"]
    /\ stopped' = [stopped EXCEPT ![w] = TRUE]
    /\ Goto(w, "joining")
    /\ UNCHANGED <<table, process, job, ref, image, verdict, heartbeat, released>>

ResolveTarget(w) ==
    /\ pc[w] = "resolving"
    /\ \E i \in Ids :
          /\ IsTarget(i, job[w])
          /\ VerifyArtifact(i)
          /\ image' = [image EXCEPT ![w] = deployments[i].image]
          /\ ref' = [ref EXCEPT ![w] = deployments[i].ref]
          /\ deployments' = [deployments EXCEPT ![job[w]] =
                [@ EXCEPT !.image = deployments[i].image, !.ref = deployments[i].ref,
                          !.digest = TRUE]]
    /\ Goto(w, "starting")
    /\ UNCHANGED <<describing, process, job, err, verdict, beat, released>>

\* executor.Rollback starts the target image.
RollbackSucceeds(w) ==
    /\ pc[w] = "starting"
    /\ released' = [released EXCEPT ![deployments[job[w]].app] = image[w]]
    /\ Goto(w, "recording")
    /\ UNCHANGED <<table, process, job, ref, image, err, verdict, beat>>

RollbackFails(w) ==
    /\ pc[w] = "starting"
    /\ err' = [err EXCEPT ![w] = "start"]
    /\ Goto(w, "recording")
    /\ UNCHANGED <<table, process, job, ref, image, verdict, beat, released>>

\* The evidence of the executor call: SetDeploymentImage and
\* SetDeploymentReleaseMetadata, then stopJob(), which cancels the job context
\* whatever the heartbeat is doing.  A deploy writes back the requested_ref it
\* was claimed with, and its digest stays empty when it failed or when the
\* image cannot be inspected; a rollback repeats the evidence of its target.
RecordRelease(w) ==
    /\ pc[w] = "recording"
    /\ \E digest \in BOOLEAN :
          /\ IF deployments[job[w]].action = "deploy" THEN err[w] # "" => ~digest ELSE digest
          /\ deployments' = [deployments EXCEPT ![job[w]] =
                [@ EXCEPT !.image = IF image[w] # 0 THEN image[w] ELSE deployments[job[w]].image,
                          !.ref = ref[w], !.digest = digest]]
    /\ stopped' = [stopped EXCEPT ![w] = TRUE]
    /\ ref' = [ref EXCEPT ![w] = ""]
    /\ image' = [image EXCEPT ![w] = 0]
    /\ Goto(w, "joining")
    /\ UNCHANGED <<describing, process, job, err, verdict, heartbeat, released>>

\* Mutant: only an error ends the wait, not the closed channel.
JoinFailedHeartbeat(w) ==
    /\ heartbeat[w] = "failed"
    /\ err' = [err EXCEPT ![w] = IF @ = "" THEN "start" ELSE @]
    /\ heartbeat' = [heartbeat EXCEPT ![w] = "off"]

\* <-heartbeatErr: waits for the heartbeat to end; its error becomes the job's
\* when there was none, and carries no stage, so it counts as "start".
JoinHeartbeat(w) ==
    /\ heartbeat[w] \in {"off", "failed"}
    /\ err' = [err EXCEPT ![w] = IF @ = "" /\ heartbeat[w] = "failed" THEN "start" ELSE @]
    /\ heartbeat' = [heartbeat EXCEPT ![w] = "off"]

\* A failed rollback is always recorded under a stage of its own.
FailureStage(w) ==
    IF deployments[job[w]].action = "deploy" THEN err'[w] ELSE "rollback"

\* Mutant: the error of the executor does not reach the status.
DecideWithoutError(w) ==
    /\ pc[w] = "joining"
    /\ JoinHeartbeat(w)
    /\ verdict' = [verdict EXCEPT ![w] = IF deployments[job[w]].cancel THEN "cancelled"
                                         ELSE "successful"]
    /\ Goto(w, "finishing")
    /\ UNCHANGED <<table, process, job, ref, image, stopped, released>>

\* After the join the cancellation request is read, and a failure that nobody
\* asked for is recorded.
DecideStatus(w) ==
    /\ pc[w] = "joining"
    /\ JoinHeartbeat(w)
    /\ LET cancelled == deployments[job[w]].cancel IN
          /\ verdict' = [verdict EXCEPT ![w] = IF cancelled THEN "cancelled"
                                               ELSE IF err'[w] # "" THEN "failed"
                                               ELSE "successful"]
          /\ deployments' = IF ~cancelled /\ err'[w] # ""
                            THEN [deployments EXCEPT ![job[w]].stage = FailureStage(w)]
                            ELSE deployments
    /\ Goto(w, "finishing")
    /\ UNCHANGED <<describing, process, job, ref, image, stopped, released>>

\* Mutant: a failed rollback starts another one.
TriggersAfterAnyAction(w) ==
    /\ verdict[w] = "failed"
    /\ deployments[job[w]].app \in AutoRollbackApps
    /\ err[w] = "start"

\* status == "failed" && action == "deploy" && AutoRollback && shouldTriggerAutoRollback
TriggersAutoRollback(w) ==
    /\ verdict[w] = "failed"
    /\ deployments[job[w]].action = "deploy"
    /\ deployments[job[w]].app \in AutoRollbackApps
    /\ err[w] = "start"

FinishJob(w) ==
    /\ pc[w] = "finishing"
    /\ FinishDeployment(job[w], verdict[w])
    /\ \/ /\ TriggersAutoRollback(w)
          /\ Goto(w, "queueing")
          /\ UNCHANGED <<job, ref, image, err, verdict, beat>>
       \/ /\ ~TriggersAutoRollback(w)
          /\ Return(w)
    /\ UNCHANGED <<describing, process, released>>

\* After the notification the worker queues the rollback like any request:
\* the insert fails when another job of the application became active.
QueueAutoRollback(w) ==
    /\ pc[w] = "queueing"
    /\ LET a == deployments[job[w]].app IN
          \/ /\ HasActive(a)
             /\ Return(w)
             /\ UNCHANGED deployments
          \/ /\ ~HasActive(a)
             /\ deployments' = Append(deployments, NewRow(a, "auto_rollback"))
             /\ job' = [job EXCEPT ![w] = Len(deployments) + 1]
             /\ Goto(w, "describing")
             /\ UNCHANGED <<ref, image, err, verdict, beat>>
    /\ UNCHANGED <<describing, process, released>>

DescribeAutoRollback(w) ==
    /\ pc[w] = "describing"
    /\ deployments' = [deployments EXCEPT ![job[w]] = [@ EXCEPT !.ref = "", !.digest = FALSE]]
    /\ Return(w)
    /\ UNCHANGED <<describing, process, released>>

WorkerStep(w) ==
    \/ NextQueuedDeployment(w)
    \/ OpenLogFails(w) \/ BeginJob(w)
    \/ DeploySucceeds(w) \/ DeployFails(w)
    \/ ResolveTargetFails(w) \/ ResolveTarget(w)
    \/ RollbackSucceeds(w) \/ RollbackFails(w)
    \/ RecordRelease(w) \/ DecideStatus(w) \/ FinishJob(w)
    \/ QueueAutoRollback(w) \/ DescribeAutoRollback(w)

-----------------------------------------------------------------------------
(***************************************************************************)
(* The heartbeat goroutine of a job.  A renewal changes nothing here: no   *)
(* code reads the lease.  The heartbeat fails, and cancels the job, when   *)
(* the row is no longer running or its cancellation was requested, and     *)
(* also when the job context is cancelled while its store call is in       *)
(* flight or is made next, because select picks either of a ready ticker   *)
(* and a cancelled context.                                                *)
(***************************************************************************)

HeartbeatDeployment(w) ==
    /\ heartbeat[w] = "waiting"
    /\ \/ deployments[job[w]].status # "running"
       \/ deployments[job[w]].cancel
       \/ stopped[w]
    /\ heartbeat' = [heartbeat EXCEPT ![w] = "failed"]
    /\ stopped' = [stopped EXCEPT ![w] = TRUE]
    /\ UNCHANGED <<table, process, worker, released>>

HeartbeatExit(w) ==
    /\ heartbeat[w] = "waiting"
    /\ stopped[w]
    /\ heartbeat' = [heartbeat EXCEPT ![w] = "off"]
    /\ UNCHANGED <<table, process, worker, stopped, released>>

HeartbeatStep(w) == HeartbeatDeployment(w) \/ HeartbeatExit(w)

-----------------------------------------------------------------------------
(***************************************************************************)
(* The process disappears with everything it holds in memory; on the next  *)
(* start RecoverInterruptedDeployments closes every running row before any *)
(* worker or the HTTP server starts.                                       *)
(***************************************************************************)

Crash ==
    /\ up
    /\ crashes < MaxCrashes
    /\ up' = FALSE
    /\ crashes' = crashes + 1
    /\ describing' = {}
    /\ pc' = [w \in Workers |-> "idle"]
    /\ job' = [w \in Workers |-> 0]
    /\ ref' = [w \in Workers |-> ""]
    /\ image' = [w \in Workers |-> 0]
    /\ err' = [w \in Workers |-> ""]
    /\ verdict' = [w \in Workers |-> ""]
    /\ heartbeat' = [w \in Workers |-> "off"]
    /\ stopped' = [w \in Workers |-> FALSE]
    /\ UNCHANGED <<deployments, released>>

\* Mutant: a status of its own for what a restart interrupted.
RecoverAsInterrupted ==
    [i \in Ids |-> IF deployments[i].status = "running"
                   THEN [deployments[i] EXCEPT !.status = "interrupted"]
                   ELSE deployments[i]]

\* Mutant: nothing is recovered.
RecoverNothing == deployments

RecoverInterruptedDeployments ==
    [i \in Ids |->
        IF deployments[i].status = "running"
        THEN [deployments[i] EXCEPT !.status = "failed", !.stage = "restarted"]
        ELSE deployments[i]]

StartQueue ==
    /\ ~up
    /\ up' = TRUE
    /\ deployments' = RecoverInterruptedDeployments
    /\ UNCHANGED <<describing, crashes, worker, beat, released>>

-----------------------------------------------------------------------------
Request ==
    \/ \E a \in Apps : RequestDeploy(a) \/ RequestRollback(a) \/ WebhookPush(a)
    \/ \E request \in describing : SetQueuedMetadata(request) \/ AbandonRequest(request)
    \/ \E id \in Ids : RequestCancel(id)

Next ==
    \/ Request
    \/ \E w \in Workers : WorkerStep(w) \/ HeartbeatStep(w)
    \/ Crash
    \/ StartQueue

Spec == Init /\ [][Next]_vars

(***************************************************************************)
(* Fairness.  Go schedules every runnable goroutine, queueLoop polls every *)
(* 300 ms, every executor stage of a deploy runs under a timeout, and the  *)
(* service manager (restart: unless-stopped in compose.yaml) starts the    *)
(* process again.  A heartbeat notices that its context has ended; nothing *)
(* is assumed of its ticker or of the operator.                            *)
(***************************************************************************)
FairSpec ==
    /\ Spec
    /\ WF_vars(StartQueue)
    /\ \A w \in Workers :
          /\ WF_vars(WorkerStep(w))
          /\ WF_vars(HeartbeatExit(w))

-----------------------------------------------------------------------------
(***************************************************************************)
(* Properties.                                                             *)
(***************************************************************************)

\* A worker owns its row from the claim until FinishDeployment.
Owns(w) == pc[w] \in Steps \ {"idle", "queueing", "describing"}

\* No job is left running that nobody works on: while the process is up, every
\* running row is the claimed row of a worker.  (RUNBOOKS: the start of the
\* process must free the rows a crash left running, FinishDeployment the rest.)
RunningIsOwned ==
    up => \A i \in Ids : deployments[i].status = "running" =>
             \E w \in Workers : Owns(w) /\ job[w] = i

\* The promise of NextQueuedDeployment and of the partial unique index: no two
\* workers ever execute jobs of the same application at the same time.
ExclusiveExecution ==
    \A v, w \in Workers :
        v # w /\ Owns(v) /\ Owns(w) => deployments[job[v]].app # deployments[job[w]].app

\* A status that ended a job is never overwritten, although FinishDeployment
\* updates its row without looking at the status it finds there.
FinalStatusIsFinal ==
    [][\A i \in Ids : deployments[i].status \notin Active =>
          deployments'[i].status = deployments[i].status]_vars

\* A durable cancellation request decides how a job ends, whenever it arrives
\* before FinishDeployment; only a restart may turn it into a failure.
CancelHonoured ==
    \A i \in Ids : deployments[i].cancel /\ deployments[i].status \notin Active =>
        deployments[i].status = "cancelled" \/ deployments[i].stage = "restarted"

\* The newest row of an application says "successful" only if the image it
\* names is the one the executor last switched to: no other job of the
\* application has replaced it since (the health page derives "applied" from it).
NewestSuccessIsReleased ==
    \A i \in Ids :
        /\ deployments[i].status = "successful"
        /\ \A j \in Ids : deployments[j].app = deployments[i].app => j <= i
        => released[deployments[i].app] = deployments[i].image

\* Whatever chain of deploys, rollbacks and automatic rollbacks led to it, a
\* successful row runs an image that a successful deploy of the same
\* application built.
ImageProvenance ==
    \A i \in Ids : deployments[i].status = "successful" =>
        LET origin == deployments[i].image IN
            /\ origin \in Ids
            /\ deployments[origin].app = deployments[i].app
            /\ deployments[origin].action = "deploy"
            /\ deployments[origin].status = "successful"

\* A failed deploy starts at most one automatic rollback and a failed rollback
\* none, so rollbacks cannot feed on each other.
AutoRollbackBounded ==
    \A a \in Apps :
        Cardinality({i \in Ids : deployments[i].app = a /\ deployments[i].action = "auto_rollback"})
        <= Cardinality({i \in Ids : /\ deployments[i].app = a
                                    /\ deployments[i].action = "deploy"
                                    /\ deployments[i].stage = "start"})

\* Every row that becomes active is closed eventually, through crashes, lost
\* heartbeats and cancellations.
JobsEnd ==
    \A i \in 1 .. 2 * MaxRequests :
        (i \in Ids /\ deployments[i].status \in Active)
            ~> (i \in Ids /\ deployments[i].status \notin Active)

\* The refinement mapping: a row is a job, its application and its status.
Lifecycle == INSTANCE JobLifecycle WITH
    jobs <- [i \in Ids |-> [app |-> deployments[i].app, status |-> deployments[i].status]]

\* The queue implements JobLifecycle: whatever workers, handlers, heartbeats
\* and restarts do, a job is submitted only while its application is idle,
\* begins in the order of submission, and never leaves a final status.
ImplementsLifecycle == Lifecycle!Spec

(***************************************************************************)
(* A claim of the code's own messages that the code does not keep.         *)
(***************************************************************************)

\* The automatic rollback follows a failed start, health check or route: it is
\* never queued for a deploy whose executor call has just succeeded.
AutoRollbackOnlyAfterFailure ==
    \A w \in Workers : pc[w] = "queueing" => released[deployments[job[w]].app] # job[w]

=============================================================================
