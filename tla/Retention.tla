------------------------------ MODULE Retention ------------------------------
(***************************************************************************)
(* Retention: runRetention (internal/app/operations.go), started by the    *)
(* hourly loop and by an operator, over the finished rows of one           *)
(* application and the Docker images they name, while deployments and      *)
(* rollbacks of that application go on.                                    *)
(*                                                                         *)
(* An image is known by the number of the deployment that built it; a      *)
(* rollback row names the image of its target.  deployments.id is a plain  *)
(* INTEGER PRIMARY KEY: SQLite gives a new row the highest id of the table *)
(* plus one, so the id of a deleted newest row comes back unless another   *)
(* application holds a higher one.  A runner may then hold an id that has  *)
(* become that of a new row (clash).  What a job whose row is deleted      *)
(* under it still does is not followed.                                    *)
(***************************************************************************)
EXTENDS Integers, FiniteSets, FiniteSetsExt

CONSTANTS
    Runners,            \* the hourly loop and the handler of the button
    Retain,             \* successful rows kept whatever their age (3 by default)
    MaxRows,            \* bound: deployments requested
    MaxRetentionCrashes \* bound: how often the process dies

ASSUME RunnersAssumption == IsFiniteSet(Runners)
ASSUME RetainAssumption == Retain \in Nat \ {0}
ASSUME RetentionBounds == MaxRows \in Nat /\ MaxRetentionCrashes \in Nat

VARIABLES
    history,  \* per id: the row
    inserted, \* bound: rows inserted so far; no id is higher
    images,   \* the images Docker has
    running,  \* the image of the serving container (0: none)
    target,   \* the image of the rollback in progress (0: none yet)
    schedule, \* automation_settings.cleanup_schedule
    due,      \* has the interval of the schedule passed?
    todo,     \* per runner: the candidates it has still to look at, as it read them
    done,     \* per runner: the ids it will delete
    active,   \* per runner: is it inside runRetention?
    clash,    \* history: was an id given again that a runner had on its list?
    retentionCrashes

table == <<history, inserted>>
docker == <<images, running>>
runner == <<todo, done, active>>
timer == <<schedule, due>>
retentionVars == <<history, inserted, images, running, target, schedule, due, todo, done, active,
                   clash, retentionCrashes>>

-----------------------------------------------------------------------------
Ids == 1 .. MaxRows

\* "running" stands for queued too, "failed" for every other end than success.
Row == [status : {"running", "successful", "failed"}, action : {"deploy", "rollback", "auto_rollback"},
        image : 0 .. MaxRows, old : BOOLEAN]
NoRow == [status |-> "none", action |-> "none", image |-> 0, old |-> FALSE]

Exists(i) == history[i] # NoRow
Successful == {i \in Ids : history[i].status = "successful"}
Running == {i \in Ids : history[i].status = "running"}

\* The ids a new row may get: one more than the highest of the table, which may be
\* that of another application.
NextIds == {i \in 1 .. inserted + 1 : \A j \in Ids : Exists(j) => j < i}

\* The ids a runner is going to look at or to delete.
Listed(r) == {c.id : c \in todo[r]} \cup done[r]

\* How many successful rows are at least as new as row i.
Rank(i) == Cardinality({j \in Successful : j >= i})
Kept == {i \in Successful : Rank(i) <= Retain}

\* PreviousSuccessfulDeployment and LatestSuccessfulDeployment.
Targets(action) == {i \in Successful : Rank(i) = IF action = "rollback" THEN 2 ELSE 1}

RetentionTypeOK ==
    /\ history \in [Ids -> Row \cup {NoRow}]
    /\ inserted \in 0 .. MaxRows
    /\ images \subseteq Ids /\ running \in 0 .. MaxRows /\ target \in 0 .. MaxRows
    /\ schedule \in {"manual", "daily"} /\ due \in BOOLEAN
    /\ todo \in [Runners -> SUBSET [id : Ids, image : 0 .. MaxRows]]
    /\ done \in [Runners -> SUBSET Ids]
    /\ active \in [Runners -> BOOLEAN]
    /\ clash \in BOOLEAN
    /\ retentionCrashes \in 0 .. MaxRetentionCrashes

RetentionInit ==
    /\ history = [i \in Ids |-> NoRow]
    /\ inserted = 0
    /\ images = {} /\ running = 0 /\ target = 0
    /\ schedule = "manual" /\ due = TRUE
    /\ todo = [r \in Runners |-> {}]
    /\ done = [r \in Runners |-> {}]
    /\ active = [r \in Runners |-> FALSE]
    /\ clash = FALSE
    /\ retentionCrashes = 0

-----------------------------------------------------------------------------
(***************************************************************************)
(* Deployments, as far as retention can meet them.                         *)
(***************************************************************************)

BeginDeployment(action) ==
    /\ Running = {}
    /\ inserted < MaxRows
    /\ inserted' = inserted + 1
    /\ \E id \in NextIds :
          /\ history' = [history EXCEPT ![id] = [status |-> "running", action |-> action,
                                                 image |-> 0, old |-> FALSE]]
          /\ clash' = (clash \/ \E r \in Runners : id \in Listed(r))
    /\ UNCHANGED <<docker, target, timer, runner, retentionCrashes>>

Finish(i, status, image) ==
    history' = [history EXCEPT ![i].status = status, ![i].image = image]

\* The image is built and started, or built and left behind, or not built.
FinishDeploy(i) ==
    /\ i \in Running
    /\ history[i].action = "deploy"
    /\ \/ /\ Finish(i, "successful", inserted)
          /\ images' = images \cup {inserted}
          /\ running' = inserted
       \/ /\ Finish(i, "failed", 0)
          /\ images' \in {images, images \cup {inserted}}
          /\ UNCHANGED running
    /\ UNCHANGED <<inserted, target, timer, runner, clash, retentionCrashes>>

\* The target is looked up and VerifyArtifact inspects its image.
ResolveTarget(i) ==
    /\ i \in Running
    /\ target = 0
    /\ \E p \in Targets(history[i].action) :
          history[p].image \in images /\ target' = history[p].image
    /\ history[i].action # "deploy"
    /\ UNCHANGED <<table, docker, timer, runner, clash, retentionCrashes>>

\* Start runs the image if it is still there.
FinishRollback(i) ==
    /\ i \in Running
    /\ history[i].action # "deploy" /\ target # 0
    /\ \/ /\ target \in images
          /\ Finish(i, "successful", target)
          /\ running' = target
       \/ /\ Finish(i, "failed", target)
          /\ UNCHANGED running
    /\ target' = 0
    /\ UNCHANGED <<inserted, images, timer, runner, clash, retentionCrashes>>

\* There is no target, its image is gone, or the job fails before.
RollbackFails(i) ==
    /\ i \in Running
    /\ history[i].action # "deploy" /\ target = 0
    /\ Finish(i, "failed", 0)
    /\ UNCHANGED <<inserted, docker, target, timer, runner, clash, retentionCrashes>>

\* Rows end in the order of their ids, and get older than the limit in that order.
Age(i) ==
    /\ Exists(i) /\ i \notin Running /\ ~history[i].old
    /\ \A j \in 1 .. i - 1 : Exists(j) => history[j].old
    /\ history' = [history EXCEPT ![i].old = TRUE]
    /\ UNCHANGED <<inserted, docker, target, timer, runner, clash, retentionCrashes>>

Deployment ==
    \/ \E action \in {"deploy", "rollback", "auto_rollback"} : BeginDeployment(action)
    \/ \E i \in Ids : FinishDeploy(i) \/ ResolveTarget(i) \/ FinishRollback(i) \/ RollbackFails(i)
                      \/ Age(i)

-----------------------------------------------------------------------------
(***************************************************************************)
(* runRetention.                                                           *)
(***************************************************************************)

\* Mutant: the row that ought to be the last one kept is a candidate.
CandidatesOffByOne == {i \in Ids : history[i].old /\ ~(i \in Successful /\ Rank(i) < Retain)}

\* Old and finished, and not among the Retain newest successful rows.
RetentionCandidates == {i \in Ids : history[i].old /\ i \notin Kept}

\* Only a successful row's image is removed.
Candidate(i) == [id |-> i, image |-> IF i \in Successful THEN history[i].image ELSE 0]

BeginRetention(r) ==
    /\ ~active[r]
    /\ active' = [active EXCEPT ![r] = TRUE]
    /\ todo' = [todo EXCEPT ![r] = {Candidate(i) : i \in RetentionCandidates}]
    /\ done' = [done EXCEPT ![r] = {}]
    /\ UNCHANGED <<table, docker, target, timer, clash, retentionCrashes>>

\* The button: whenever the operator likes.
RetentionHandler(r) == r = "handler" /\ BeginRetention(r)

\* The loop: a schedule that is not manual, and its interval over.
CleanupLoop(r) == r = "loop" /\ schedule # "manual" /\ due /\ BeginRetention(r)

\* docker image rm without --force: not the image of a container.
Removable(image) == image \in images /\ image # running

\* The newest candidate is next, and its image goes first.  When Docker refuses, or
\* answers too late, the row stays; the log file is next, and a row whose file
\* cannot be removed stays as well.
CleanCandidate(r) ==
    /\ active[r]
    /\ \E c \in todo[r] :
          /\ \A d \in todo[r] : d.id <= c.id
          /\ todo' = [todo EXCEPT ![r] = @ \ {c}]
          /\ \/ /\ c.image # 0 => Removable(c.image)
                /\ images' = images \ {c.image}
                /\ done' = [done EXCEPT ![r] = @ \cup {c.id}]
             \/ /\ images' = images \ (IF Removable(c.image) THEN {c.image} ELSE {})
                /\ UNCHANGED done
             \/ UNCHANGED <<images, done>>
    /\ UNCHANGED <<table, running, target, timer, active, clash, retentionCrashes>>

\* Mutant: the DELETE selects the rows again, by their age.
DeleteOldRows(r) ==
    /\ active[r] /\ todo[r] = {}
    /\ history' = [i \in Ids |-> IF history[i].old THEN NoRow ELSE history[i]]
    /\ due' = IF r = "loop" THEN FALSE ELSE due
    /\ active' = [active EXCEPT ![r] = FALSE]
    /\ done' = [done EXCEPT ![r] = {}]
    /\ UNCHANGED <<inserted, docker, target, schedule, todo, clash, retentionCrashes>>

\* One DELETE by id for all of them.  The loop waits for the next interval after
\* a success and tries again in an hour after an error.
DeleteDeployments(r) ==
    /\ active[r] /\ todo[r] = {}
    /\ \/ /\ history' = [i \in Ids |-> IF i \in done[r] THEN NoRow ELSE history[i]]
          /\ due' = IF r = "loop" THEN FALSE ELSE due
       \/ UNCHANGED <<history, due>>
    /\ active' = [active EXCEPT ![r] = FALSE]
    /\ done' = [done EXCEPT ![r] = {}]
    /\ UNCHANGED <<inserted, docker, target, schedule, todo, clash, retentionCrashes>>

RetentionStep(r) ==
    RetentionHandler(r) \/ CleanupLoop(r) \/ CleanCandidate(r) \/ DeleteDeployments(r)

UpdateCleanupSchedule ==
    /\ schedule' \in {"manual", "daily"} \ {schedule}
    /\ UNCHANGED <<table, docker, target, due, runner, clash, retentionCrashes>>

IntervalPasses ==
    /\ ~due
    /\ due' = TRUE
    /\ UNCHANGED <<table, docker, target, schedule, runner, clash, retentionCrashes>>

\* The runners forget what they did; the interrupted row is closed as failed by
\* the recovery at start; the loop has no last run to wait for.
RetentionCrash ==
    /\ retentionCrashes < MaxRetentionCrashes
    /\ retentionCrashes' = retentionCrashes + 1
    /\ history' = [i \in Ids |-> IF i \in Running THEN [history[i] EXCEPT !.status = "failed"]
                                ELSE history[i]]
    /\ target' = 0
    /\ due' = TRUE
    /\ todo' = [r \in Runners |-> {}]
    /\ done' = [r \in Runners |-> {}]
    /\ active' = [r \in Runners |-> FALSE]
    /\ UNCHANGED <<inserted, docker, schedule, clash>>

RetentionNext ==
    \/ Deployment
    \/ \E r \in Runners : RetentionStep(r)
    \/ UpdateCleanupSchedule \/ IntervalPasses
    \/ RetentionCrash

RetentionSpec == RetentionInit /\ [][RetentionNext]_retentionVars

-----------------------------------------------------------------------------
(***************************************************************************)
(* Properties.                                                             *)
(***************************************************************************)

\* Unless an id that a runner had on its list was given to a new row: the image of
\* each of the Retain newest successful deploys is there to roll back to, whatever
\* the two runners of runRetention, their errors and a crash between image and row
\* have done.  (A rollback row shares the image of an older row.  After a clash a
\* row that should be kept can be deleted, and one whose image is gone be kept.)
ImagesKept ==
    ~clash => \A i \in Kept : history[i].action = "deploy" => history[i].image \in images

\* Under the same condition a DELETE by ids that were chosen earlier removes no row
\* that has become needed or is in use: when it runs every one of them is old, has
\* ended and is not among the Retain newest successful rows (RetentionCandidates,
\* DeleteDeployments).  The condition is not guaranteed by the code: with the loop
\* and the button at once the slower one deletes a new row under a reused id.
DeletesOnlyOld ==
    [][\A i \in Ids : ~clash /\ Exists(i) /\ history'[i] = NoRow
                      => history[i].old /\ i \notin Kept]_retentionVars

=============================================================================
