------------------------------- MODULE Pipeline -------------------------------
(***************************************************************************)
(* One deployment from the claimed row to the finished one, as Deploy      *)
(* (internal/deploy/executor.go) and runNextDeployment (internal/app/      *)
(* cicd.go) run it: the working copy it builds from, the evidence it       *)
(* records, the bounded log it writes, and what computePipelineStatus and  *)
(* deploymentLogStream (server.go) show of it meanwhile.                   *)
(*                                                                         *)
(* Working copies outlive deployments and crashes: the next deployment     *)
(* starts from whatever the last one left.  The steps of Start are those   *)
(* of the failures it reports; BlueGreen has their detail, and             *)
(* DeploymentQueue the claiming, the lease and the cancellation.           *)
(***************************************************************************)
EXTENDS Naturals, FiniteSets, FiniteSetsExt

CONSTANTS
    Jobs,       \* the ids of the rows, 1 .. n
    Apps,
    Local,      \* the applications built from a plain local directory
    Revisions,  \* how far the sources move: 1 .. n
    OwnIgnore,  \* the revisions that have a .dockerignore of their own
    Limit,      \* config.LogMaxBytes, in chunks of output
    Watched,    \* bound: the jobs a browser may follow
    MaxCrashes  \* bound: how often the process dies

ASSUME LocalAssumption == Local \subseteq Apps
ASSUME RevisionsAssumption == Revisions \in Nat \ {0} /\ OwnIgnore \subseteq 1 .. Revisions
ASSUME LimitAssumption == Limit \in Nat
ASSUME WatchedAssumption == Watched \subseteq Jobs
ASSUME CrashesAssumption == MaxCrashes \in Nat

VARIABLES
    source,   \* per application: the newest revision of its branch or directory
    clone,    \* per application: the .git of its working copy
    tree,     \* per working copy: the revision it holds (0: none or torn)
    ignore,   \* per working copy: its .dockerignore
    app,      \* per job
    pc, row,  \* per job: its next step; the status of its row
    fetched, revision, evidence, image,  \* per job: what Deploy has found and built
    managed,  \* per job: is there a .dockerignore to remove at the end?
    err,      \* per job: the stage and the code of its failure
    reached,  \* per job: the steps of the pipeline that were carried out
    output, kept, atEnd,  \* per job: chunks written, chunks in the file, written when it ended
    viewer,   \* a browser that follows the log of one job; sent: how far it has seen
    crashes

copies == <<clone, tree, ignore>>
results == <<fetched, revision, evidence, image>>
logs == <<output, kept, atEnd>>
vars == <<source, copies, app, pc, row, results, managed, err, reached, logs, viewer, crashes>>

Steps == {"claimed", "preflight", "cloning", "fetching", "checkout", "evidence", "ignoring", "template",
          "building", "starting", "health", "route", "returning", "finishing", "notifying"}
NoError == <<"", "">>
Unclassified == <<"start", "runtime_error">>
Restarted == <<"start", "worker_restarted">>
MaxOutput == 12
Trees == 0 .. Revisions

TypeOK ==
    /\ source \in [Apps -> 1 .. Revisions]
    /\ clone \in [Apps -> {"absent", "partial", "whole"}]
    /\ tree \in [Apps -> Trees] /\ ignore \in [Apps -> {"none", "own", "managed"}]
    /\ app \in [Jobs -> Apps]
    /\ pc \in [Jobs -> Steps \cup {"new", "done"}]
    /\ row \in [Jobs -> {"queued", "running", "successful", "failed", "cancelled"}]
    /\ fetched \in [Jobs -> Trees] /\ revision \in [Jobs -> Trees]
    /\ \A j \in Jobs : image[j] # <<>> => image[j] \in Trees \X {"none", "own", "managed"}
    /\ managed \in [Jobs -> BOOLEAN] /\ reached \in [Jobs -> SUBSET (1 .. 6)]
    /\ \A j \in Jobs : kept[j] = Min({output[j], Limit}) /\ output[j] <= MaxOutput
    /\ viewer.job \in Jobs /\ viewer.sent \in 0 .. Limit
    /\ crashes \in 0 .. MaxCrashes

\* Working copies and logs are not shared, so the rows are those of one
\* application, of either kind.
Init ==
    /\ source = [a \in Apps |-> 1]
    /\ clone = [a \in Apps |-> "absent"]
    /\ tree = [a \in Apps |-> IF a \in Local THEN 1 ELSE 0]
    /\ ignore = [a \in Apps |-> IF a \in Local /\ 1 \in OwnIgnore THEN "own" ELSE "none"]
    /\ app \in {[j \in Jobs |-> a] : a \in Apps}
    /\ pc = [j \in Jobs |-> "new"] /\ row = [j \in Jobs |-> "queued"]
    /\ fetched = [j \in Jobs |-> 0] /\ revision = [j \in Jobs |-> 0]
    /\ evidence = [j \in Jobs |-> 0] /\ image = [j \in Jobs |-> <<>>]
    /\ managed = [j \in Jobs |-> FALSE]
    /\ err = [j \in Jobs |-> NoError]
    /\ reached = [j \in Jobs |-> {}]
    /\ output = [j \in Jobs |-> 0] /\ kept = [j \in Jobs |-> 0] /\ atEnd = [j \in Jobs |-> 0]
    /\ viewer \in {[job |-> j, at |-> "row", status |-> "queued", sent |-> 0] : j \in Watched}
    /\ crashes = 0

Goto(j, step) == pc' = [pc EXCEPT ![j] = step]
Reach(j, step) == reached' = [reached EXCEPT ![j] = @ \cup {step}]
Running(a) == {j \in Jobs : app[j] = a /\ pc[j] \notin {"new", "done"}}

\* limitedLogWriter.Write: what does not fit is dropped and the writer is told
\* that everything was written.
Write(j, n) ==
    /\ output' = [output EXCEPT ![j] = @ + n]
    /\ kept' = [kept EXCEPT ![j] = IF @ >= Limit THEN @ ELSE @ + Min({n, Limit - @})]
    /\ UNCHANGED atEnd

-----------------------------------------------------------------------------
(***************************************************************************)
(* The sources.                                                            *)
(***************************************************************************)

\* What a .dockerignore becomes when the sources change to revision r.
IgnoreAt(r, now) == IF r \in OwnIgnore THEN "own" ELSE IF now = "own" THEN "none" ELSE now

\* A push, or an edit of the local directory.  Nobody adds or removes a
\* .dockerignore in a directory that is being built.
SourcesMove(a) ==
    /\ source[a] < Revisions
    /\ source' = [source EXCEPT ![a] = @ + 1]
    /\ IF a \in Local
       THEN /\ Running(a) = {} \/ (source[a] \in OwnIgnore <=> source[a] + 1 \in OwnIgnore)
            /\ tree' = [tree EXCEPT ![a] = source[a] + 1]
            /\ ignore' = [ignore EXCEPT ![a] = IgnoreAt(source[a] + 1, @)]
       ELSE UNCHANGED <<tree, ignore>>
    /\ UNCHANGED <<clone, app, pc, row, results, managed, err, reached, logs, viewer, crashes>>

\* A worker takes the oldest row; an application has one active row at a time.
Claim(j) ==
    /\ pc[j] = "new" /\ Running(app[j]) = {}
    /\ \A i \in Jobs : i < j => pc[i] # "new"
    /\ Goto(j, "claimed")
    /\ row' = [row EXCEPT ![j] = "running"]
    /\ UNCHANGED <<source, copies, app, results, managed, err, reached, logs, viewer, crashes>>

\* The application is read, the log opened and the configuration put together.
OpenLog(j) ==
    /\ pc[j] = "claimed"
    /\ Goto(j, "preflight")
    /\ UNCHANGED <<source, copies, app, row, results, managed, err, reached, logs, viewer, crashes>>

\* Without its application or its log the row is failed, and nothing says why.
OpenLogFails(j) ==
    /\ pc[j] = "claimed"
    /\ row' = [row EXCEPT ![j] = "failed"]
    /\ Goto(j, "done")
    /\ UNCHANGED <<source, copies, app, results, managed, err, reached, logs, viewer, crashes>>

SelectRuntime(j) ==
    /\ pc[j] = "preflight"
    /\ Goto(j, IF app[j] \in Local THEN "evidence" ELSE "cloning")
    /\ Reach(j, 1) /\ Write(j, 1)
    /\ UNCHANGED <<source, copies, app, row, results, managed, err, viewer, crashes>>

\* The name of the application is looked at once the runtime is known.
InvalidName(j) ==
    /\ pc[j] = "preflight"
    /\ err' = [err EXCEPT ![j] = Unclassified]
    /\ Goto(j, "returning")
    /\ Reach(j, 1) /\ Write(j, 1)
    /\ UNCHANGED <<source, copies, app, row, results, managed, viewer, crashes>>

\* git clone, when there is no .git yet.
CloneRepository(j) ==
    /\ pc[j] = "cloning"
    /\ clone' = [clone EXCEPT ![app[j]] = IF @ = "absent" THEN "whole" ELSE @]
    /\ Goto(j, "fetching")
    /\ UNCHANGED <<source, tree, ignore, app, row, results, managed, err, reached, logs, viewer, crashes>>

\* Mutant: a working copy that has files is not checked out again.
FetchKeepsTree(j) ==
    /\ pc[j] = "fetching"
    /\ \E r \in 1 .. source[app[j]] :
          /\ fetched' = [fetched EXCEPT ![j] = r]
          /\ revision' = [revision EXCEPT ![j] = r]
    /\ Goto(j, IF tree[app[j]] = 0 THEN "checkout" ELSE "evidence")
    /\ UNCHANGED <<source, copies, app, row, evidence, image, managed, err, reached, logs, viewer, crashes>>

\* FETCH_HEAD is the newest revision, or the older one a webhook pinned.
Fetch(j) ==
    /\ pc[j] = "fetching"
    /\ \E r \in 1 .. source[app[j]] : fetched' = [fetched EXCEPT ![j] = r]
    /\ Goto(j, "checkout")
    /\ UNCHANGED <<source, copies, app, row, revision, evidence, image, managed, err, reached, logs, viewer, crashes>>

\* --force overwrites untracked files in the way; other untracked ones stay.
Checkout(j) ==
    /\ pc[j] = "checkout"
    /\ tree' = [tree EXCEPT ![app[j]] = fetched[j]]
    /\ ignore' = [ignore EXCEPT ![app[j]] = IgnoreAt(fetched[j], @)]
    /\ revision' = [revision EXCEPT ![j] = fetched[j]]
    /\ Goto(j, "evidence")
    /\ UNCHANGED <<source, clone, app, row, fetched, evidence, image, managed, err, reached, logs, viewer, crashes>>

\* sourceEvidence: the revision and the fingerprint of what is there now; then
\* the size of the tree is measured against the quota.
SourceEvidence(j) ==
    /\ pc[j] = "evidence"
    /\ evidence' = [evidence EXCEPT ![j] = tree[app[j]]]
    /\ Goto(j, "ignoring")
    /\ Write(j, 1)
    /\ UNCHANGED <<source, copies, app, row, fetched, revision, image, managed, err, reached, viewer, crashes>>

\* Mutant: the managed file is written over the one of the repository.
WriteIgnoreAlways(j) ==
    /\ pc[j] = "ignoring"
    /\ ignore' = [ignore EXCEPT ![app[j]] = "managed"]
    /\ managed' = [managed EXCEPT ![j] = TRUE]
    /\ Goto(j, "template") /\ Reach(j, 2)
    /\ UNCHANGED <<source, clone, tree, app, row, results, err, logs, viewer, crashes>>

\* A .dockerignore that is there counts as the project's; otherwise one is
\* written for the time of the deployment, or the build goes on without.
WriteIgnore(j) ==
    /\ pc[j] = "ignoring"
    /\ \E written \in {FALSE, ignore[app[j]] = "none"} :
          /\ ignore' = [ignore EXCEPT ![app[j]] = IF written THEN "managed" ELSE @]
          /\ managed' = [managed EXCEPT ![j] = written]
    /\ Goto(j, "template") /\ Reach(j, 2)
    /\ UNCHANGED <<source, clone, tree, app, row, results, err, logs, viewer, crashes>>

\* generatedDockerfile: a temporary file outside the working copy, if any.
GeneratedDockerfile(j) ==
    /\ pc[j] = "template"
    /\ Goto(j, "building")
    /\ UNCHANGED <<source, copies, app, row, results, managed, err, reached, logs, viewer, crashes>>

Build(j) ==
    /\ pc[j] = "building"
    /\ image' = [image EXCEPT ![j] = <<tree[app[j]], ignore[app[j]]>>]
    /\ Goto(j, "starting") /\ Reach(j, 3) /\ Write(j, 2)
    /\ UNCHANGED <<source, copies, app, row, fetched, revision, evidence, managed, err, viewer, crashes>>

-----------------------------------------------------------------------------
(***************************************************************************)
(* Start, and the end of the deployment.                                   *)
(***************************************************************************)
StartStep(j) ==
    /\ \/ pc[j] = "starting" /\ Goto(j, "health") /\ Reach(j, 4)
       \/ pc[j] = "health" /\ Goto(j, "route") /\ Reach(j, 5)
       \/ pc[j] = "route" /\ Goto(j, "returning") /\ Reach(j, 6)
    /\ Write(j, 1)
    /\ UNCHANGED <<source, copies, app, row, results, managed, err, viewer, crashes>>

\* The stage and the code of a failure at each step, as FailureDetails reports them:
\* a configuration that cannot be read, as while MiniDock is locked, has neither.  A
\* killed clone or checkout leaves its working copy torn.
FailureAt == [claimed |-> Unclassified, preflight |-> <<"start", "runtime_unavailable">>,
              cloning |-> <<"source", "clone_failed">>, fetching |-> <<"source", "fetch_failed">>,
              checkout |-> <<"source", "checkout_failed">>, evidence |-> <<"source", "workspace_quota_exceeded">>,
              template |-> <<"build", "contract_invalid">>, building |-> <<"build", "build_failed">>,
              starting |-> <<"start", "start_failed">>, health |-> <<"health", "health_failed">>,
              route |-> <<"route", "route_failed">>]

Torn(a, steps) ==
    /\ clone' = [clone EXCEPT ![a] = IF "cloning" \in steps /\ @ = "absent" THEN "partial" ELSE @]
    /\ tree' = [tree EXCEPT ![a] = IF "checkout" \in steps THEN 0 ELSE @]

StepFails(j) ==
    /\ pc[j] \in DOMAIN FailureAt
    /\ err' = [err EXCEPT ![j] = FailureAt[pc[j]]]
    /\ Torn(app[j], {pc[j]})
    /\ Goto(j, "returning")
    /\ UNCHANGED <<source, ignore, app, row, results, managed, reached, logs, viewer, crashes>>

\* The deferred clean-ups of Deploy, whatever its result, and the last line
\* runNextDeployment writes before it finishes the row.  A lost lease is an error
\* when Deploy returned none.
Return(j) ==
    /\ pc[j] = "returning"
    /\ ignore' = [ignore EXCEPT ![app[j]] = IF managed[j] THEN "none" ELSE @]
    /\ managed' = [managed EXCEPT ![j] = FALSE]
    /\ \E e \in {err[j], IF err[j] = NoError THEN Unclassified ELSE err[j]} :
          err' = [err EXCEPT ![j] = e]
    /\ Goto(j, "finishing") /\ Write(j, 1)
    /\ UNCHANGED <<source, clone, tree, app, row, results, reached, viewer, crashes>>

\* The operator may have asked for the cancellation, and the application for an
\* automatic rollback when a start, a health check or a route fails.
FinishDeployment(j) ==
    /\ pc[j] = "finishing"
    /\ \E status \in {"cancelled", IF err[j] = NoError THEN "successful" ELSE "failed"} :
          /\ row' = [row EXCEPT ![j] = status]
          /\ \/ Goto(j, "done")
             \/ status = "failed" /\ err[j][1] \in {"start", "health", "route"} /\ Goto(j, "notifying")
    /\ atEnd' = [atEnd EXCEPT ![j] = output[j]]
    /\ UNCHANGED <<source, copies, app, results, managed, err, reached, output, kept, viewer, crashes>>

\* The line about the automatic rollback, in the log of a finished row.
NoteRollback(j) ==
    /\ pc[j] = "notifying"
    /\ Goto(j, "done") /\ Write(j, 1)
    /\ UNCHANGED <<source, copies, app, row, results, managed, err, reached, viewer, crashes>>

\* The process dies with everything it runs and everyone it serves; the next
\* one closes the rows that were running.
Crash ==
    LET lost == {j \in Jobs : pc[j] \notin {"new", "done"}}
        cut == {j \in lost : row[j] = "running"}
    IN
    /\ crashes < MaxCrashes
    /\ crashes' = crashes + 1
    /\ pc' = [j \in Jobs |-> IF j \in lost THEN "done" ELSE pc[j]]
    /\ row' = [j \in Jobs |-> IF j \in cut THEN "failed" ELSE row[j]]
    /\ err' = [j \in Jobs |-> IF j \in cut THEN Restarted ELSE err[j]]
    /\ managed' = [j \in Jobs |-> FALSE]
    /\ clone' = [a \in Apps |-> IF clone[a] = "absent" /\ \E j \in lost : app[j] = a /\ pc[j] = "cloning"
                                THEN "partial" ELSE clone[a]]
    /\ tree' = [a \in Apps |-> IF \E j \in lost : app[j] = a /\ pc[j] = "checkout" THEN 0 ELSE tree[a]]
    /\ viewer' = IF viewer.at = "ended" THEN viewer ELSE [viewer EXCEPT !.at = "lost"]
    /\ UNCHANGED <<source, ignore, app, results, reached, logs>>

-----------------------------------------------------------------------------
(***************************************************************************)
(* What is shown.                                                          *)
(***************************************************************************)

\* Mutant: the stream ends before the rest of the log is read.
PollFileUnlessEnded ==
    /\ viewer.at = "file"
    /\ viewer' = IF viewer.status \in {"successful", "failed"} THEN [viewer EXCEPT !.at = "ended"]
                 ELSE [viewer EXCEPT !.sent = kept[viewer.job], !.at = "row"]
    /\ UNCHANGED <<source, copies, app, pc, row, results, managed, err, reached, logs, crashes>>

\* deploymentLogStream: the row first, then the end of the log (a message is the
\* last 16 KB of the file), then the status that was read decides whether there is
\* another round.
PollRow ==
    /\ viewer.at = "row"
    /\ viewer' = [viewer EXCEPT !.status = row[viewer.job], !.at = "file"]
    /\ UNCHANGED <<source, copies, app, pc, row, results, managed, err, reached, logs, crashes>>
PollFile ==
    /\ viewer.at = "file"
    /\ viewer' = [viewer EXCEPT !.sent = kept[viewer.job],
                                !.at = IF viewer.status \in {"successful", "failed"} THEN "ended" ELSE "row"]
    /\ UNCHANGED <<source, copies, app, pc, row, results, managed, err, reached, logs, crashes>>

\* Mutant: a failed build is shown at the start.
FailedStepLate(stage, code) ==
    CASE stage = "start" /\ code = "runtime_unavailable" -> 1
      [] stage = "source" -> 2 [] stage = "health" -> 5 [] stage = "route" -> 6 [] OTHER -> 4

\* computePipelineStatus: the step a failure is shown at.
FailedStep(stage, code) ==
    CASE stage = "start" /\ code = "runtime_unavailable" -> 1
      [] stage = "source" -> 2 [] stage = "build" -> 3 [] stage = "health" -> 5
      [] stage = "route" -> 6 [] OTHER -> 4
PipelineStatus(j) ==
    LET failed == FailedStep(err[j][1], err[j][2])
    IN [step \in 1 .. 6 |->
          CASE row[j] = "successful" -> "done"
            [] row[j] = "failed" -> IF step < failed THEN "done" ELSE IF step = failed THEN "failed" ELSE "pending"
            [] row[j] = "running" -> IF step <= 2 THEN "done" ELSE IF step <= 4 THEN "active" ELSE "pending"
            [] row[j] = "queued" -> IF step = 1 THEN "done" ELSE IF step = 2 THEN "active" ELSE "pending"
            [] row[j] = "cancelled" -> IF step = 1 THEN "done" ELSE "pending"]

Deploy(j) ==
    \/ OpenLog(j) \/ OpenLogFails(j) \/ InvalidName(j)
    \/ SelectRuntime(j) \/ CloneRepository(j) \/ Fetch(j) \/ Checkout(j)
    \/ SourceEvidence(j) \/ WriteIgnore(j) \/ GeneratedDockerfile(j) \/ Build(j)
    \/ StartStep(j) \/ StepFails(j) \/ Return(j) \/ FinishDeployment(j) \/ NoteRollback(j)

Next ==
    \/ \E j \in Jobs : Claim(j) \/ Deploy(j)
    \/ \E a \in Apps : SourcesMove(a)
    \/ PollRow \/ PollFile
    \/ Crash

\* A worker runs on, every command under a timeout, and so does the loop of
\* the log stream.
Fairness == (\A j \in Jobs : WF_vars(Claim(j) \/ Deploy(j))) /\ WF_vars(PollRow \/ PollFile)
Spec == Init /\ [][Next]_vars /\ Fairness

-----------------------------------------------------------------------------
(***************************************************************************)
(* Properties.                                                             *)
(***************************************************************************)

\* The evidence of a release is about its image: what was built from a Git
\* repository is the revision and the tree that were recorded, whatever earlier
\* deployments and crashes left in the working copy.
EvidenceIsBuilt ==
    \A j \in Jobs : image[j] # <<>> /\ app[j] \notin Local =>
        image[j][1] = revision[j] /\ evidence[j] = revision[j]

\* An image is built under the .dockerignore of its own revision where there is
\* one, and never under another revision's where there is none; unless the process died in a
\* deployment, no managed file is left behind when none runs.
IgnoreIsRight ==
    /\ \A j \in Jobs : image[j] # <<>> =>
          (image[j][2] = "own" <=> image[j][1] \in OwnIgnore)
    /\ crashes = 0 => \A a \in Apps : Running(a) = {} => ignore[a] # "managed"

\* A failure that says nothing of the step it happened at.
Unexplained(j) == row[j] = "failed" /\ err[j] \in {NoError, Unclassified, Restarted}

\* A successful row is shown with the steps that were carried out, and a failed one
\* names the step at which Deploy failed and shows no step as done that was not carried
\* out.  This is so of the failures Deploy classifies.  The others are all shown at the
\* start, after three steps that are done, whatever happened: no application or log, a
\* configuration that cannot be read, an invalid name, a lease lost in the end, a restart.
FailureIsShown ==
    \A j \in Jobs : row[j] \in {"successful", "failed"} /\ ~Unexplained(j) =>
        \A step \in 1 .. 6 :
            /\ PipelineStatus(j)[step] = "done" => step \in reached[j]
            /\ PipelineStatus(j)[step] = "failed" => step \notin reached[j]

\* The log stream of a job that is finished as successful or failed ends by itself,
\* and its last message reaches to the end of what the job had written when its row
\* was finished, up to the limit and never beyond it (a restart closes the connection
\* of the browser).
StreamDelivers ==
    [](row[viewer.job] \in {"successful", "failed"} =>
          <>(\/ viewer.at = "lost"
             \/ viewer.at = "ended" /\ viewer.sent \in Min({atEnd[viewer.job], Limit}) .. Limit))

=============================================================================
