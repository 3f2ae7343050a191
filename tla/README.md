# MiniDock in TLA+

MiniDock is a small self-hosted deployment panel: one Go process, one SQLite
database, Docker (or Apple `container`) as the runtime and Caddy as the proxy.
This directory holds TLA+ models of its parts, the TLC configurations that check
them on small instances, and TLAPS proofs that carry their safety properties from the
small instances to every instance.
Paths below are relative to `src/`.

## 1. Inventory

| Component | State | Operations | Hard because | Modelled |
|---|---|---|---|---|
| Deployment queue (`internal/app/cicd.go`, deployments in `internal/store/store.go`) | table `deployments`, partial unique index, goroutines and their locals | queue, claim, heartbeat, cancel, finish, automatic rollback, recovery | two workers, a heartbeat per job, HTTP handlers, cancellation at any time, crashes | `DeploymentQueue`, `JobLifecycle` |
| Release switch (`internal/deploy/executor.go`) | containers under four names, one Caddy route | `Start`, `Reconcile` | a dozen external commands, each of which can fail, time out, be cancelled or be the last before a crash | `BlueGreen` |
| Build pipeline (`executor.Deploy`), deployment log and its stream (`server.go:1628`) | working copies, `.dockerignore`, log file, evidence of the release | clone, fetch, checkout, fingerprint, build, write, follow | working copies outlive deployments; a reader follows a writer | `Pipeline` |
| GitHub webhook (`cicd.go:32`) | `webhook_deliveries`, `webhook_rate_limits` | verify, claim delivery, rate limit, queue | redelivery, settings that change between two reads | `Webhook` |
| Sessions and KMS lock (`internal/app/server.go`) | key in memory, session map, `unlock_attempts` | setup, unlock, lock, expiry | keys are derived outside every lock | `Vault` |
| Secrets, configuration (`server.go`, `store.go`) | sealed rows, public rows, manifests of releases | save, delete, assemble, roll back | edited while a job reads them | `Environment` |
| Collector and alerts (`internal/app/operations.go`) | `operational_alerts`, caches | collect, upsert, resolve others | several writers of one table, a world that changes | `Alerts` (alerts only) |
| Retention and cleanup (`operations.go:469`, `cicd.go:250`) | rows, images, log files | delete old images and rows | two runners, running jobs | `Retention` |
| Migrations (`store.go:911`) | schema, `user_version` | migrate | statements that commit one by one | `Schema` |
| Backups (`operations.go:595`, `internal/backup`, `cmd/minidock/backup.go`) | files, last success | back up, rotate, upload, restore | torn files, two rotations at once | `Backups` |
| Cloudflare tunnel and connector (`internal/app/cloudflare*.go`, `server.go:2080`) | row, sealed tokens, remote tunnel, ingress and records, a container | save, reconnect, rename a domain, sync | three systems and no transaction | `Tunnel` |
| Agent control plane (`internal/agent`, `cmd/minidock-agent`) | table `nodes`, streams | enrol, heartbeat | two agents with one id, late messages | `Nodes` |
| Runtime detection, Dockerfile templates (`internal/runtime`) | none | text from files | - | outcome only, in `Pipeline` |
| Apple adapter, repository browser, configuration, pages, `devwatch` | none of their own | commands, file reads, text | - | no |

How the parts interact.  The HTTP handlers and the webhook insert rows into
`deployments`; `StartQueue` first recovers the table and reconciles the routes,
then starts the worker goroutines, which poll the table every 300 ms.  A worker
claims the oldest queued row, starts a heartbeat goroutine that shares its job
context, calls the executor (build, `Start`, `VerifyArtifact`, `Rollback`),
writes the evidence of the release, cancels the context, waits for the
heartbeat, decides the status and closes the row; a failed deploy may queue a
rollback.  The executor drives Docker and the Admin API of Caddy.  The database,
the containers and the route survive a crash; everything else is lost.

The webhook and the settings page change when a job may be queued; the vault and
the environment decide with which variables it runs; retention removes the rows
and images it leaves behind; the collector looks at the result.  Every one of
them is a goroutine or a handler of its own over the same database connection.

What makes it correct: one job per application at a time, first in first out;
every job ends, and ends once; a cancellation wins; a successful row names an
image that was built by a successful deploy and is the one that runs; the domain
always leads to a container that answered; a restart at any point gives back both
the queue and the route; an image is what its evidence says; a delivery starts at
most one job; no key but the verified one is ever used and no release runs with a
part of its secrets; what is deleted is old; what is wrong is shown; a database
opens after any crash and a backup of it remains; the tunnel is the one the row
names; a node id belongs to one certificate.  `PROJECT.json` lists, under
"hazards", where in the code each of these could go wrong, and the property that
watches it.

## 2. Modules

| Module | What it is | Run as |
|---|---|---|
| `JobLifecycle` | the promise of the queue: submit while idle, begin in order, close once | refined by `DeploymentQueue` |
| `DeploymentQueue` | the table, handlers, workers, heartbeats, crash and restart | `MCDeploymentQueue` |
| `DeploymentQueueProofs` | two inductive invariants, theorems, refinement of `JobLifecycle` | - |
| `BlueGreen` | `DockerAdapter.Start`, the Caddy route, `Reconcile`, their failures | `MCBlueGreen` |
| `BlueGreenProofs` | its inductive invariant and theorems | - |
| `Pipeline` | `Deploy` over working copies, evidence, log, the page and the stream | itself |
| `PipelineProofs` | its inductive invariant and theorems | - |
| `Webhook` | the push handler, deduplication, rate limit | `MCWebhook` |
| `WebhookProofs` | its inductive invariant and theorems | - |
| `Vault` | setup, throttled unlock, lock, sessions | inside `Environment` |
| `Environment` | `Vault` with secrets, configuration and the job that assembles them | `MCEnvironment` |
| `EnvironmentProofs` | the inductive invariant and theorems of `Vault` and `Environment` | - |
| `Retention` | the two runners of `runRetention` over rows and images | `MCRetention` |
| `Alerts` | collector, alerts of others, table and cache | `MCAlerts` |
| `Schema` | database files and the ten migrations | inside `Backups` |
| `Backups` | `Schema` with backups, rotation, S3, restore | `MCBackups` |
| `OperationsProofs` | the inductive invariants and theorems of `Alerts`, `Retention` and `Backups` | - |
| `Tunnel` | the four Cloudflare handlers, API, DNS, connector container | `MCTunnel` |
| `TunnelProofs` | its inductive invariant and theorems, for any number of handlers at once | - |
| `Nodes` | agents, streams, `UpsertNode` | itself |
| `NodesProofs` | its inductive invariant and theorems | - |

`DeploymentQueue`, `Pipeline` and `BlueGreen` are three views of one job.
`DeploymentQueue` sees the executor call as one step that succeeds (`released`
then names the image) or fails in a stage; `Pipeline` opens the part up to
`Start` and what is recorded and shown of it; `BlueGreen` opens `Start`.  The last
two rely on the queue for the fact that an application has one call at a time
(theorem `Exclusive`).  `Webhook` and `Retention` see of the queue what they
touch: whether a row is active, and the finished rows.

### DeploymentQueue

State.  `deployments` is the table, row *i* having id *i* (rows are never
deleted here).  A row keeps the columns some decision reads: application,
status, action, `requested_ref` (a pinned commit, or anything mutable), image,
whether an artifact digest is recorded, the cancellation request and the failure
stage.  An image is named by the id of the deploy that built it: tags are unique
per build.  `pc`, `job`, `ref`, `image`, `err`, `verdict` are the locals of
`runNextDeployment`; `heartbeat` and `stopped` are the heartbeat goroutine and
the job context; `describing` holds the requests between their two statements;
`released` is the image the runtime was last switched to.

| Action | Code |
|---|---|
| `RequestDeploy`, `RequestRollback`, `WebhookPush`, then `SetQueuedMetadata` or `AbandonRequest` | `queueDeploymentRef`, cicd.go:173: the INSERT, then the metadata in a second statement under the request's context |
| `RequestCancel` | the cancel handler and `CancelDeployment`, store.go:648 |
| `NextQueuedDeployment` | store.go:581, one transaction |
| `OpenLogFails`, `BeginJob` | cicd.go:299-334 |
| `DeploySucceeds`, `DeployFails` | executor.Deploy |
| `ResolveTarget`, `ResolveTargetFails`, `RollbackSucceeds`, `RollbackFails` | cicd.go:368-407, executor.Rollback |
| `RecordRelease` | evidence of the release and `stopJob()`, cicd.go:344-367, 408 |
| `DecideStatus`, `FinishJob` | join of the heartbeat, status, failure, `FinishDeployment` |
| `QueueAutoRollback`, `DescribeAutoRollback` | cicd.go:444-450 |
| `HeartbeatDeployment`, `HeartbeatExit` | cicd.go:531-555, store.go:625 |
| `Crash`, `StartQueue` | the process dies; cicd.go:218, store.go:690 |

Granularity.  The store has a single connection and every call is one statement
or one transaction, so a call is a step.  Where two of them are one action, no
other step can tell the difference: `SetDeploymentImage`, the release metadata
and `stopJob()` (columns of the worker's own row that nobody else reads while it
runs, but for a late `SetQueuedMetadata`, which overwrites in either order); the
two UPDATEs of `CancelDeployment` (disjoint by status); the read of the
cancellation request and `SetDeploymentFailure` (the failure columns decide
nothing for a row that ends cancelled).  The request that nobody interrupts
writes both statements at once; the "slow" one is split.  A renewal of the lease
changes nothing in the model, because no code reads the lease.

A graceful shutdown is covered by `Crash`: the process exits without waiting for
its workers, so what they had written so far is all that remains.  A cancelled
job may still succeed, since its last command may have ended already.

### BlueGreen

State.  `slot` gives the container behind each of the names `minidock-<app>`,
`-candidate`, `-next` and `-previous`; `route` the container Caddy dials;
`active`, `staging`, `target` are the locals of `Start`.  `proven` and
`verified` are history: the container of the last successful `Start`, and the
one that last answered through Caddy.  Each command whose result `Start` awaits
is one action; `Reconcile` is one action per branch, because nothing else runs
while it does, and a crash inside it leaves a state from which it does the same
again.  `Faults` says what the environment may do on top of bad releases.  A
docker command that fails may have had its effect (the daemon goes on when its
client is killed), and a failed inspection reads as "no such container", as
`dockerContainerExists` does.  Initial states are a fresh host, a host after a
switch, and the two layouts left by the versions that served from
`minidock-<app>`, which `Reconcile` still handles.

### Pipeline

A working copy is its `.git` (absent, partial, whole), the revision its files
hold (0 after a killed checkout) and its `.dockerignore` (none, the repository's
own, or the managed one `Deploy` writes and removes again).  A job fetches the
newest revision or the older one a webhook pinned.  Every command of `Deploy` is
a step and `FailureAt` gives the stage and the code with which it fails; a job can
also fail before the executor is called (`OpenLogFails`, a configuration that is
locked), at its first check (`InvalidName`) and behind a good `Deploy`, when its lease
is lost (`Return`), and `Unclassified` is the default of `FailureDetails`.  The log
is a count of chunks written and kept; the viewer is the loop of
`deploymentLogStream`, which reads the row and then the file.  `reached` is
history: which of the six steps of the page were carried out.

### Webhook

One request is the sequence of statements of `githubWebhook`, each of which may
fail, for any number of requests that carry any of the deliveries.  `seen`,
`countedIn`, `passedIn` and `refusedIn` are history.  The queue is one bit: a
second INSERT fails with UNIQUE, which the handler answers like a success.

### Vault and Environment

A key is named after the setup that made it.  `covered` are the requests that
arrived before the end of the running lockout: `RegisterFailedUnlock` compares
the lockout with the arrival of the request, so they no longer count.  A secret
is the key it was sealed under and its value.  A job reads the public values, the
list of secrets, the key and each secret in separate steps; `secretHad` and
`publicHad` are history: what the tables held while it did.

### Retention

Rows have the columns retention and rollbacks read; an image is the number of the
deployment that built it, and a rollback row names its target's.  Rows grow older
than the limit in the order of their ids.  `todo` are the candidates as a runner has
read them; it takes the newest first, as the query orders them.  Each candidate is
one step: image, log file, mark; the DELETE of all marked ids is the last.
A new row gets an id above the highest of the table, which may be another
application's (`NextIds`), so the id of a deleted newest row may come back; `clash`
is history: an id that a runner still has on its list was given to a new row.

### Alerts

A check is a position of the collection (disk, then newest deployment, container,
route and certificate of each application) with the messages it can raise; `world`
says what is wrong now and changes at any time.  A check may fail to look: it then
raises what `Blind` says, a message of its own or none, whatever the world is like,
and `blind` remembers it.  `UpsertAlert` is a SELECT and an INSERT in two steps, as
the loop, the button and the collector interleave there.

### Schema and Backups

A database file is the set of statements applied to it, its `user_version`, the
flags of its applications and the most active rows one of them has.  The initial
files are those of every former version: fresh, unversioned with any of the
columns, and versions 1 to 10.  A backup file is torn until its last byte; the
clock names it by its second.  The files to remove are chosen at once (`victims`)
and removed one by one, the oldest first, each removal perhaps in vain; meanwhile
the other backup goes on, and a file that is removed under its writer is gone when
the writer ends (`Written`).

### Tunnel

The row, the sealed tokens, the remote tunnel with its ingress and its records,
and the container are separate variables; each statement, call and command is one
step after which the handler may end, and any number of handlers interleave at these
steps.  A tunnel, its name and its token are one value.  What a handler writes into
the row at its end is the copy it read at its beginning, or an empty one when that
read failed, an error `saveCloudflareConfig` ignores.  A container that was started
may exit and Docker starts it again.  `contested` and `crossing` are the handlers
under way that overlapped another one about the connector, or about what is
published.  History, too: `torn` and `stray` (a save or reconnect ended early or
overlapped another one, or only the latter, and none has been completed undisturbed
since), `raced` (two saves had found no id of the installation before either stored
one) and `unpublished` (the applications whose publication was not reported done, by
a handler that nobody overlapped).

### Nodes

A stream has an agent at one end and a handler at the other; heartbeats are on
their way in between.  A row is the enrolled fingerprint and the stream whose
hello was written last.

## 3. Runs

| Run | Instance | Shows |
|---|---|---|
| `queue_jobs` | 2 workers, 2 applications (one with automatic rollback), 2 requests (3 rows or 4 with the automatic ones), pushes, cancellations, slow requests, 1 crash | `TypeOK`, `RunningIsOwned`, `ExclusiveExecution`, `CancelHonoured`, `FinalStatusIsFinal`, `ImplementsLifecycle` |
| `queue_history` | 1 worker, 1 application, 3 requests and the automatic ones, deploys, rollbacks, cancellations, 1 crash, fair | `ImageProvenance`, `AutoRollbackBounded`, `NewestSuccessIsReleased`, `JobsEnd` |
| `switch` | up to 4 containers; only releases fail and 2 crashes; Caddy fails and restarts; or every initial layout with cancellations, failing Docker and Caddy and 1 crash | `RouteServes`, `IdleRouteIsProven`, `RestartServes`; `ReleaseKept`; `SuccessServes` |
| `vault` | 2 requests, lockout after 2 failures, 2 names, 2 values; 5 unlocks around an edit, or 3 edits around a setup, 2 jobs, 1 restart | `GuessesBounded`, `SecretsReadable`, `DeploymentIsWhole`, `RollbackRestores` |
| `webhook` | 3 requests, an identified and a foreign anonymous delivery, limit 1, a change of settings, 1 crash | `AtMostOnce`, `LimitIsKept`, `QueuedOnlyWhenAllowed` |
| `retention` | 3 rows, 2 kept, the loop and the button, ids that come back, 1 crash | `ImagesKept`, `DeletesOnlyOld` |
| `alerts` | the disk with two messages and one more when it cannot be read, a newest deployment that raises nothing when it cannot, 2 backups, an alert of the start about one application, 1 failing statement or read, 1 crash, fair | `NoDuplicates`, `ResolvedOnlyIfGone`, `AlertsSettle` |
| `database` | all former files with 2 crashes and 1 restore, or a current one with 2 seconds of local and S3 backups and 1 crash, or with 3 seconds and only failing writes; 2 files kept; fair | `SchemaComplete`, `OpensInTheEnd`, `BackupRemains` |
| `tunnel` | 2 handlers at once, 3 requests, 1 failure at any call, 2 applications, 2 public domains and a local one, 2 ids, 1 pasted token | `OneTunnel`, `ConnectedServes`, `DisabledMeansStopped`, `PublishedIsServed` |
| `pipeline` | 2 deployments of one application, from Git or a local directory, 2 revisions of which the second has a `.dockerignore`, log limit 3, 1 crash, fair | `EvidenceIsBuilt`, `IgnoreIsRight`, `FailureIsShown`, `StreamDelivers` |
| `nodes` | 3 connections, 2 certificates, 1 node id, 2 heartbeats on their way, fair | `AcceptedIsEnrolled`, `SettlesOnCurrent` |
| `claim_auto_rollback` | 1 application, 1 request | refutes `AutoRollbackOnlyAfterFailure` |

Bounds.  `StartQueue` starts `MaxConcurrentDeployments` workers; two are the
fewest that run in parallel, and every property of the queue relates at most two.  Two
requests per two applications let a row be queued while another runs, be claimed
out of turn, and end in every way before its successor is claimed; requests are
refused at the bound, automatic rollbacks are not, so the table can grow past
it.  Three requests with their automatic rollbacks contain a rollback to a
rollback.  In `BlueGreen` four containers are two switches after a good release:
the second one meets whatever the first left behind.  Two crashes let the second
fall into the recovery from the first.  Two requests are the fewest that race in a
setup or an unlock, and two secrets the fewest of which one can be read before
and one after a change; five unlocks with a lockout after two are two lockouts
and an attempt behind them.  Three webhook requests at limit 1 are the limit, one
over it and one in the next window.  Three rows with two kept leave one candidate
while a rollback targets a kept one.  Two deployments are the fewest of which the
second meets what the first left in the working copy; the browser follows the
second one, as the first is a second one behind nothing.  Three streams of two
certificates are an agent, its restarted self and a rival.  Two handlers are the
fewest that overlap about the tunnel, the third request meets what they have left
behind, and two ids let a race make two tunnels.  The properties with a theorem in
section 4 do not depend on these bounds at all: the runs showed them on
these instances first, and their mutants show that they depend on the code.

Symmetry (workers, requests, operators, applications, instances) is used only in
runs without a liveness property, over values that are only compared.  Deadlock
is not checked, except in `alerts`, because the systems idle, as they should, once
requests, crashes and the other bounds are used up.  Each module states the types
of its variables in `TypeOK`; the run of the queue checks it, and the inductive
invariants of section 4 contain it, or what the argument needs of it.

Fairness.  Weak fairness of each worker (Go schedules runnable goroutines,
`queueLoop` polls every 300 ms, every stage of a deploy has a timeout), of each
heartbeat's exit, and of the restart (`restart: unless-stopped`,
`compose.yaml:66`).  A rollback has no such timeout, so for it weak fairness is
an assumption on Docker, that its commands return.  Nothing is assumed of
operators, of GitHub, or of the heartbeat's ticker before the context ends.  In
`Alerts` the collector goes on and its ticker ticks, in `Backups` the start of the
process and a backup that has begun, in `Nodes` the ticker of a registered agent
and a handler that has something to read, in `Pipeline` the workers and the loop
of the log stream.  No agent has to connect or stay, nothing in the world has to
be repaired, and the S3 upload may block for ever.

### Where the code and its documentation part

`claim_auto_rollback`: cicd.go:448 reports an automatic rollback "after failed
runtime health/routing", but `stopJob()` interrupts a heartbeat whose error fails
a deploy that had succeeded.

The comment of `rollbackReleaseMetadata` (cicd.go:565-568) says that "a rollback
starts an old artifact with the configuration active now, rather than silently
claiming it used the configuration from its original release".  The code does
otherwise: `rollbackConfiguration` (cicd.go:478-503) puts the public values that the
target recorded, as its own comment and docs/OPERACION.md:240 say.  `RollbackRestores`
in run `vault` states what the code does; the sentence is true of the secrets only.

### Limits the properties mark

The conditions in the passing properties are the places where the code promises
less than a reader may expect.  The models contain each of these behaviours.

- Queue: a worker that claims a pushed row between its INSERT and its metadata
  builds the branch, not the commit, although README.md:123 says the release is
  fixed at it; a late metadata UPDATE overwrites what a job that has ended recorded
  (`ImageProvenance` looks at images, not at `requested_ref` or the digest).  After
  an automatic rollback the
  second newest successful row, which a rollback targets, names the image that
  already runs (store.go:711, docs/OPERACION.md:214).
- Switch: `RouteServes` and `IdleRouteIsProven` speak of the time before a crash
  and of reliable commands, `RestartServes` of the first crash.  After a switch
  cancelled behind `Apply`, the next `Start` removes the container that serves
  (executor.go:1096).  The identity a release records is read under
  `minidock-<app>`, while the release runs as `-candidate` (executor.go:675).  On
  a host that still serves from `minidock-<app>`, `Reconcile` routes a candidate
  that has proved nothing (executor.go:974).
- Webhook: a delivery that the limit, the lock or an error refused has been
  claimed, and GitHub's redelivery of it is dropped as a duplicate (cicd.go:54).  A
  request that the end of the window catches between its upsert and its SELECT
  (store.go:1522-1538) reads the fresh count and passes, even if the old window had
  no room for it: a window may exceed the limit by that many (`ExcessBounded`).
- Unlock: a wrong password whose failure cannot be recorded is not counted
  (server.go:1811); its answer does not tell it from a right one.
- Environment: a rollback restores the public values its target recorded but runs
  the secrets of today, as manifests hold no secrets.  One name can become both
  secret and public when two saves race, each having looked before the other
  wrote; the secret wins in a deploy, the recorded value in a rollback.
- Retention: `ImagesKept` speaks of deploys.  A kept rollback row names the image
  of an older row, and that row's candidacy removes it unless a container uses it
  (operations.go:484).  `deployments.id` can be reused after the newest row of the
  table was deleted (store.go:1103).  With the loop and the button at once the
  slower one can hold the id of a row that the faster one has deleted, and deletes
  the row that has been given it since.  Nothing in the code keeps the two apart;
  both properties speak of the time before such a clash, and a lone runner never has
  one (theorem `LoneRunner`).
- Alerts: a check that could not look says nothing of what it is about, and the
  collection resolves the alert although its cause is still there: the failed
  deployment when `store.Deployments` fails (operations.go:260), what a container's
  status was when reading it times out (operations.go:275).  `ResolvedOnlyIfGone`
  names the case.  "MD-P0-02" and "MD-P0-03" are resolved by the next collection whatever
  has become of their cause (store.go:1776), and a collection that two backups
  overlap can leave two rows of the former.
- Backups: two backups within one second share a name, torn files count as kept
  (both excluded by `crowded`), and an S3 upload that fails before it reads leaves
  its writer blocked for ever (operations.go:632).  An unversioned database with
  two active rows of one application never opens.
- Tunnel: with two handlers at once, each can put an ingress list without the
  other's new hostname and report success (server.go:2382), so reports of
  overlapping publications do not count for `PublishedIsServed`.  Two first saves
  that both find no stored id make two tunnels (`raced`, server.go:2264-2275).  A
  save that ends early or overlaps another one can leave a row that says connected
  about another token (`torn`), an overlap also one that says disabled with a
  container there (`stray`), until the next save or reconnect completes undisturbed.
  "Connected" means that the container was started: it may have exited since
  (server.go:2001-2008 expects that), and the connector of an old Compose file may
  still be there, because its removal gives up without an error when MiniDock cannot
  inspect itself (cloudflare_connector.go:208-219).
- Pipeline: a clone killed half-way leaves a `.git` that is never cloned again, so
  that later deployments fail at fetch (executor.go:531); a local directory may
  change between its fingerprint and the build; a managed `.dockerignore` that a
  crash left behind counts as the project's own; the stream of a cancelled row does
  not end by itself (server.go:1669).  A failure that `FailureDetails` does not know
  (a locked configuration, an invalid name, a lost lease) is recorded as
  start/runtime_error, a restart as start/worker_restarted, and a log file that
  cannot be opened with no stage at all; for these the page shows steps as done that
  never ran, or a failed start behind a good one (server.go:757-764, 793), and
  `FailureIsShown` excepts them (`Unexplained`).

## 4. Proofs

The theorems hold for every value of the constants that satisfies the named
assumptions: sets are of the right kind and disjoint where the code's values are,
bounds are naturals.  What goes beyond that: a pool of operators is finite and not
empty (`OperatorsAssumption`), requests of a webhook are finitely many, a
collection has at least the check of the disk (`ChecksAssumption`), and the
collector does not raise the backups' message (`MessagesAssumption`).
`OperationsProofs` extends three components that share no state, so `Retention` and
`Backups` name their specifications `RetentionSpec` and `BackupsSpec`.  No theorem
assumes that the code serializes what it does not: runners of retention and handlers
of the tunnel are any number at once, and what an overlap costs is in the properties
themselves.

Each `...Proofs` module has the same shape: an invariant `Inv` as a conjunction of
named parts, a lemma per action (or per part) that keeps it, the theorem
`Invariance`, and the properties as consequences.

| Module | Theorem | Statement, after `Spec =>` |
|---|---|---|
| `DeploymentQueueProofs` | `Invariance`, `HistoryInvariance` | `[]IInv`, `[]JInv` |
| | `TypeCorrect` | `[]TypeOK` |
| | `Exclusive` | `[]ExclusiveExecution` |
| | `NoOrphan` | `[]RunningIsOwned` |
| | `FinalIsFinal` | `FinalStatusIsFinal` |
| | `Refinement` | `ImplementsLifecycle` |
| | `CancelIsHonoured` | `[]CancelHonoured` |
| | `Provenance` | `[]ImageProvenance` |
| | `NewestIsReleased` | `[]NewestSuccessIsReleased` |
| | `RollbacksAreBounded` | `[]AutoRollbackBounded` |
| `BlueGreenProofs` | `Success`, `Kept` | `[]SuccessServes`, `[]ReleaseKept` |
| | `IdleRoute`, `Serving` | `[]IdleRouteIsProven`, `[]RouteServes` |
| | `FirstRestart` | `RestartServes` |
| `WebhookProofs` | `DeliveredOnce` | `[]AtMostOnce` |
| | `LimitKept` | `[]LimitIsKept` |
| | `OnlyWhenAllowed` | `[]QueuedOnlyWhenAllowed` |
| `EnvironmentProofs` | `ReadableSecrets` | `[]SecretsReadable` |
| | `BoundedGuesses` | `[]GuessesBounded` |
| | `WholeDeployment` | `[]DeploymentIsWhole` |
| | `RestoringRollback` | `[]RollbackRestores` |
| `PipelineProofs` | `BuiltEvidence` | `[]EvidenceIsBuilt` |
| | `RightIgnore` | `[]IgnoreIsRight` |
| | `ShownFailure` | `[]FailureIsShown` |
| | `CompleteStream` | `[]EndedStreamIsComplete` |
| `TunnelProofs` | `Invariance`, `SingleTunnel` | `[]Inv`, `[]OneTunnel` |
| | `Connected`, `Stopped` | `[]ConnectedServes`, `[]DisabledMeansStopped` |
| | `PublishedServed` | `[]PublishedIsServed` |
| `OperationsProofs` | `OneRowEach` | `[]NoDuplicates` |
| | `NotResolvedWhileTrue` | `ResolvedOnlyIfGone` |
| | `KeptImages`, `OnlyOldRows` | `[]ImagesKept`, `DeletesOnlyOld`, after `RetentionSpec =>` |
| | `LoneRunner` | `[](~clash)`, for one runner |
| | `UpMeansComplete`, `ACompleteRemains` | `[]SchemaComplete`, `[]BackupRemains`, after `BackupsSpec =>` |
| `NodesProofs` | `Enrolled` | `[]AcceptedIsEnrolled` |

Queue.  `IInv` adds to `TypeOK` and `RunningIsOwned`: a worker past its claim holds
a row of the table that is running, and no two workers the same one (`Ownership`);
an application has at most one active row (`OneActive`); a dead process has no
workers (`DownIdle`); a worker that finishes has a verdict (`Decided`).
`ExclusiveExecution` alone is not inductive: it follows because two owners would
have two active rows of one application, and `OneActive` is kept because inserts
are guarded by `HasActive` and no step reopens a row.  `RunningIsOwned` needs
`Ownership`, since a worker that closes its row must not close somebody else's.
Steps are classified once: every step keeps the table, appends a queued row to an
idle application, moves rows along the lawful transitions, or is the recovery.
The invariant, `FinalIsFinal` and `Refinement` are then argued over the four
classes.  For the refinement a row is viewed as its application and status: a kept
status stutters, an append is `Submit`, a claim is `Begin`, every other change is
`Close`, the recovery is `Restart`.

What the rows record needs a second invariant, `JInv`, inductive relative to
`IInv`.  The active row of an application is its newest (`Newest`), hence a row that
ends is the one `released` is about.  What a worker holds in its locals is what its
row is going to say (`Evident`): the image it starts has an origin, a nil error
means that the image serves, a queued rollback answers a deploy that failed to
start.  Automatic rollbacks are counted against those deploys *minus* the ones a
worker is about to answer (`Counted`, `Answering`), since the row of the rollback is
inserted in a later step than the one that closes the deploy.

Switch.  `Colours` and `Staged` say which of the two pairs of names a `Start` works
on and that the staged container is the target from the captured address to the
end.  `KeepsName`, `KeepsRoute` and `FirstCrash` carry the three conditional
properties through the middle of a switch, under the faults each is about; `FirstCrash`
names the only two layouts a first crash leaves, which is what `Reconcile` meets.

Webhook.  A request owns its delivery from the claim to the row it queues, and
nobody else owns it (`Ownership`).  The counter of a window is the number of
requests counted in it and every window has one (`Tally`); two parts of
`LimitIsKept` follow for any limit.  For the third, the requests a window passed are
split into its own, of which there are at most `Limit`, and the ones that were counted
before it, all of which straddle its start (`Excess`).  A request in flight has seen
everything that is permitted now (`Permission`), so whatever it passed was permitted
while it ran.

Vault and environment.  Everybody who holds a key holds the verified one (`Keyed`),
and every secret is sealed under it (`Sealed`).  `Throttle` is a potential: between
lockouts, guesses and covered requests are paid for by counted failures and by the
other operators; this is where the bound of `GuessesBounded` comes from.
`Assembly` says what a job has read so far was stored since it began.

Pipeline.  One active row per application (`Exclusive`, the queue's theorem as the
model has it) keeps others out of the working copy between checkout and build
(`Sourced`, `Ignored`); only a crash leaves a managed `.dockerignore` behind
(`Tidy`).  `Reported` ties the error of `Deploy` to the steps carried out before it,
if it is one that `FailureAt` gives;
`Logged` and `Streamed` the file to what the viewer was sent.

Tunnel.  The invariant says what holds between any two statements, where a handler may
end or another one step in, in five layers.  `Local`: which handler can be at a step
(`FormOf`) and what the copy of the row it is going to write back says (`CopyOf`),
whatever the others do.  `Naming`: where the id of the installation has got to; a copy
that is called ours names the tunnel of the stored id, which is what makes a second
attempt find the first one's tunnel, and without a race at most one handler is between
the two statements of `cloudflareTunnelName`.  `Apart`: handlers that are not marked as
overlapped are alone with the connector, or with what is published.  `Attached`: what
such a handler has done to the container and the stored token, and the row in terms of
them.  `Reported`: what such a handler has already published.  The last two are only
inductive because `torn`, `stray` and `unpublished` are set the moment an overlap begins
and reset by a handler that had none.

Alerts.  The message about to be inserted has no row (`Selected`), because one
goroutine inserts those messages.  A message that is not in `gone` has been true of
one and the same check throughout, and is on the list once that check is behind
unless it could not look (`Looked`): hence no alert is resolved while its cause is
there and was looked at.

Retention.  A list of candidates may be as old as the runner that holds it is slow.
It stays good because "Retain successful rows are newer than this one" (`Enough`) is
for ever: until a clash rows are only added above, and a row that is deleted has
Retain newer ones itself, which the lemma `Supersede` turns into a fact about
cardinalities (of the rows above that are missing, the greatest has its Retain newer
ones left).  So every id on a list is that of a row that may go (`Spent`), and
every image on a list belongs to no deploy that is kept (`Unneeded`, `Chosen`).  An
image can be named by several rows, so one of them could be a candidate while
another is kept; the deploy that built it is the oldest of them (`Origins`), and
numbers of images are not given twice (`Numbers`).

Schema and backups.  `Reached` says that all statements before a position have been
applied; a file has reached the end of its version (`Valid`), a running migration
the statement it is at (`Placed`).  Setting the version keeps this because the last
statement is behind, in the legacy path too, where the version jumps from 0 to 10 at
the end.  Only a process that is up takes snapshots, so they, and the complete files
(`Stored`), are of version 10 and whole: a restore starts from nothing less.  While
no names collide and fewer than `BackupRetention` files are torn (`Calm`), a file that is
chosen for removal has a complete one above it (`Superseded`; `VictimsAreOld` counts
the newer names, which cannot all be torn).  Hence the newest complete file is on
nobody's list, and it is the one that remains, also for a writer that loses its own
file to the other's rotation (`Owned`).

Nodes.  `TypeOK` and `AcceptedIsEnrolled` together are inductive: a fingerprint
never changes once it is set, because the INSERT needs a free id, so a stream that
was accepted stays that of the enrolled certificate; the types are needed to know
at which statement of `UpsertNode` a handler can be.

Only model-checked: `JobsEnd`, `AlertsSettle`, `OpensInTheEnd`, `StreamDelivers`
and `SettlesOnCurrent`.  Liveness under fairness is outside the prover; the safety
half of `StreamDelivers` is `CompleteStream`.  Every safety property of a passing run
has a theorem.

## 5. Not modelled

Errors of SQLite in the queue (among them the ignored error of
`FinishDeployment`), durations, `current_stage` and events, the action "retry"
(refused at store.go:566), notifications, audit rows, CSRF tokens and cookies,
metrics and health samples, several applications in one `Reconcile`, target
"build" of the environment (a second copy of "runtime"), the text of Dockerfiles
and the detection of a runtime, encryption and TLS themselves, a second Cloudflare
account (a save that names another account id makes a tunnel there), and the components
marked "no" in section 1: the Apple adapter is three commands on one container
without staging or recovery, the others keep no state.

## 6. Plan

All modules avoid RECURSIVE operators, so that each can be proved about.  What is
left: errors of SQLite in the queue, with what an ignored error of
`FinishDeployment` leaves to the next start; a change of the Cloudflare account; and
what a job does whose row was deleted under it after a clash of ids.
