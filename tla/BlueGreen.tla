------------------------------ MODULE BlueGreen ------------------------------
(***************************************************************************)
(* The switch of one application from one release to the next inside an    *)
(* executor call: DockerAdapter.Start, the Caddy route it moves, and the   *)
(* Reconcile that runs when the process starts (internal/deploy/           *)
(* executor.go).  Docker and Caddy keep their state when MiniDock dies;    *)
(* everything Start knows is lost.  DeploymentQueue guarantees that an     *)
(* application has one executor call at a time.                            *)
(*                                                                         *)
(* A release can always be bad: its container does not start, never gets   *)
(* healthy, has no address or does not answer through Caddy.  What the     *)
(* environment does on top of that is the scenario's choice:               *)
(*   "cancel"  the context of the call ends: an operator's cancellation,   *)
(*             a lost lease or the start timeout                           *)
(*   "docker"  any docker command may fail, before or after its effect     *)
(*   "caddy"   an Admin API call may fail, before or after its effect      *)
(*   "reload"  Caddy restarts and forgets the routes it was given          *)
(***************************************************************************)
EXTENDS Integers

CONSTANTS
    Scenarios,   \* what the host looks like at first, the faults it is exposed to
                 \* and how often the process may disappear
    MaxReleases  \* bound: containers created by Start

ASSUME ScenariosAssumption ==
    Scenarios \subseteq [origin : {"fresh", "legacy", "interrupted", "switched"},
                         faults : SUBSET {"cancel", "docker", "caddy", "reload"},
                         crashes : Nat]
ASSUME ReleasesAssumption == MaxReleases \in Nat

VARIABLES
    slot,       \* the container behind each Docker name (0: none)
    route,      \* the container whose address Caddy dials (0: no route)
    created,    \* how many containers exist or have existed
    up,         \* is the process alive and reconciled?
    crashes,
    pc,         \* where Start is
    active,     \* its local variables: two names and an address
    staging,
    target,
    cancelled,  \* has its context ended?
    outcome,    \* how the last Start ended
    observed,   \* the container whose identity it reported (0: none)
    proven,     \* the container of the last Start that succeeded
    verified,   \* the container that last answered through Caddy
    scenario    \* the environment of this behaviour; it never changes

host == <<slot, created>>
call == <<pc, active, staging, target, cancelled, outcome, observed>>
process == <<up, crashes>>
evidence == <<proven, verified>>
vars == <<slot, route, created, up, crashes, pc, active, staging, target,
          cancelled, outcome, observed, proven, verified, scenario>>

Faults == scenario.faults

-----------------------------------------------------------------------------
\* minidock-<app>, and the same with -candidate, -next and -previous.
Names == {"primary", "candidate", "next", "previous"}

Containers == {slot[n] : n \in Names} \ {0}

Steps == {"idle", "clearing", "creating", "waiting", "addressing", "switching",
          "probing", "restoring", "discarding", "retiring", "promoting"}

TypeOK ==
    /\ slot \in [Names -> 0 .. created]
    /\ route \in 0 .. created
    /\ created \in Nat
    /\ up \in BOOLEAN
    /\ scenario \in Scenarios /\ crashes \in 0 .. scenario.crashes
    /\ pc \in Steps
    /\ active \in Names /\ staging \in Names
    /\ target \in 0 .. created
    /\ cancelled \in BOOLEAN
    /\ outcome \in {"none", "ok", "failed"}
    /\ observed \in 0 .. created
    /\ proven \in 0 .. created /\ verified \in 0 .. created

Exists(n) == slot[n] # 0
Empty == [n \in Names |-> 0]

-----------------------------------------------------------------------------
(***************************************************************************)
(* Container 1, where there is one, is a release that serves: under the    *)
(* primary name since before the switch through the Admin API, with the    *)
(* stopped container of an interrupted switch of that time under           *)
(* -previous or only that one left, or under -candidate.                   *)
(***************************************************************************)
Init ==
    /\ scenario \in Scenarios
    /\ \/ /\ scenario.origin = "fresh"
          /\ slot = Empty
          /\ created = 0 /\ route = 0
       \/ /\ scenario.origin = "switched"
          /\ slot = [Empty EXCEPT !["candidate"] = 1]
          /\ created = 1 /\ route = 1
       \/ /\ scenario.origin = "legacy"
          /\ slot \in {[Empty EXCEPT !["primary"] = 1, !["previous"] = p] : p \in {0, 2}}
          /\ created = 2 /\ route = 1
       \/ /\ scenario.origin = "interrupted"
          /\ slot = [Empty EXCEPT !["previous"] = 1]
          /\ created = 1 /\ route = 1
    /\ up = ~Exists("previous")
    /\ crashes = 0
    /\ pc = "idle"
    /\ active = "primary" /\ staging = "candidate" /\ target = 0
    /\ cancelled = FALSE
    /\ outcome = "none"
    /\ observed = 0
    /\ proven = route
    /\ verified = route

-----------------------------------------------------------------------------
(***************************************************************************)
(* Docker.  A command started under an ended context fails; a command that *)
(* fails may have had its effect, because the daemon goes on when its      *)
(* client is killed.  An inspection that fails reads as "no such           *)
(* container".                                                             *)
(***************************************************************************)
DockerMayFail == cancelled \/ "docker" \in Faults
CaddyMayFail == cancelled \/ "caddy" \in Faults

DockerContainerExists(n) == ~cancelled /\ Exists(n)
DockerContainerMissing(n) == ~Exists(n) \/ DockerMayFail

Removed(n) == [slot EXCEPT ![n] = 0]
Renamed(from, to) == [slot EXCEPT ![from] = 0, ![to] = slot[from]]

\* docker rm --force with its error ignored.
TryRemove(n) ==
    \/ slot' = Removed(n)
    \/ DockerMayFail /\ slot' = slot

Goto(step) == pc' = step

Fail ==
    /\ pc' = "idle"
    /\ outcome' = "failed"
    /\ UNCHANGED <<active, staging, target, cancelled, observed>>

-----------------------------------------------------------------------------
(***************************************************************************)
(* DockerAdapter.Start, one action per command whose result it awaits.     *)
(***************************************************************************)

\* Mutant: the release is always staged under -candidate.
StagingName(candidateExists) == "candidate"

\* The live colour is -candidate as soon as a container of that name exists;
\* the new release is then staged as -next.
StagingFor(candidateExists) == IF candidateExists THEN "next" ELSE "candidate"
ActiveFor(candidateExists) == IF candidateExists THEN "candidate" ELSE "primary"

BeginStart ==
    /\ up
    /\ pc = "idle"
    /\ created < MaxReleases
    /\ cancelled' = FALSE
    /\ \E seen \in BOOLEAN :
          /\ seen => Exists("candidate")
          /\ ~seen => ~Exists("candidate") \/ "docker" \in Faults
          /\ active' = ActiveFor(seen)
          /\ staging' = StagingFor(seen)
    /\ target' = 0
    /\ outcome' = "none"
    /\ observed' = 0
    /\ Goto("clearing")
    /\ UNCHANGED <<host, route, process, evidence>>

\* ensureDockerNetwork fails before anything is looked at.
EnsureDockerNetworkFails ==
    /\ up
    /\ pc = "idle"
    /\ created < MaxReleases
    /\ outcome' = "failed"
    /\ observed' = 0
    /\ UNCHANGED <<host, route, process, pc, active, staging, target, cancelled, evidence>>

\* docker rm --force <staging>, whatever is there.
ClearStaging ==
    /\ pc = "clearing"
    /\ TryRemove(staging)
    /\ Goto("creating")
    /\ UNCHANGED <<route, created, process, active, staging, target, cancelled,
                   outcome, observed, evidence>>

\* docker run.  It cannot succeed while the name is taken; when it fails after
\* the container was created, nobody removes it.
RunDockerContainer ==
    /\ pc = "creating"
    /\ ~Exists(staging)
    /\ slot' = [slot EXCEPT ![staging] = created + 1]
    /\ created' = created + 1
    /\ \/ /\ ~cancelled
          /\ Goto("waiting")
          /\ UNCHANGED <<active, staging, target, cancelled, outcome, observed>>
       \/ Fail
    /\ UNCHANGED <<route, process, evidence>>

RunDockerContainerFails ==
    /\ pc = "creating"
    /\ Fail
    /\ UNCHANGED <<host, route, process, evidence>>

WaitHealthy ==
    /\ pc = "waiting"
    /\ \/ ~cancelled /\ Goto("addressing")
       \/ Goto("discarding")
    /\ UNCHANGED <<host, route, process, active, staging, target, cancelled,
                   outcome, observed, evidence>>

\* The address is captured once; renaming the container does not change it.
DockerContainerTarget ==
    /\ pc = "addressing"
    /\ \/ /\ ~cancelled
          /\ target' = slot[staging]
          /\ Goto("switching")
          /\ UNCHANGED <<active, staging, cancelled, outcome, observed>>
       \/ Fail
    /\ UNCHANGED <<host, route, process, evidence>>

\* Mutant: the error of Apply is not looked at.
ApplyUnchecked ==
    /\ pc = "switching"
    /\ route' = target \/ (CaddyMayFail /\ route' = route)
    /\ Goto("probing")
    /\ UNCHANGED <<host, process, active, staging, target, cancelled, outcome,
                   observed, evidence>>

\* Apply replaces the route and reads it back; an error may be one of reading.
ApplyRoute ==
    /\ pc = "switching"
    /\ \/ ~cancelled /\ route' = target /\ Goto("probing")
       \/ CaddyMayFail /\ route' \in {route, target} /\ Goto("discarding")
    /\ UNCHANGED <<host, process, active, staging, target, cancelled, outcome,
                   observed, evidence>>

\* Verify: the public health resource through Caddy (or its HTTPS redirect).
VerifyRoute ==
    /\ pc = "probing"
    /\ \/ /\ ~cancelled
          /\ verified' = target
          /\ Goto("retiring")
       \/ /\ UNCHANGED verified
          /\ Goto("restoring")
    /\ UNCHANGED <<host, route, process, active, staging, target, cancelled,
                   outcome, observed, proven>>

\* Mutant: the staging container goes first and the route is left to itself.
SkipRestore ==
    /\ pc = "restoring"
    /\ Goto("discarding")
    /\ UNCHANGED <<host, route, process, active, staging, target, cancelled,
                   outcome, observed, evidence>>

\* Back to the active colour, if it is there; errors are ignored.
RestoreRoute ==
    /\ pc = "restoring"
    /\ \/ DockerContainerExists(active) /\ route' = slot[active]
       \/ DockerContainerMissing(active) /\ route' = route
       \/ CaddyMayFail /\ route' = route
    /\ Goto("discarding")
    /\ UNCHANGED <<host, process, active, staging, target, cancelled, outcome,
                   observed, evidence>>

\* The failed release is removed and Start returns its error.
DiscardStaging ==
    /\ pc = "discarding"
    /\ TryRemove(staging)
    /\ Fail
    /\ UNCHANGED <<route, created, process, evidence>>

\* The old colour goes only after the new one answered through Caddy.
RetireActive ==
    /\ pc = "retiring"
    /\ \/ /\ DockerContainerExists(active)
          /\ slot' = Removed(active)
          /\ Goto("promoting")
          /\ UNCHANGED <<active, staging, target, cancelled, outcome, observed>>
       \/ /\ DockerContainerMissing(active)
          /\ slot' = slot
          /\ Goto("promoting")
          /\ UNCHANGED <<active, staging, target, cancelled, outcome, observed>>
       \/ /\ Exists(active) /\ DockerMayFail
          /\ slot' \in {slot, Removed(active)}
          /\ Fail
    /\ UNCHANGED <<route, created, process, evidence>>

\* Start returns nil; Deploy and Rollback then inspect the primary name for
\* the identity of the container they observed.
Succeed ==
    /\ pc' = "idle"
    /\ outcome' = "ok"
    /\ proven' = target
    /\ \/ ~cancelled /\ observed' = slot'["primary"]
       \/ DockerMayFail /\ observed' = 0
    /\ UNCHANGED <<active, staging, target, cancelled, verified>>

PromoteStaging ==
    /\ pc = "promoting"
    /\ \/ /\ staging = "candidate"
          /\ slot' = slot
          /\ Succeed
       \/ /\ staging = "next" /\ ~cancelled /\ ~Exists("candidate")
          /\ slot' = Renamed("next", "candidate")
          /\ Succeed
       \/ /\ staging = "next"
          /\ DockerMayFail \/ Exists("candidate")
          /\ \/ slot' = slot
             \/ ~Exists("candidate") /\ slot' = Renamed("next", "candidate")
          /\ Fail
          /\ UNCHANGED evidence
    /\ UNCHANGED <<route, created, process>>

Start ==
    \/ EnsureDockerNetworkFails \/ BeginStart \/ ClearStaging
    \/ RunDockerContainer \/ RunDockerContainerFails
    \/ WaitHealthy \/ DockerContainerTarget \/ ApplyRoute \/ VerifyRoute
    \/ RestoreRoute \/ DiscardStaging \/ RetireActive \/ PromoteStaging

-----------------------------------------------------------------------------
(***************************************************************************)
(* Reconcile, at the start of the process.  Its error is an alert only, so *)
(* whatever it left undone stays that way until the next start.            *)
(***************************************************************************)

Reconciled ==
    /\ ~up
    /\ up' = TRUE
    /\ UNCHANGED <<created, crashes, call, evidence>>

\* Mutant: a candidate is disposable scratch, as the comment on StartQueue says.
ReconcileDropsCandidate ==
    /\ Reconciled
    /\ Exists("candidate")
    /\ slot' = Removed("candidate")
    /\ UNCHANGED route

\* -candidate is the live colour: route it, then discard -next.
ReconcileCandidate ==
    /\ Reconciled
    /\ Exists("candidate")
    /\ \/ route' = slot["candidate"] /\ slot' = Removed("next")
       \/ "caddy" \in Faults /\ route' \in {route, slot["candidate"]} /\ slot' = slot
       \/ "docker" \in Faults /\ route' \in {route, slot["candidate"]} /\ slot' = slot

\* The primary of an older version: the same, and -previous is stale.
ReconcilePrimary ==
    /\ Reconciled
    /\ DockerContainerMissing("candidate")
    /\ Exists("primary")
    /\ \/ /\ route' = slot["primary"]
          /\ slot' = [slot EXCEPT !["next"] = 0, !["previous"] = 0]
       \/ "caddy" \in Faults /\ route' \in {route, slot["primary"]} /\ slot' = slot
       \/ "docker" \in Faults /\ route' = route /\ slot' = slot
       \/ /\ "docker" \in Faults
          /\ route' = slot["primary"]
          /\ slot' \in {slot, Removed("next"), Removed("previous")}

\* A switch of an older version that stopped half way: -previous is started,
\* awaited, renamed and routed.  It is left alone when it does not get healthy.
ReconcilePrevious ==
    /\ Reconciled
    /\ DockerContainerMissing("candidate") /\ DockerContainerMissing("primary")
    /\ Exists("previous")
    /\ \/ route' = slot["previous"] /\ ~Exists("primary") /\ slot' = Renamed("previous", "primary")
       \/ UNCHANGED <<slot, route>>
       \/ /\ ~Exists("primary")
          /\ slot' = Renamed("previous", "primary")
          /\ \/ "caddy" \in Faults /\ route' \in {route, slot["previous"]}
             \/ "docker" \in Faults /\ route' = route

\* Nothing under any of these names: a lone -next is not looked at.
ReconcileNothing ==
    /\ Reconciled
    /\ \A n \in {"candidate", "primary", "previous"} : DockerContainerMissing(n)
    /\ UNCHANGED <<slot, route>>

Reconcile ==
    ReconcileCandidate \/ ReconcilePrimary \/ ReconcilePrevious \/ ReconcileNothing

-----------------------------------------------------------------------------
(***************************************************************************)
(* The environment.                                                        *)
(***************************************************************************)

CancelJob ==
    /\ "cancel" \in Faults
    /\ pc # "idle"
    /\ ~cancelled
    /\ cancelled' = TRUE
    /\ UNCHANGED <<host, route, process, pc, active, staging, target, outcome,
                   observed, evidence>>

Crash ==
    /\ up
    /\ crashes < scenario.crashes
    /\ up' = FALSE
    /\ crashes' = crashes + 1
    /\ pc' = "idle"
    /\ active' = "primary" /\ staging' = "candidate" /\ target' = 0
    /\ cancelled' = FALSE
    /\ outcome' = "none"
    /\ observed' = 0
    /\ UNCHANGED <<host, route, evidence>>

\* Caddy resumes its bootstrap Caddyfile.
CaddyRestart ==
    /\ "reload" \in Faults
    /\ route' = 0
    /\ UNCHANGED <<host, process, call, evidence>>

Next == (Start \/ Reconcile \/ CancelJob \/ Crash \/ CaddyRestart) /\ UNCHANGED scenario

Spec == Init /\ [][Next]_vars

-----------------------------------------------------------------------------
(***************************************************************************)
(* Properties.                                                             *)
(***************************************************************************)

Recent == scenario.origin \in {"fresh", "switched"}
OnlyReleasesFail == Recent /\ Faults = {}
OnlyCaddyFails == Recent /\ Faults \subseteq {"caddy", "reload"} /\ crashes = 0

\* While only releases fail and the process lives, the domain of an application
\* that once had a working release always leads to an existing container, in
\* every step of a switch and of its reversal.
RouteServes == OnlyReleasesFail /\ crashes = 0 /\ proven # 0 => route \in Containers

\* While only releases fail and the process lives, a failed Start leaves the
\* route on the release of the last successful one, and a successful Start
\* leaves it on its own.
IdleRouteIsProven ==
    OnlyReleasesFail /\ crashes = 0 /\ pc = "idle" /\ up /\ proven # 0 => route = proven

\* Whatever Caddy does, its restarts and its errors included, the release of the
\* last successful Start stays where the next Start and a restart look for it.
ReleaseKept == OnlyCaddyFails /\ pc = "idle" /\ proven # 0 => slot["candidate"] = proven

\* Whatever Docker, Caddy's API or a cancellation do to it, and whatever earlier
\* versions left behind, a Start that reports success leaves the route on its own
\* container and the container under the name from which the next Start and the
\* next restart find it.
SuccessServes ==
    "reload" \notin Faults /\ outcome = "ok" => route = proven /\ slot["candidate"] = proven

\* A first crash at any point of a switch leaves a container that has answered
\* through Caddy, and once the process has started again the route leads to one.
\* (Not so a later one: a crash between RetireActive and PromoteStaging leaves
\* the release under -next, and the next Start builds on the wrong colour.)
RestartServes ==
    [][OnlyReleasesFail /\ Reconcile /\ crashes <= 1 /\ proven # 0 =>
          route' \in {proven, verified} \cap Containers']_vars

=============================================================================
