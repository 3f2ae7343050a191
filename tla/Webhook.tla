------------------------------- MODULE Webhook -------------------------------
(***************************************************************************)
(* The push webhook of one application: githubWebhook (internal/app/       *)
(* cicd.go) with the deduplication of deliveries and the rate limit of     *)
(* internal/store/store.go, the settings an operator changes meanwhile,    *)
(* and the queue as far as it has one active row or none.                  *)
(*                                                                         *)
(* GitHub sends a delivery again when somebody asks it to, so several      *)
(* requests may carry the same delivery, at the same time or after a       *)
(* restart.  Every statement on SQLite is a step of its own.               *)
(***************************************************************************)
EXTENDS Integers, FiniteSets

CONSTANTS
    Requests,    \* HTTP requests, each made once
    Deliveries,
    Identified,  \* the deliveries that come with an X-GitHub-Delivery header
    Foreign,     \* the ones of another branch or repository, or without a commit
    Limit,       \* config.WebhookRateLimit
    MaxChanges,  \* bound: what operators change
    MaxCrashes   \* bound: how often the process dies

ASSUME DeliveriesAssumption == Identified \subseteq Deliveries /\ Foreign \subseteq Deliveries
ASSUME RequestsAssumption == IsFiniteSet(Requests)
ASSUME LimitAssumption == Limit \in Nat \ {0}
ASSUME BoundsAssumption == MaxChanges \in Nat /\ MaxCrashes \in Nat

VARIABLES
    claimed,   \* webhook_deliveries
    requests,  \* webhook_rate_limits.requests
    expired,   \* is window_started_at older than the window?
    window,    \* number of the window the counter is in
    push,      \* applications.deploy_on_push
    confirm,   \* applications.require_confirmation
    secrets,   \* has the application secrets?
    locked,    \* is the key missing from memory?
    active,    \* is there a queued or running row?
    pc,        \* per request: the next step of the handler
    delivery,  \* per request: what it carries
    confirms,  \* per request: require_confirmation as it was read
    countedIn, \* per request: the window of its upsert (0: none)
    passedIn,  \* per request: the window of the SELECT that let it pass (0: none)
    refusedIn, \* per request: the window of the SELECT that refused it (0: none)
    seen,      \* per request: what the settings allowed at some time since it began
    queuedBy,  \* the requests that inserted a row
    changes, crashes

counter == <<requests, expired, window>>
settings == <<push, confirm, secrets, locked>>
evidence == <<countedIn, passedIn, refusedIn>>
bounds == <<changes, crashes>>
vars == <<claimed, counter, settings, active, pc, delivery, confirms, evidence, seen, queuedBy, bounds>>

Answers == {"accepted", "duplicate", "ignored", "limited", "unavailable", "error", "lost"}
Handling == {"claiming", "looking", "counting", "limiting", "checking", "unlocking", "matching",
             "queueing"}
InFlight(r) == pc[r] \in Handling

TypeOK ==
    /\ claimed \subseteq Identified
    /\ requests \in 0 .. Cardinality(Requests) /\ expired \in BOOLEAN
    /\ window \in 0 .. Cardinality(Requests)
    /\ {push, confirm, secrets, locked, active} \subseteq BOOLEAN
    /\ pc \in [Requests -> {"new"} \cup Handling \cup Answers]
    /\ delivery \in [Requests -> Deliveries]
    /\ confirms \in [Requests -> BOOLEAN]
    /\ countedIn \in [Requests -> 0 .. window]
    /\ passedIn \in [Requests -> 0 .. window] /\ refusedIn \in [Requests -> 0 .. window]
    /\ seen \in [Requests -> SUBSET {"push", "key"}]
    /\ queuedBy \subseteq Requests
    /\ changes \in 0 .. MaxChanges /\ crashes \in 0 .. MaxCrashes

\* No row of applications holds both flags (createApplication, migration 3).
Init ==
    /\ claimed = {}
    /\ requests = 0 /\ expired = TRUE /\ window = 0
    /\ push \in BOOLEAN /\ confirm \in BOOLEAN /\ ~(push /\ confirm)
    /\ secrets \in BOOLEAN /\ locked \in BOOLEAN
    /\ active = FALSE
    /\ pc = [r \in Requests |-> "new"]
    /\ delivery \in [Requests -> Deliveries]
    /\ confirms = [r \in Requests |-> FALSE]
    /\ countedIn = [r \in Requests |-> 0]
    /\ passedIn = [r \in Requests |-> 0] /\ refusedIn = [r \in Requests |-> 0]
    /\ seen = [r \in Requests |-> {}]
    /\ queuedBy = {}
    /\ changes = 0 /\ crashes = 0

\* What the settings after this step allow.
Allowed == (IF push' /\ ~confirm' THEN {"push"} ELSE {})
           \cup (IF ~locked' \/ ~secrets' THEN {"key"} ELSE {})
Note == seen' = [r \in Requests |-> IF pc'[r] \in Handling THEN seen[r] \cup Allowed ELSE seen[r]]

Goto(r, step) == pc' = [pc EXCEPT ![r] = step]

-----------------------------------------------------------------------------
(***************************************************************************)
(* githubWebhook.                                                          *)
(***************************************************************************)

\* Another event, no configured secret, an unreadable body or a wrong signature
\* end the request before it touches the database.
Receive(r) ==
    /\ pc[r] = "new"
    /\ pc' \in {[pc EXCEPT ![r] = step] :
                   step \in {"ignored", IF delivery[r] \in Identified THEN "claiming" ELSE "looking"}}
    /\ UNCHANGED <<claimed, counter, settings, active, delivery, confirms, evidence, queuedBy, bounds>>
    /\ Note

\* Mutant: the row is written but its conflict is not looked at.
ClaimAnyDelivery(r) ==
    /\ pc[r] = "claiming"
    /\ claimed' = claimed \cup {delivery[r]}
    /\ Goto(r, "looking")
    /\ UNCHANGED <<counter, settings, active, delivery, confirms, evidence, seen, queuedBy, bounds>>

\* INSERT ... ON CONFLICT DO NOTHING: a known delivery ends the request.
ClaimWebhookDelivery(r) ==
    /\ pc[r] = "claiming"
    /\ claimed' = claimed \cup {delivery[r]}
    /\ Goto(r, IF delivery[r] \in claimed THEN "duplicate" ELSE "looking")
    /\ UNCHANGED <<counter, settings, active, delivery, confirms, evidence, seen, queuedBy, bounds>>

\* Mutant: every application deploys on push.
LookupIgnoresSetting(r) ==
    /\ pc[r] = "looking"
    /\ confirms' = [confirms EXCEPT ![r] = confirm]
    /\ Goto(r, "counting")
    /\ UNCHANGED <<claimed, counter, settings, active, delivery, evidence, seen, queuedBy, bounds>>

\* The application's row is read once and used until the end of the request.
LookUpApplication(r) ==
    /\ pc[r] = "looking"
    /\ confirms' = [confirms EXCEPT ![r] = confirm]
    /\ Goto(r, IF push THEN "counting" ELSE "ignored")
    /\ UNCHANGED <<claimed, counter, settings, active, delivery, evidence, seen, queuedBy, bounds>>

\* AllowWebhookRequest, first statement: the upsert opens a new window or counts.
CountWebhookRequest(r) ==
    /\ pc[r] = "counting"
    /\ requests' = IF expired THEN 1 ELSE requests + 1
    /\ window' = IF expired THEN window + 1 ELSE window
    /\ expired' = FALSE
    /\ countedIn' = [countedIn EXCEPT ![r] = window']
    /\ Goto(r, "limiting")
    /\ UNCHANGED <<claimed, settings, active, delivery, confirms, passedIn, refusedIn, seen, queuedBy, bounds>>

\* Mutant: the request itself is not counted.
AllowOneMore(r) ==
    /\ pc[r] = "limiting"
    /\ IF requests - 1 <= Limit
       THEN /\ passedIn' = [passedIn EXCEPT ![r] = window]
            /\ Goto(r, "checking")
            /\ UNCHANGED refusedIn
       ELSE /\ refusedIn' = [refusedIn EXCEPT ![r] = window]
            /\ Goto(r, "limited")
            /\ UNCHANGED passedIn
    /\ UNCHANGED <<claimed, counter, settings, active, delivery, confirms, countedIn, seen, queuedBy, bounds>>

\* Second statement: the count is read, whoever counted last.
AllowWebhookRequest(r) ==
    /\ pc[r] = "limiting"
    /\ IF requests <= Limit
       THEN /\ passedIn' = [passedIn EXCEPT ![r] = window]
            /\ Goto(r, "checking")
            /\ UNCHANGED refusedIn
       ELSE /\ refusedIn' = [refusedIn EXCEPT ![r] = window]
            /\ Goto(r, "limited")
            /\ UNCHANGED passedIn
    /\ UNCHANGED <<claimed, counter, settings, active, delivery, confirms, countedIn, seen, queuedBy, bounds>>

CheckLock(r) ==
    /\ pc[r] = "checking"
    /\ Goto(r, IF locked THEN "unlocking" ELSE "matching")
    /\ UNCHANGED <<claimed, counter, settings, active, delivery, confirms, evidence, seen, queuedBy, bounds>>

\* A locked process deploys an application that has no secrets.
HasSecrets(r) ==
    /\ pc[r] = "unlocking"
    /\ Goto(r, IF secrets THEN "unavailable" ELSE "matching")
    /\ UNCHANGED <<claimed, counter, settings, active, delivery, confirms, evidence, seen, queuedBy, bounds>>

MatchPush(r) ==
    /\ pc[r] = "matching"
    /\ Goto(r, IF confirms[r] \/ delivery[r] \in Foreign THEN "ignored" ELSE "queueing")
    /\ UNCHANGED <<claimed, counter, settings, active, delivery, confirms, evidence, seen, queuedBy, bounds>>

\* queueDeploymentRef: an active row makes the INSERT fail with UNIQUE, which the
\* handler answers like a success.
QueuePush(r) ==
    /\ pc[r] = "queueing"
    /\ queuedBy' = IF active THEN queuedBy ELSE queuedBy \cup {r}
    /\ active' = TRUE
    /\ Goto(r, "accepted")
    /\ UNCHANGED <<claimed, counter, settings, delivery, confirms, evidence, seen, bounds>>

\* An error of SQLite, or the end of the request's context, at any statement.
StatementFails(r) ==
    /\ InFlight(r) /\ pc[r] \notin {"checking", "matching"}
    /\ Goto(r, "error")
    /\ UNCHANGED <<claimed, counter, settings, active, delivery, confirms, evidence, seen, queuedBy, bounds>>

GithubWebhook(r) ==
    \/ Receive(r) \/ ClaimWebhookDelivery(r) \/ LookUpApplication(r)
    \/ CountWebhookRequest(r) \/ AllowWebhookRequest(r)
    \/ CheckLock(r) \/ HasSecrets(r) \/ MatchPush(r) \/ QueuePush(r) \/ StatementFails(r)

-----------------------------------------------------------------------------
(***************************************************************************)
(* Time, operators, the worker and the end of the process.                 *)
(***************************************************************************)

WindowPasses ==
    /\ ~expired
    /\ expired' = TRUE
    /\ UNCHANGED <<claimed, requests, window, settings, active, pc, delivery, confirms, evidence, seen, queuedBy, bounds>>

\* updateApplicationAutomation refuses both flags together.
UpdateApplicationAutomation ==
    /\ push' \in BOOLEAN /\ confirm' \in BOOLEAN
    /\ ~(push' /\ confirm')
    /\ UNCHANGED <<secrets, locked>>

\* A secret is saved or deleted, or the key is locked or unlocked.
UpdateVault ==
    /\ secrets' \in BOOLEAN /\ locked' \in BOOLEAN
    /\ UNCHANGED <<push, confirm>>

OperatorChanges ==
    /\ changes < MaxChanges
    /\ changes' = changes + 1
    /\ UpdateApplicationAutomation \/ UpdateVault
    /\ settings' # settings
    /\ UNCHANGED <<claimed, counter, active, pc, delivery, confirms, evidence, queuedBy, crashes>>
    /\ Note

DeploymentEnds ==
    /\ active
    /\ active' = FALSE
    /\ UNCHANGED <<claimed, counter, settings, pc, delivery, confirms, evidence, seen, queuedBy, bounds>>

\* Requests are lost, the key is forgotten, the database stays.
Crash ==
    /\ crashes < MaxCrashes
    /\ crashes' = crashes + 1
    /\ locked' = TRUE
    /\ pc' = [r \in Requests |-> IF InFlight(r) THEN "lost" ELSE pc[r]]
    /\ UNCHANGED <<claimed, counter, push, confirm, secrets, active, delivery, confirms, evidence, seen, queuedBy, changes>>

Next ==
    \/ \E r \in Requests : GithubWebhook(r)
    \/ WindowPasses \/ OperatorChanges \/ DeploymentEnds \/ Crash

Spec == Init /\ [][Next]_vars

-----------------------------------------------------------------------------
(***************************************************************************)
(* Properties.                                                             *)
(***************************************************************************)

\* However often, at whatever distance and around whichever crash a delivery with
\* an id is repeated, it starts at most one deployment (ClaimWebhookDelivery).
AtMostOnce ==
    \A q, r \in queuedBy : delivery[q] = delivery[r] /\ delivery[r] \in Identified => q = r

\* No more than Limit of the requests a window counted get past the limit in it,
\* although the count is read by a second statement.
RateBounded ==
    \A w \in 1 .. window :
        Cardinality({r \in Requests : countedIn[r] = w /\ passedIn[r] = w}) <= Limit

\* The requests counted before window w that had no answer yet when it began.
Straddling(w) ==
    {r \in Requests : /\ countedIn[r] \in 1 .. w - 1
                      /\ passedIn[r] \notin 1 .. w - 1 /\ refusedIn[r] \notin 1 .. w - 1}

\* A request caught between its upsert and its SELECT by the end of the window reads
\* the fresh count and passes, even if the old window had no room for it: a window
\* lets more than Limit pass, but never by more than those that straddle its start.
ExcessBounded ==
    \A w \in 1 .. window :
        Cardinality({r \in Requests : passedIn[r] = w}) <= Limit + Cardinality(Straddling(w))

\* Only a window with more than Limit requests refuses one: neither an old window
\* nor the requests that are still being handled use up a new one.
RefusedOnlyOverLimit ==
    \A r \in Requests : refusedIn[r] # 0 =>
        Cardinality({q \in Requests : countedIn[q] = refusedIn[r]}) > Limit

\* The upsert and the SELECT of AllowWebhookRequest, interleaved with those of other
\* requests and with the end of the window: a window admits Limit of its own requests
\* and at most those caught between the two statements when it began, and refuses
\* none while it has room.
LimitIsKept == RateBounded /\ ExcessBounded /\ RefusedOnlyOverLimit

\* A push deploys only if, since it came in, the application deployed on push
\* without confirmation, and its secrets could be read or it had none: stale
\* reads of the settings never add up to a permission that was never there.
QueuedOnlyWhenAllowed == \A r \in queuedBy : seen[r] = {"push", "key"}

=============================================================================
