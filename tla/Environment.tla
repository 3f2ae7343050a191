----------------------------- MODULE Environment -----------------------------
(***************************************************************************)
(* The variables of one application: public configuration and secrets      *)
(* sealed under the master key, the requests that edit them, and the job   *)
(* that puts them together for a release (deploymentConfiguration) or      *)
(* replaces the public part by the one a former release recorded           *)
(* (rollbackConfiguration).  SQLite executes one statement at a time and   *)
(* nothing here runs in a transaction, so every statement is a step.       *)
(*                                                                         *)
(* Only target "runtime" is modelled: "build" is a second copy of the same *)
(* tables read by the same code.  The audit rows are left out, no decision *)
(* reads them.                                                             *)
(***************************************************************************)
EXTENDS Vault, Sequences, FiniteSetsExt

CONSTANTS
    Names,      \* variable names, ordered as ORDER BY name orders them
    Values,
    Budgets     \* bounds: unlocks, restarts, edits and jobs a behaviour may have

ASSUME NamesAssumption == Names \subseteq Nat /\ IsFiniteSet(Names)
ASSUME ValuesAssumption == Values \subseteq Nat \ {0}
ASSUME BudgetsAssumption == Budgets \subseteq Nat \X Nat \X Nat \X Nat

VARIABLES
    secrets,   \* per name: the key and the value sealed under it
    config,    \* per name: the public value (0: none)
    form,      \* per request: the name and the value it wants to store
    edits,     \* bound: edits that may still come
    jobs,      \* bound: jobs that may still come
    job,       \* where the worker is
    public,    \* its locals: the public values it read,
    pending,   \* the secrets it has still to read,
    unsealed,  \* the ones it has read,
    jobKey,    \* and its copy of the key
    secretHad, \* the values each name had as a secret since the job began
    publicHad, \* the same for the public configuration
    releases,  \* what was recorded and what ran
    last       \* the last release: its kind and its evidence

tables == <<secrets, config>>
locals == <<jobs, job, public, pending, unsealed, jobKey>>
had == <<secretHad, publicHad>>
history == <<releases, last>>
vars == <<vault, secrets, config, form, edits, jobs, job, public, pending, unsealed, jobKey,
          secretHad, publicHad, releases, last>>

NoSecret == [key |-> NoKey, value |-> 0]
Optional == Values \cup {0}
Nothing == [n \in Names |-> 0]
NoForm == [name |-> 0, value |-> 0]
NoRelease == [kind |-> "none", target |-> 0, secretHad |-> [n \in Names |-> {0}],
              publicHad |-> [n \in Names |-> {0}]]

SaveSteps == {"sealing", "checking", "storing", "configuring", "publishing"}
JobSteps == {"idle", "listing", "keying", "reading", "assembled"}

TypeOK ==
    /\ verifier \in Keys /\ key \in Keys
    /\ failures \in 0 .. MaxFailures - 1
    /\ lockedOut \in BOOLEAN /\ covered \subseteq Operators /\ guesses \in Nat
    /\ sessions \subseteq Operators
    /\ pc \in [Operators -> VaultSteps \cup SaveSteps]
    /\ derived \in [Operators -> Keys]
    /\ unlocks \in Nat /\ restarts \in Nat /\ edits \in Nat /\ jobs \in Nat
    /\ secrets \in [Names -> [key : Keys, value : Optional]]
    /\ config \in [Names -> Optional]
    /\ form \in [Operators -> [name : Names \cup {0}, value : Optional]]
    /\ job \in JobSteps
    /\ public \in [Names -> Optional] /\ unsealed \in [Names -> Optional]
    /\ pending \subseteq Names
    /\ jobKey \in Keys
    /\ secretHad \in [Names -> SUBSET Optional] /\ publicHad \in [Names -> SUBSET Optional]
    /\ releases \in Seq([manifest : [Names -> Optional], env : [Names -> Optional]])

Init ==
    /\ VaultInit
    /\ \E b \in Budgets : unlocks = b[1] /\ restarts = b[2] /\ edits = b[3] /\ jobs = b[4]
    /\ secrets = [n \in Names |-> NoSecret]
    /\ config = Nothing
    /\ form = [o \in Operators |-> NoForm]
    /\ job = "idle" /\ public = Nothing /\ pending = {} /\ unsealed = Nothing /\ jobKey = NoKey
    /\ secretHad = [n \in Names |-> {0}] /\ publicHad = [n \in Names |-> {0}]
    /\ releases = <<>>
    /\ last = NoRelease

\* What a job in progress has seen the tables hold.
Note == IF job = "idle" THEN UNCHANGED had
        ELSE /\ secretHad' = [n \in Names |-> secretHad[n] \cup {secrets'[n].value}]
             /\ publicHad' = [n \in Names |-> publicHad[n] \cup {config'[n]}]

-----------------------------------------------------------------------------
(***************************************************************************)
(* saveSecret and PutApplicationSecret.                                    *)
(***************************************************************************)

BeginSave(o, step) ==
    /\ pc[o] = "idle"
    /\ Authorized(o)
    /\ edits > 0
    /\ edits' = edits - 1
    /\ \E n \in Names, v \in Values : form' = [form EXCEPT ![o] = [name |-> n, value |-> v]]
    /\ Goto(o, step)
    /\ UNCHANGED <<verifier, attempts, memory, derived, bounds, tables, locals, had, history>>

BeginSecret(o) == BeginSave(o, "sealing")

\* keyCopy and Encrypt; a lock since the authorization ends the request.
SealSecret(o) ==
    /\ pc[o] = "sealing"
    /\ derived' = [derived EXCEPT ![o] = key]
    /\ Goto(o, IF key = NoKey THEN "idle" ELSE "checking")
    /\ UNCHANGED <<verifier, attempts, memory, bounds, tables, form, edits, locals, had, history>>

\* A name that is public configuration cannot become a secret.
CheckConfiguration(o) ==
    /\ pc[o] = "checking"
    /\ Goto(o, IF config[form[o].name] = 0 THEN "storing" ELSE "idle")
    /\ UNCHANGED <<verifier, attempts, memory, derived, bounds, tables, form, edits, locals, had, history>>

PutSecret(o) ==
    /\ pc[o] = "storing"
    /\ secrets' = [secrets EXCEPT ![form[o].name] = [key |-> derived[o], value |-> form[o].value]]
    /\ derived' = [derived EXCEPT ![o] = NoKey]
    /\ Goto(o, "idle")
    /\ UNCHANGED <<verifier, attempts, memory, bounds, config, form, edits, locals, history>>
    /\ Note

DeleteSecret(o) ==
    /\ pc[o] = "idle"
    /\ Authorized(o)
    /\ edits > 0
    /\ edits' = edits - 1
    /\ \E n \in Names : secrets[n] # NoSecret /\ secrets' = [secrets EXCEPT ![n] = NoSecret]
    /\ UNCHANGED <<vault, config, form, locals, history>>
    /\ Note

(***************************************************************************)
(* saveConfiguration and PutApplicationConfiguration.                      *)
(***************************************************************************)

BeginConfiguration(o) == BeginSave(o, "configuring")

CheckSecret(o) ==
    /\ pc[o] = "configuring"
    /\ Goto(o, IF secrets[form[o].name] = NoSecret THEN "publishing" ELSE "idle")
    /\ UNCHANGED <<verifier, attempts, memory, derived, bounds, tables, form, edits, locals, had, history>>

PutConfiguration(o) ==
    /\ pc[o] = "publishing"
    /\ config' = [config EXCEPT ![form[o].name] = form[o].value]
    /\ Goto(o, "idle")
    /\ UNCHANGED <<verifier, attempts, memory, derived, bounds, secrets, form, edits, locals, history>>
    /\ Note

DeleteConfiguration(o) ==
    /\ pc[o] = "idle"
    /\ Authorized(o)
    /\ edits > 0
    /\ edits' = edits - 1
    /\ \E n \in Names : config[n] # 0 /\ config' = [config EXCEPT ![n] = 0]
    /\ UNCHANGED <<vault, secrets, form, locals, history>>
    /\ Note

Edit(o) ==
    \/ BeginSecret(o) \/ SealSecret(o) \/ CheckConfiguration(o) \/ PutSecret(o) \/ DeleteSecret(o)
    \/ BeginConfiguration(o) \/ CheckSecret(o) \/ PutConfiguration(o) \/ DeleteConfiguration(o)

-----------------------------------------------------------------------------
(***************************************************************************)
(* The job.                                                                *)
(***************************************************************************)

\* configurationValues: the public values, in one SELECT.
BeginJob ==
    /\ job = "idle"
    /\ jobs > 0
    /\ jobs' = jobs - 1
    /\ job' = "listing"
    /\ public' = config
    /\ secretHad' = [n \in Names |-> {secrets[n].value}]
    /\ publicHad' = [n \in Names |-> {config[n]}]
    /\ UNCHANGED <<vault, tables, form, edits, pending, unsealed, jobKey, history>>

\* The names of the secrets; without any, the key is not asked for.
ListSecrets ==
    /\ job = "listing"
    /\ pending' = {n \in Names : secrets[n] # NoSecret}
    /\ unsealed' = Nothing
    /\ job' = IF pending' = {} THEN "assembled" ELSE "keying"
    /\ UNCHANGED <<vault, tables, form, edits, jobs, public, jobKey, had, history>>

JobEnds ==
    /\ job' = "idle"
    /\ public' = Nothing /\ pending' = {} /\ unsealed' = Nothing /\ jobKey' = NoKey
    /\ secretHad' = [n \in Names |-> {0}] /\ publicHad' = [n \in Names |-> {0}]

\* Mutant: a locked process deploys with what it can read.
CopyKeyOrGoOn ==
    /\ job = "keying"
    /\ jobKey' = key
    /\ pending' = IF key = NoKey THEN {} ELSE pending
    /\ job' = IF key = NoKey THEN "assembled" ELSE "reading"
    /\ UNCHANGED <<vault, tables, form, edits, jobs, public, unsealed, had, history>>

\* A locked process cannot read any of them and the job fails.
CopyKey ==
    /\ job = "keying"
    /\ \/ /\ key # NoKey
          /\ jobKey' = key
          /\ job' = "reading"
          /\ UNCHANGED <<public, pending, unsealed, had>>
       \/ key = NoKey /\ JobEnds
    /\ UNCHANGED <<vault, tables, form, edits, jobs, history>>

\* One SELECT and one decryption per name.  A secret deleted since the listing,
\* or sealed under another key, fails the job.
ReadSecret ==
    /\ job = "reading"
    /\ pending # {}
    /\ LET n == Min(pending) IN
       \/ /\ secrets[n].key = jobKey
          /\ unsealed' = [unsealed EXCEPT ![n] = secrets[n].value]
          /\ pending' = pending \ {n}
          /\ job' = IF pending' = {} THEN "assembled" ELSE "reading"
          /\ UNCHANGED <<public, jobKey, had>>
       \/ secrets[n].key # jobKey /\ JobEnds
    /\ UNCHANGED <<vault, tables, form, edits, jobs, history>>

Over(upper, lower) == [n \in Names |-> IF upper[n] # 0 THEN upper[n] ELSE lower[n]]

\* Mutant: the public values of today stay under the recorded ones.
RollbackOverCurrent(runtime, current, recorded) == Over(recorded, runtime)

\* The names that are public today leave, the recorded values come, whatever
\* else has their name.
RollbackConfiguration(runtime, current, recorded) ==
    Over(recorded, [n \in Names |-> IF current[n] # 0 THEN 0 ELSE runtime[n]])

Record(kind, target, manifest, env) ==
    /\ releases' = Append(releases, [manifest |-> manifest, env |-> env])
    /\ last' = [kind |-> kind, target |-> target, secretHad |-> secretHad, publicHad |-> publicHad]
    /\ JobEnds
    /\ UNCHANGED <<vault, tables, form, edits, jobs>>

\* A deployed release records the public values it read; secrets win over them.
Deploy ==
    /\ job = "assembled"
    /\ Record("deploy", 0, public, Over(unsealed, public))

\* A rollback, requested or automatic, takes the public values its target
\* recorded and records them again.
Rollback ==
    /\ job = "assembled"
    /\ \E t \in DOMAIN releases :
          LET recorded == releases[t].manifest IN
          Record("rollback", t, recorded,
                 RollbackConfiguration(Over(unsealed, public), public, recorded))

Job == BeginJob \/ ListSecrets \/ CopyKey \/ ReadSecret \/ Deploy \/ Rollback

-----------------------------------------------------------------------------
\* The process starts again: jobs in progress are gone, the tables stay.
Restart ==
    /\ ProcessRestarts
    /\ form' = [o \in Operators |-> NoForm]
    /\ JobEnds
    /\ UNCHANGED <<tables, edits, jobs, history>>

Vaults ==
    /\ LockoutExpires \/ \E o \in Operators : VaultStep(o)
    /\ UNCHANGED <<tables, form, edits, locals, had, history>>

Next == Vaults \/ (\E o \in Operators : Edit(o)) \/ Job \/ Restart

Spec == Init /\ [][Next]_vars

-----------------------------------------------------------------------------
(***************************************************************************)
(* Properties.                                                             *)
(***************************************************************************)

\* Whatever raced during the first setup, and whoever locked meanwhile, the process
\* holds no other key than the verified one and every stored secret can be opened
\* with the password that unlocks MiniDock.
SecretsReadable ==
    KeyIsVerified /\ \A n \in Names : secrets[n] # NoSecret => secrets[n].key = verifier

Latest == releases[Len(releases)]

\* A deployed release never runs without a secret that existed all the time it
\* was put together, locked or not, and every value it got was stored at some
\* moment of that time.
DeploymentIsWhole ==
    last.kind = "deploy" =>
        \A n \in Names :
            /\ 0 \notin last.secretHad[n] => Latest.env[n] \in last.secretHad[n]
            /\ Latest.env[n] \in last.secretHad[n] \cup last.publicHad[n]

\* A rollback, of a rollback too, runs the public values its target recorded and
\* no public value of today; what it runs beyond them was a secret.  This is what
\* the code does and what the comment of rollbackConfiguration says (cicd.go:478-481).
\* The comment of rollbackReleaseMetadata says otherwise, that "a rollback starts an
\* old artifact with the configuration active now" (cicd.go:566-568): of public values
\* that sentence is wrong, and holds of the secrets only.
RollbackRestores ==
    last.kind = "rollback" =>
        LET recorded == releases[last.target].manifest IN
        /\ Latest.manifest = recorded
        /\ \A n \in Names :
              IF recorded[n] # 0 THEN Latest.env[n] = recorded[n]
              ELSE Latest.env[n] \in last.secretHad[n] \cup {0}

=============================================================================
