-------------------------------- MODULE Alerts --------------------------------
(***************************************************************************)
(* The operational alerts: the collector (runCollection in internal/app/   *)
(* operations.go) that runs at start and every 30 seconds, the alerts that *)
(* others raise (StartQueue after a reconciliation, runBackup while the    *)
(* key is locked), the table of internal/store/store.go and the cache the  *)
(* operations page reads.                                                  *)
(*                                                                         *)
(* A collection looks at the disk, and for each application at its newest  *)
(* deployment, its container, its route and its certificate.  A check      *)
(* raises at most one message; some messages carry the value they are      *)
(* about ("disk at 91.3 %"), so one check has several.  A check whose read *)
(* fails says nothing of what it is about: it raises a message of its own  *)
(* ("the state could not be read"), or none.                               *)
(***************************************************************************)
EXTENDS Integers, Sequences, FiniteSets

CONSTANTS
    Checks,     \* in the order of a collection: what each check can find wrong
    Blind,      \* per check: what it raises when it cannot look ("fine": nothing)
    Restored,   \* the alerts of StartQueue about one application each
    MaxErrors,  \* bound: failing statements and reads
    MaxCrashes  \* bound: how often the process dies

\* The disk is checked whatever the applications.
ASSUME ChecksAssumption == Checks \in Seq(SUBSET STRING) /\ Checks # <<>>
ASSUME BlindAssumption == Blind \in [DOMAIN Checks -> STRING]
ASSUME RestoredAssumption == Restored \subseteq STRING
ASSUME BoundsAssumption == MaxErrors \in Nat /\ MaxCrashes \in Nat

VARIABLES
    world,   \* per check: what is wrong now ("fine": nothing)
    rows,    \* per message: its unresolved rows
    cache,   \* alertsCache: the messages the page adds to the rows
    pc,      \* where the collector is
    check,   \* the check it is at
    message, \* the message the check has raised
    raised,  \* activeAlertMessages
    gone,    \* the messages that were not true at some time of this collection
    blind,   \* the checks whose read failed in this collection
    locked,  \* is the key missing?
    backup,  \* per backup: is it about to insert its alert?
    errors, crashes

collector == <<pc, check, message, raised>>
noted == <<gone, blind>>
bounds == <<errors, crashes>>
vars == <<world, rows, cache, collector, noted, locked, backup, bounds>>

-----------------------------------------------------------------------------
Signals == UNION {Checks[k] \cup ({Blind[k]} \ {"fine"}) : k \in DOMAIN Checks}
Reconciliations == {"MD-P0-03"} \cup Restored
Locked == "MD-P0-02"
Messages == Signals \cup Reconciliations \cup {Locked}
Backups == {"loop", "manual"}

\* Nobody else raises the message of the backups, and being fine is no message.
ASSUME MessagesAssumption ==
    /\ Locked \notin Signals \cup Reconciliations
    /\ \A k \in DOMAIN Checks : "fine" \notin Checks[k]

Holds(m) == \E k \in DOMAIN Checks : world[k] = m
Active == {m \in Messages : rows[m] > 0}

TypeOK ==
    /\ world \in [DOMAIN Checks -> Signals \cup {"fine"}]
    /\ \A k \in DOMAIN Checks : world[k] \in Checks[k] \cup {"fine"}
    /\ rows \in [Messages -> Nat]
    /\ cache \subseteq Messages
    /\ pc \in {"reconciling", "idle", "checking", "inserting", "resolving", "caching"}
    /\ check \in 1 .. Len(Checks) + 1
    /\ message \in Signals \cup {"fine"}
    /\ raised \subseteq Signals
    /\ gone \subseteq Signals /\ blind \subseteq DOMAIN Checks
    /\ locked \in BOOLEAN
    /\ backup \in [Backups -> BOOLEAN]
    /\ errors \in 0 .. MaxErrors /\ crashes \in 0 .. MaxCrashes

Init ==
    /\ world = [k \in DOMAIN Checks |-> "fine"]
    /\ rows = [m \in Messages |-> 0]
    /\ cache = {}
    /\ pc = "reconciling" /\ check = 1 /\ message = "fine" /\ raised = {}
    /\ gone = {} /\ blind = {}
    /\ locked = TRUE
    /\ backup = [b \in Backups |-> FALSE]
    /\ errors = 0 /\ crashes = 0

MayFail ==
    /\ errors < MaxErrors
    /\ errors' = errors + 1
    /\ UNCHANGED crashes

\* UpsertAlert's INSERT, behind its SELECT.
Inserted(m) == rows' = [rows EXCEPT ![m] = @ + 1]

-----------------------------------------------------------------------------
(***************************************************************************)
(* runCollection.                                                          *)
(***************************************************************************)

\* The list of applications; without it there is no collection.
BeginCollection ==
    /\ pc = "idle"
    /\ pc' = "checking" /\ check' = 1
    /\ raised' = {}
    /\ gone' = {m \in Signals : ~Holds(m)} /\ blind' = {}
    /\ UNCHANGED <<world, rows, cache, message, locked, backup, bounds>>

Advance == pc' = (IF check = Len(Checks) THEN "resolving" ELSE "checking") /\ check' = check + 1

\* Mutant: only a message that is new gets on the list.
RaiseOnlyNew(seen) ==
    /\ message' = seen
    /\ raised' = raised \cup ({seen} \ ({"fine"} \cup Active))
    /\ IF seen \in {"fine"} \cup Active
       THEN Advance
       ELSE pc' = "inserting" /\ UNCHANGED check

\* Mutant: the alert is inserted without looking for an unresolved one.
RaiseWithoutSelect(seen) ==
    /\ message' = seen
    /\ raised' = raised \cup ({seen} \ {"fine"})
    /\ IF seen = "fine"
       THEN Advance
       ELSE pc' = "inserting" /\ UNCHANGED check

\* The list and UpsertAlert's SELECT: an unresolved row with the message is enough.
Raise(seen) ==
    /\ message' = seen
    /\ raised' = raised \cup ({seen} \ {"fine"})
    /\ IF seen \in {"fine"} \cup Active
       THEN Advance
       ELSE pc' = "inserting" /\ UNCHANGED check

\* A check finds what is wrong, or cannot look: without the deployments it raises
\* nothing about the newest, without the container's state or the disk's another
\* message than the one that may be true.
Check ==
    /\ pc = "checking"
    /\ \/ Raise(world[check]) /\ UNCHANGED <<blind, bounds>>
       \/ Raise(Blind[check]) /\ blind' = blind \cup {check} /\ MayFail
    /\ UNCHANGED <<world, rows, cache, gone, locked, backup>>

\* The error of an INSERT is ignored: the message stays on the list.
InsertAlert ==
    /\ pc = "inserting"
    /\ \/ Inserted(message) /\ UNCHANGED bounds
       \/ MayFail /\ UNCHANGED rows
    /\ Advance
    /\ UNCHANGED <<world, cache, message, raised, noted, locked, backup>>

\* Mutant: NOT IN () with an empty list matches no row.
ResolveListedOnly ==
    /\ pc = "resolving"
    /\ \/ /\ rows' = [m \in Messages |-> IF m \in raised \/ raised = {} THEN rows[m] ELSE 0]
          /\ UNCHANGED bounds
       \/ MayFail /\ UNCHANGED rows
    /\ pc' = "caching"
    /\ UNCHANGED <<world, cache, check, message, raised, noted, locked, backup>>

\* Every unresolved row whose message this collection has not raised, whoever
\* raised it; without messages, every row.
ResolveAllAlertsExcept ==
    /\ pc = "resolving"
    /\ \/ rows' = [m \in Messages |-> IF m \in raised THEN rows[m] ELSE 0] /\ UNCHANGED bounds
       \/ MayFail /\ UNCHANGED rows
    /\ pc' = "caching"
    /\ UNCHANGED <<world, cache, check, message, raised, noted, locked, backup>>

\* GetActiveAlerts; after an error the cache is empty.
CacheAlerts ==
    /\ pc = "caching"
    /\ \/ cache' = Active /\ UNCHANGED bounds
       \/ MayFail /\ cache' = {}
    /\ pc' = "idle"
    /\ UNCHANGED <<world, rows, check, message, raised, noted, locked, backup>>

RunCollection ==
    BeginCollection \/ Check \/ InsertAlert \/ ResolveAllAlertsExcept \/ CacheAlerts

-----------------------------------------------------------------------------
(***************************************************************************)
(* The alerts of others.                                                   *)
(***************************************************************************)

\* StartQueue reconciles, raises an alert if that fails and one for every
\* application it restored, as far as the store takes them, and goes on to the
\* first collection before it returns.
StartQueue ==
    /\ pc = "reconciling"
    /\ \E S \in SUBSET (Reconciliations \ Active) :
          rows' = [m \in Messages |-> rows[m] + (IF m \in S THEN 1 ELSE 0)]
    /\ pc' = "idle"
    /\ UNCHANGED <<world, cache, check, message, raised, noted, locked, backup, bounds>>

\* runBackup without the key: SELECT, then INSERT.  The loop and the operator's
\* button run it, each in a goroutine of its own.
BackupLocked(b) ==
    /\ pc # "reconciling"
    /\ locked /\ ~backup[b] /\ Locked \notin Active
    /\ backup' = [backup EXCEPT ![b] = TRUE]
    /\ UNCHANGED <<world, rows, cache, collector, noted, locked, bounds>>

BackupAlert(b) ==
    /\ backup[b]
    /\ Inserted(Locked)
    /\ backup' = [backup EXCEPT ![b] = FALSE]
    /\ UNCHANGED <<world, cache, collector, noted, locked, bounds>>

LockOrUnlock ==
    /\ locked' = ~locked
    /\ UNCHANGED <<world, rows, cache, collector, noted, backup, bounds>>

-----------------------------------------------------------------------------
\* Something breaks, changes or is repaired, at any moment of a collection.
WorldChanges(k) ==
    /\ world' \in {[world EXCEPT ![k] = m] : m \in (Checks[k] \cup {"fine"}) \ {world[k]}}
    /\ gone' = IF pc = "idle" THEN gone ELSE gone \cup ({world[k]} \ {"fine"})
    /\ UNCHANGED blind
    /\ UNCHANGED <<rows, cache, collector, locked, backup, bounds>>

\* The caches and the key are in memory, the rows are not.
Crash ==
    /\ crashes < MaxCrashes
    /\ crashes' = crashes + 1
    /\ pc' = "reconciling" /\ check' = 1 /\ message' = "fine" /\ raised' = {}
    /\ cache' = {} /\ gone' = {} /\ blind' = {} /\ locked' = TRUE
    /\ backup' = [b \in Backups |-> FALSE]
    /\ UNCHANGED <<world, rows, errors>>

Next ==
    \/ RunCollection \/ StartQueue
    \/ \E b \in Backups : BackupLocked(b) \/ BackupAlert(b)
    \/ LockOrUnlock
    \/ \E k \in DOMAIN Checks : WorldChanges(k)
    \/ Crash

\* The goroutine of the collector always gets on, and its ticker always ticks.
Spec == Init /\ [][Next]_vars /\ WF_vars(RunCollection \/ StartQueue)

-----------------------------------------------------------------------------
(***************************************************************************)
(* Properties.                                                             *)
(***************************************************************************)

\* UpsertAlert selects and inserts in two statements: a message of the collector
\* still has one unresolved row, and the backups' at most one for each of them.
NoDuplicates ==
    \A m \in Messages : rows[m] <= IF m = Locked THEN Cardinality(Backups) ELSE 1

\* A collection resolves one of its alerts only if what it is about was untrue at
\* some time of that collection, or if the check that is about it could not look.
\* The latter is what the code does (operations.go:260, 275): an alert disappears
\* while its cause is there; then the message that the check could not look, where
\* it has one, is on the list instead.
ResolvedOnlyIfGone ==
    [][\A m \in Signals : rows[m] > 0 /\ rows'[m] = 0 =>
          \/ m \in gone
          \/ \E k \in blind : m \in Checks[k] /\ Blind[k] \in raised \cup {"fine"}]_vars

\* What stays wrong is shown in the end and remains so, in the table and on the
\* page, through errors of the store and restarts.
WrongIsShown == \A m \in Signals : <>[]Holds(m) => <>[](m \in Active /\ m \in cache)

\* What stays right is no longer reported in the end, the last alert of all too.
RightIsSilent == \A m \in Signals : <>[]~Holds(m) => <>[](m \notin Active /\ m \notin cache)

\* The table and the page come to agree with the world, whichever way it settles.
AlertsSettle == WrongIsShown /\ RightIsSilent

=============================================================================
