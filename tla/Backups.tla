------------------------------- MODULE Backups -------------------------------
(***************************************************************************)
(* The encrypted backups of an open database: runBackup (internal/app/     *)
(* operations.go), run by backupLoop and by the operator's button, its     *)
(* local rotation or S3 upload, and the restore command (cmd/minidock/     *)
(* backup.go) that starts a new database from one of the files.            *)
(*                                                                         *)
(* A file is written in place: until its last byte it is torn, and it      *)
(* stays so if the process dies.  Seal authenticates the whole, so a torn  *)
(* file is refused when it is opened.                                      *)
(***************************************************************************)
EXTENDS Schema, FiniteSetsExt

CONSTANTS
    BackupRetention, \* config.BackupRetention
    Providers,       \* where the backups of an installation go: "local", "s3"
    MaxSeconds,      \* bound: the seconds in which a backup can be named
    Budgets          \* bounds: crashes, seconds and restores a behaviour may have

ASSUME BackupRetentionAssumption == BackupRetention \in Nat \ {0}
ASSUME ProvidersAssumption == Providers \subseteq {"local", "s3"}
ASSUME BudgetsAssumption == MaxSeconds \in Nat \ {0} /\ Budgets \subseteq Nat \X (1 .. MaxSeconds) \X Nat

VARIABLES
    provider, \* config.BackupProvider
    keyless,  \* is the key missing?
    now,      \* the second of the clock that names a backup
    seconds,  \* bound: the last second
    archive,  \* per name: the file in BackupPath
    success,  \* is settings.backup_last_success set?
    job,      \* per goroutine: where in runBackup it is
    snapshot, \* per goroutine: the serialized database,
    name,     \* the name it chose,
    victims,  \* and the old files it is going to remove
    crowded,  \* did two backups ever share a name, or torn files fill the retention?
    restores  \* bound: restore commands that may still come

disk == <<now, archive, success, crowded>>
worker == <<job, snapshot, name, victims>>
backupsVars == <<schemaVars, provider, keyless, seconds, disk, worker, restores>>

Goroutines == {"loop", "manual"}
NoFile == [state |-> "none", db |-> Fresh]
Torn == [state |-> "torn", db |-> Fresh]
Complete(file) == [state |-> "complete", db |-> file]
Names == {n \in 1 .. MaxSeconds : archive[n] # NoFile}
IsComplete(n) == archive[n].state = "complete"
BackupSteps == {"idle", "sealed", "writing", "written", "rotating", "streaming", "blocked"}

BackupsTypeOK ==
    /\ SchemaTypeOK
    /\ provider \in Providers /\ keyless \in BOOLEAN
    /\ now \in 1 .. seconds /\ seconds \in 1 .. MaxSeconds
    /\ archive \in [1 .. MaxSeconds -> [state : {"none", "torn", "complete"}, db : Files]]
    /\ success \in BOOLEAN
    /\ job \in [Goroutines -> BackupSteps]
    /\ snapshot \in [Goroutines -> Files]
    /\ name \in [Goroutines -> 0 .. MaxSeconds]
    /\ victims \in [Goroutines -> SUBSET (1 .. MaxSeconds)]
    /\ crowded \in BOOLEAN
    /\ restores \in Nat

BackupsInit ==
    /\ SchemaInit
    /\ \E b \in Budgets : databaseCrashes = b[1] /\ seconds = b[2] /\ restores = b[3]
    /\ db \in IF seconds = 1 THEN FormerFiles ELSE CurrentFiles  \* a bound
    /\ provider \in Providers /\ keyless = TRUE
    /\ now = 1 /\ archive = [n \in 1 .. MaxSeconds |-> NoFile]
    /\ success = FALSE /\ crowded = FALSE
    /\ job = [b \in Goroutines |-> "idle"]
    /\ snapshot = [b \in Goroutines |-> Fresh]
    /\ name = [b \in Goroutines |-> 0]
    /\ victims = [b \in Goroutines |-> {}]

Goto(b, step) == job' = [job EXCEPT ![b] = step]

\* The return of runBackup.
Return(b) ==
    /\ Goto(b, "idle")
    /\ snapshot' = [snapshot EXCEPT ![b] = Fresh]
    /\ name' = [name EXCEPT ![b] = 0]

-----------------------------------------------------------------------------
(***************************************************************************)
(* runBackup.                                                              *)
(***************************************************************************)

\* keyCopy, Snapshot and Seal; without the key there is no backup.
SealSnapshot(b) ==
    /\ process = "up" /\ job[b] = "idle" /\ ~keyless
    /\ snapshot' = [snapshot EXCEPT ![b] = db]
    /\ name' = [name EXCEPT ![b] = now]
    /\ crowded' = (crowded \/ archive[now] # NoFile \/ \E c \in Goroutines : name[c] = now)
    /\ Goto(b, IF provider = "s3" THEN "streaming" ELSE "sealed")
    /\ UNCHANGED <<schemaVars, provider, keyless, seconds, now, archive, success, victims, restores>>

\* WriteFile truncates or creates the file first; it or MkdirAll may fail before that.
CreateFile(b) ==
    /\ job[b] = "sealed"
    /\ \/ /\ archive' = [archive EXCEPT ![name[b]] = Torn]
          /\ crowded' = (crowded \/ Cardinality({n \in DOMAIN archive : archive'[n] = Torn})
                                      >= BackupRetention)
          /\ Goto(b, "writing")
          /\ UNCHANGED <<snapshot, name>>
       \/ Return(b) /\ UNCHANGED <<archive, crowded>>
    /\ UNCHANGED <<schemaVars, provider, keyless, seconds, now, success, victims, restores>>

\* What the file is after the last Write.  Two writers of one name may mix their
\* bytes; a file that a rotation has removed meanwhile has no name any more.
Written(b) ==
    IF archive[name[b]] = NoFile THEN {NoFile}
    ELSE {Complete(snapshot[b])} \cup
         {Torn : c \in {c \in Goroutines \ {b} : name[c] = name[b]}}

WriteFile(b) ==
    /\ job[b] = "writing"
    /\ \/ /\ \E f \in Written(b) : archive' = [archive EXCEPT ![name[b]] = f]
          /\ Goto(b, "written")
          /\ UNCHANGED <<snapshot, name>>
       \/ Return(b) /\ UNCHANGED archive
    /\ UNCHANGED <<schemaVars, provider, keyless, seconds, now, success, crowded, victims, restores>>

\* Mutant: as many of the old ones as should be kept are chosen.
OldestFiles == {n \in Names : Cardinality({m \in Names : m > n}) >= BackupRetention - 1}

\* All but the BackupRetention newest names, complete or not.
OldFiles == {n \in Names : Cardinality({m \in Names : m > n}) >= BackupRetention}

\* backup_last_success, whose error is ignored, then ReadDir, whose error ends it.
RecordSuccess(b) ==
    /\ job[b] = "written"
    /\ success' \in {success, TRUE}
    /\ \/ /\ victims' = [victims EXCEPT ![b] = OldFiles]
          /\ Goto(b, "rotating")
          /\ UNCHANGED <<snapshot, name>>
       \/ Return(b) /\ UNCHANGED victims
    /\ UNCHANGED <<schemaVars, provider, keyless, seconds, now, archive, crowded, restores>>

\* The names of that list are removed, the oldest first, whatever has been written
\* since; the error of a Remove is ignored.
RemoveOldFile(b) ==
    /\ job[b] = "rotating"
    /\ \E n \in victims[b] :
          /\ \A m \in victims[b] : n <= m
          /\ \E f \in {NoFile, archive[n]} : archive' = [archive EXCEPT ![n] = f]
          /\ victims' = [victims EXCEPT ![b] = @ \ {n}]
    /\ UNCHANGED <<schemaVars, provider, keyless, seconds, now, success, crowded, job, snapshot, name,
                   restores>>

Rotated(b) ==
    /\ job[b] = "rotating" /\ victims[b] = {}
    /\ Return(b)
    /\ UNCHANGED <<schemaVars, provider, keyless, seconds, disk, victims, restores>>

\* The upload reads the pipe to its end, or fails after it has begun to read (the
\* transport closes the pipe); an upload that fails before it reads leaves the
\* writer behind: nobody closes the reader and Write never returns.
UploadS3(b) ==
    /\ job[b] = "streaming"
    /\ \/ Return(b) /\ success' \in {success, TRUE}
       \/ Goto(b, "blocked") /\ UNCHANGED <<success, snapshot, name>>
    /\ UNCHANGED <<schemaVars, provider, keyless, seconds, now, archive, crowded, victims, restores>>

RunBackup(b) ==
    \/ SealSnapshot(b) \/ CreateFile(b) \/ WriteFile(b) \/ RecordSuccess(b)
    \/ RemoveOldFile(b) \/ Rotated(b) \/ UploadS3(b)

-----------------------------------------------------------------------------
NextSecond ==
    /\ now < seconds
    /\ now' = now + 1
    /\ UNCHANGED <<schemaVars, provider, keyless, seconds, archive, success, crowded, worker, restores>>

LockOrUnlockKey ==
    /\ process = "up"
    /\ keyless' = ~keyless
    /\ UNCHANGED <<schemaVars, provider, seconds, disk, worker, restores>>

\* createApplication and updateApplicationAutomation refuse both flags together.
SaveApplication ==
    /\ process = "up"
    /\ \E f \in Flags \ {Both} : db' = [db EXCEPT !.apps = {f}]
    /\ UNCHANGED <<process, legacy, at, databaseCrashes, provider, keyless, seconds, disk, worker, restores>>

Forget ==
    /\ job' = [b \in Goroutines |-> "idle"]
    /\ snapshot' = [b \in Goroutines |-> Fresh]
    /\ name' = [b \in Goroutines |-> 0]
    /\ victims' = [b \in Goroutines |-> {}]
    /\ keyless' = TRUE

\* At any statement of a migration and at any step of a backup.
BackupsCrash ==
    /\ databaseCrashes > 0
    /\ databaseCrashes' = databaseCrashes - 1
    /\ process' = "down"
    /\ Forget
    /\ UNCHANGED <<db, legacy, at, provider, seconds, disk, restores>>

\* The restore command authenticates the file, opens and migrates a copy of it, and
\* writes what it has decrypted where no file is; MiniDock is started from there.
Restore ==
    /\ restores > 0
    /\ restores' = restores - 1
    /\ process = "down"
    /\ \E n \in Names : IsComplete(n) /\ db' = archive[n].db
    /\ UNCHANGED <<process, legacy, at, databaseCrashes, provider, keyless, seconds, disk, worker>>

Opening == Migrate /\ UNCHANGED <<provider, keyless, seconds, disk, worker, restores>>

BackupsNext ==
    \/ Opening
    \/ \E b \in Goroutines : RunBackup(b)
    \/ NextSecond \/ LockOrUnlockKey \/ SaveApplication
    \/ BackupsCrash \/ Restore

\* Go runs the start to its end, and a backup as far as it can get.
BackupsSpec == /\ BackupsInit /\ [][BackupsNext]_backupsVars
               /\ WF_backupsVars(Opening)
               /\ \A b \in Goroutines : WF_backupsVars(job[b] # "idle" /\ RunBackup(b))

-----------------------------------------------------------------------------
(***************************************************************************)
(* Properties.                                                             *)
(***************************************************************************)

\* Whatever file the start finds, and wherever earlier starts died in it, a process
\* that is up works on a complete schema of version 10 (migrate), and none of its
\* applications deploys on push and requires a confirmation as well, whether the row
\* is older than the rule or not (applyMigrationV3 and the checks behind it).
SchemaComplete ==
    process = "up" => db.schema = Schema /\ db.version = Current /\ Both \notin db.apps

\* A database without two active rows of one application is open in the end: no
\* interrupted migration makes the next start impossible.
OpensInTheEnd == []<>(process = "up" \/ db.jobs > 1)

\* Once a local backup has been reported as a success there is a complete one,
\* through failing writes, crashes in a write and two rotations at once, as long as
\* no two backups fall into the same second and fewer than BackupRetention files are torn.
BackupRemains ==
    provider = "local" /\ success /\ ~crowded => \E n \in Names : IsComplete(n)

=============================================================================
