-------------------------------- MODULE Schema --------------------------------
(***************************************************************************)
(* The database file and how store.Open brings it to version 10 (migrate   *)
(* in internal/store/store.go).  Every statement commits by itself, so the *)
(* process may die between any two of them and a later start finds what    *)
(* they left.                                                              *)
(*                                                                         *)
(* A statement stands for what later statements, or the code, need of it.  *)
(* The flags of an application row that was written before the columns     *)
(* existed are the defaults the columns are added with: TRUE and TRUE.     *)
(***************************************************************************)
EXTENDS Integers, Sequences, FiniteSets

VARIABLES
    db,             \* the file
    process,        \* the process
    legacy,         \* is it on the path for databases without a version?
    at,             \* the migration it applies and the statement it is at
    databaseCrashes \* bound: how often the process may still die

schemaVars == <<db, process, legacy, at, databaseCrashes>>

-----------------------------------------------------------------------------
\* applyMigrationV1 to applyMigrationV10.
Migrations == << <<"settings", "tables">>,
                 <<"push", "confirm", "stages">>,
                 <<"alerts", "fix", "index">>,
                 <<"health">>, <<"deliveries">>, <<"identities">>, <<"nodes">>,
                 <<"limits">>, <<"attempts">>, <<"tunnel">> >>

Current == Len(Migrations)
StatementsOf(v) == {Migrations[v][i] : i \in 1 .. Len(Migrations[v])}
Schema == (UNION {StatementsOf(v) : v \in 1 .. Current}) \ {"fix"}
Columns == {"push", "confirm", "stages"}

\* What a statement names has to be there.
Requires(s) == CASE s \in Columns -> {"tables"}
                 [] s = "fix" -> {"push", "confirm"}
                 [] s = "index" -> {"tables"}
                 [] OTHER -> {}

Flags == [push : BOOLEAN, confirm : BOOLEAN]
Both == [push |-> TRUE, confirm |-> TRUE]
Manual == [push |-> FALSE, confirm |-> TRUE]

\* jobs: the most active rows an application has.
Files == [schema : SUBSET Schema, version : 0 .. Current, apps : SUBSET Flags, jobs : 0 .. 2]

Fresh == [schema |-> {}, version |-> 0, apps |-> {}, jobs |-> 0]

\* Without a version: the tables and some of the columns, written by a program
\* that knew neither the index nor the rule against both flags.
Unversioned ==
    {[schema |-> {"settings", "tables"} \cup columns, version |-> 0, apps |-> {Both},
      jobs |-> n] :
          columns \in SUBSET Columns, n \in 0 .. 2}

\* Left by a former version of the program.  Up to version 2 both flags can be set.
Versioned ==
    {[schema |-> (UNION {StatementsOf(u) : u \in 1 .. v}) \ {"fix"}, version |-> v,
      apps |-> {IF v < 3 THEN Both ELSE Manual}, jobs |-> 1] : v \in 1 .. Current}

SchemaTypeOK ==
    /\ db \in Files
    /\ process \in {"down", "migrating", "up", "failed"}
    /\ legacy \in BOOLEAN
    /\ at \in (1 .. Current + 1) \X (1 .. 4)
    /\ databaseCrashes \in Nat

FormerFiles == {Fresh} \cup Unversioned \cup Versioned
CurrentFiles == {f \in Versioned : f.version = Current}

SchemaInit ==
    /\ process = "down" /\ legacy = FALSE /\ at = <<1, 1>>

-----------------------------------------------------------------------------
\* user_version, and the settings table when it is 0.
Open ==
    /\ process = "down"
    /\ process' = "migrating"
    /\ legacy' = (db.version = 0 /\ "settings" \in db.schema)
    /\ at' = <<db.version + 1, 1>>
    /\ UNCHANGED <<db, databaseCrashes>>

Migrating == process = "migrating" /\ at[1] <= Current
Statement == Migrations[at[1]][at[2]]
StatementsLeft == at[2] <= Len(Migrations[at[1]])

\* Mutant: a column that is there already is an error.
FailsOnDuplicate(s) == ~(Requires(s) \subseteq db.schema) \/ (s = "index" /\ db.jobs > 1)
                       \/ (s \in Columns /\ s \in db.schema)

\* CREATE ... IF NOT EXISTS and the tolerated "duplicate column name" never fail on
\* what exists; a unique index does not fit two active rows.
Fails(s) == ~(Requires(s) \subseteq db.schema) \/ (s = "index" /\ db.jobs > 1)

\* The UPDATE of migration 3 makes an application with both flags a manual one.
Applied(s) ==
    IF s = "fix" THEN [db EXCEPT !.apps = {IF f = Both THEN Manual ELSE f : f \in @}]
    ELSE [db EXCEPT !.schema = @ \cup {s}]

ApplyStatement ==
    /\ Migrating /\ StatementsLeft
    /\ IF Fails(Statement)
       THEN process' = "failed" /\ UNCHANGED <<db, at>>
       ELSE /\ db' = Applied(Statement)
            /\ at' = [at EXCEPT ![2] = @ + 1]
            /\ UNCHANGED process
    /\ UNCHANGED <<legacy, databaseCrashes>>

\* Mutant: the first migration that ends claims to be the last.
SetLatestVersion ==
    /\ Migrating /\ ~StatementsLeft
    /\ db' = [db EXCEPT !.version = Current]
    /\ at' = <<at[1] + 1, 1>>
    /\ UNCHANGED <<process, legacy, databaseCrashes>>

\* PRAGMA user_version after each migration, or once after all of them.
SetVersion ==
    /\ Migrating /\ ~StatementsLeft
    /\ db' = [db EXCEPT !.version = IF legacy /\ at[1] < Current THEN @ ELSE at[1]]
    /\ at' = <<at[1] + 1, 1>>
    /\ UNCHANGED <<process, legacy, databaseCrashes>>

Opened ==
    /\ process = "migrating" /\ at[1] > Current
    /\ process' = "up"
    /\ UNCHANGED <<db, legacy, at, databaseCrashes>>

\* The process has ended and is started again.
Retry ==
    /\ process = "failed"
    /\ process' = "down"
    /\ UNCHANGED <<db, legacy, at, databaseCrashes>>

Migrate == Retry \/ Open \/ ApplyStatement \/ SetVersion \/ Opened

=============================================================================
