--------------------------- MODULE OperationsProofs ---------------------------
(***************************************************************************)
(* Proofs about the background loops of internal/app/operations.go, the    *)
(* alerts (Alerts), retention (Retention) and the backups with the schema  *)
(* they carry (Backups), for any constants and bounds.  The three share no *)
(* state in the models.                                                    *)
(*                                                                         *)
(* Alerts, no duplicates: UpsertAlert's SELECT and INSERT are two          *)
(* statements, and what keeps them together is that one goroutine only     *)
(* inserts the collector's messages (Selected); the two backups are not    *)
(* kept apart, so theirs is counted with the inserts still to come         *)
(* (Pending).  A message that has been true all through the collection has *)
(* been true of one and the same check, and is on the list as soon as that *)
(* check is behind, unless its read failed (Looked, Excused).              *)
(*                                                                         *)
(* Retention: a list that was read long ago is still good when it is used, *)
(* because a row of it is superseded by Retain newer successful rows for   *)
(* ever: whatever is deleted has Retain newer ones itself (Supersede).     *)
(* That ends when SQLite gives an id on a list to a new row (clash).       *)
(*                                                                         *)
(* Backups: a file has what its version says, wherever a migration was     *)
(* interrupted (Placed), so every snapshot and every complete file is a    *)
(* whole database (Stored).  The newest complete file is nobody's victim   *)
(* (Superseded), so a rotation leaves it.                                  *)
(***************************************************************************)
EXTENDS Alerts, Retention, Backups, FiniteSetTheorems, WellFoundedInduction, TLAPS

-----------------------------------------------------------------------------

\* A set of numbers that has an element and a bound has a greatest element.
LEMMA Greatest ==
    ASSUME NEW n \in Nat, NEW S \in SUBSET (0 .. n), S # {}
    PROVE  \E m \in S : \A k \in S : k <= m
<1> DEFINE T == {n - k : k \in S}
<1>1. T \subseteq Nat /\ T # {}
  <2>1. PICK k \in S : k \in 0 .. n
    OBVIOUS
  <2>2. n - k \in T
    OBVIOUS
  <2>3. ASSUME NEW t \in T PROVE t \in Nat
    <3>1. PICK j \in S : t = n - j
      OBVIOUS
    <3>2. j \in 0 .. n
      OBVIOUS
    <3> HIDE DEF T
    <3> QED BY <3>1, <3>2
  <2> QED BY <2>2, <2>3
<1>2. PICK x \in T : \A y \in T : ~(<<y, x>> \in OpToRel(<, Nat))
  <2> HIDE DEF T
  <2> QED BY <1>1, NatLessThanWellFounded, WFMin
<1>3. ASSUME NEW y \in T PROVE x <= y
  <2> SUFFICES ASSUME y < x PROVE FALSE
    BY <1>1
  <2>1. <<y, x>> \in Nat \X Nat /\ <<y, x>>[1] < <<y, x>>[2]
    BY <1>1
  <2>2. <<y, x>> \in OpToRel(<, Nat)
    BY <2>1 DEF OpToRel
  <2> QED BY <1>2, <2>2
<1>4. PICK m \in S : x = n - m
  OBVIOUS
<1>5. ASSUME NEW k \in S PROVE k <= m
  <2>1. x <= n - k
    BY <1>3
  <2>2. k \in 0 .. n /\ m \in 0 .. n
    OBVIOUS
  <2> HIDE DEF T
  <2> QED BY <1>4, <2>1, <2>2
<1> QED
  BY <1>5

\* The subsets of the ids are finite.
LEMMA Subsets ==
    ASSUME NEW n \in Nat, NEW S \in SUBSET (1 .. n)
    PROVE  IsFiniteSet(S) /\ Cardinality(S) \in Nat
<1>1. IsFiniteSet(1 .. n)
  BY FS_Interval
<1>2. IsFiniteSet(S)
  BY <1>1, FS_Subset
<1> QED
  BY <1>2, FS_CardinalityType

\* A set of ids counts at least as much as a part of it.
LEMMA Parts ==
    ASSUME NEW n \in Nat, NEW S \in SUBSET (1 .. n), NEW T \in SUBSET S
    PROVE  Cardinality(T) <= Cardinality(S)
<1>1. IsFiniteSet(S)
  BY Subsets
<1> QED
  BY <1>1, FS_Subset

\* The rank of a member is one more than the number of those above it.
LEMMA RankOf ==
    ASSUME NEW n \in Nat, NEW S \in SUBSET (1 .. n), NEW i \in S
    PROVE  Cardinality({j \in S : j >= i}) = Cardinality({j \in S : j > i}) + 1
<1> DEFINE above == {j \in S : j > i}
           from == {j \in S : j >= i}
<1>1. from = above \cup {i} /\ i \notin above
  <2>1. S \subseteq Int
    OBVIOUS
  <2>2. \A j \in S : j >= i <=> j > i \/ j = i
    BY <2>1
  <2>3. ~(i > i)
    BY <2>1
  <2> QED BY <2>2, <2>3
<1>2. above \in SUBSET (1 .. n)
  OBVIOUS
<1>3. IsFiniteSet(above)
  BY <1>2, Subsets
<1> HIDE DEF above, from
<1>4. Cardinality(above \cup {i}) = Cardinality(above) + 1
  BY <1>1, <1>3, FS_AddElement
<1>5. Cardinality(from) = Cardinality(above) + 1
  BY <1>1, <1>4
<1> QED
  BY <1>5 DEF above, from

\* A set T lacks of S only members that have m members of S above them: then every
\* number that has m members of S above it has as many of T.  The greatest member
\* of S above it that T lacks has its m members in T.
LEMMA Supersede ==
    ASSUME NEW n \in Nat, NEW m \in Nat, NEW S \in SUBSET (1 .. n), NEW T \in SUBSET (1 .. n),
           \A j \in S : j \in T \/ Cardinality({k \in S : k > j}) >= m,
           NEW i \in 1 .. n, Cardinality({k \in S : k > i}) >= m
    PROVE  Cardinality({k \in T : k > i}) >= m
<1> DEFINE Above(U, j) == {k \in U : k > j}
           D == {j \in Above(S, i) : j \notin T}
<1>1. \A U \in SUBSET (1 .. n), j \in 1 .. n :
         Above(U, j) \in SUBSET (1 .. n) /\ Cardinality(Above(U, j)) \in Nat
  BY Subsets
<1>2. CASE D = {}
  <2>1. Above(S, i) \in SUBSET Above(T, i)
    BY <1>2
  <2>2. Above(T, i) \in SUBSET (1 .. n)
    OBVIOUS
  <2>3. Cardinality(Above(S, i)) <= Cardinality(Above(T, i))
    <3> HIDE DEF Above
    <3> QED BY <2>1, <2>2, Parts
  <2>4. Cardinality(Above(S, i)) >= m
    OBVIOUS
  <2>5. Cardinality(Above(S, i)) \in Nat /\ Cardinality(Above(T, i)) \in Nat
    BY <1>1
  <2>6. Cardinality(Above(T, i)) >= m
    <3> HIDE DEF Above
    <3> QED BY <2>3, <2>4, <2>5
  <2> QED BY <2>6
<1>3. CASE D # {}
  <2>1. D \in SUBSET (0 .. n)
    <3>1. D \subseteq S /\ 1 .. n \subseteq 0 .. n
      OBVIOUS
    <3> HIDE DEF D
    <3> QED BY <3>1
  <2>2. PICK d \in D : \A k \in D : k <= d
    <3> HIDE DEF D
    <3> QED BY <1>3, <2>1, Greatest
  <2>3. d \in S /\ d \notin T /\ d > i /\ d \in 1 .. n
    OBVIOUS
  <2>4. Cardinality(Above(S, d)) >= m
    BY <2>3
  <2>5. Above(S, d) \in SUBSET Above(T, i)
    <3> SUFFICES ASSUME NEW k \in S, k > d
                 PROVE  k \in T /\ k > i
      OBVIOUS
    <3>1. k > i
      <4>1. k \in 1 .. n
        OBVIOUS
      <4> HIDE DEF D
      <4> QED BY <2>3, <4>1
    <3>2. k \notin D
      <4>1. k \in Int /\ d \in Int
        BY <2>3
      <4> HIDE DEF D
      <4> QED BY <2>2, <4>1
    <3> QED BY <3>1, <3>2
  <2>6. Above(T, i) \in SUBSET (1 .. n)
    OBVIOUS
  <2>7. Cardinality(Above(S, d)) <= Cardinality(Above(T, i))
    <3> HIDE DEF Above
    <3> QED BY <2>5, <2>6, Parts
  <2>8. Cardinality(Above(S, d)) \in Nat /\ Cardinality(Above(T, i)) \in Nat
    BY <1>1, <2>3
  <2>9. Cardinality(Above(T, i)) >= m
    <3> HIDE DEF Above
    <3> QED BY <2>4, <2>7, <2>8
  <2> QED BY <2>9
<1> QED
  BY <1>2, <1>3

\* The counts of the two models are those of FiniteSets.
LEMMA RetentionCardinality ==
    ASSUME NEW S PROVE Cardinality(S) = Cardinality(S)
  BY DEF Cardinality, Cardinality

\* The same for Backups.
LEMMA BackupsCardinality ==
    ASSUME NEW S PROVE Cardinality(S) = Cardinality(S)
  BY DEF Cardinality, Cardinality

-----------------------------------------------------------------------------
(***************************************************************************)
(* Alerts: rows for messages, one collector, two backups.                  *)
(***************************************************************************)

\* Where the collection is.
Position ==
    /\ pc \in {"checking", "inserting"} => check \in DOMAIN Checks
    /\ pc = "resolving" => check = Len(Checks) + 1

\* The message that is about to be inserted has no row.
Selected == pc = "inserting" => message \in Signals \cap raised /\ rows[message] = 0

\* The checks whose message is on the list already, unless their read failed.
Behind(k) == k < check \/ (pc = "inserting" /\ k = check)
Looked ==
    pc \in {"checking", "inserting", "resolving"} =>
        \A m \in Signals \ gone :
            \E k \in DOMAIN Checks :
                world[k] = m /\ (Behind(k) => m \in raised \/ k \in blind)

\* A check that could not look has said so, if it says anything.
Excused == \A k \in blind : Blind[k] \in raised \cup {"fine"}

Inserts(b) == IF backup[b] THEN 1 ELSE 0
Pending == rows[Locked] + Inserts("loop") + Inserts("manual") <= 2
Single == \A m \in Messages \ {Locked} : rows[m] <= 1

Inv == TypeOK /\ Position /\ Selected /\ Looked /\ Excused /\ Pending /\ Single

-----------------------------------------------------------------------------
\* The messages and the rows, as the collector's variables name them.
LEMMA Constants ==
    /\ DOMAIN Checks = 1 .. Len(Checks) /\ Len(Checks) \in Nat \ {0}
    /\ \A k \in DOMAIN Checks : Checks[k] \subseteq Signals
    /\ \A k \in DOMAIN Checks : Blind[k] \in Signals \cup {"fine"}
    /\ Signals \subseteq Messages /\ Locked \in Messages /\ Reconciliations \subseteq Messages
    /\ Locked \notin Signals /\ "fine" \notin Signals /\ Locked \notin Reconciliations
<1>1. DOMAIN Checks = 1 .. Len(Checks) /\ Len(Checks) \in Nat \ {0}
  BY ChecksAssumption
<1>2. \A k \in DOMAIN Checks : Checks[k] \subseteq Signals /\ Blind[k] \in Signals \cup {"fine"}
  BY DEF Signals
<1>3. "fine" \notin Signals
  BY MessagesAssumption DEF Signals
<1> QED
  BY <1>1, <1>2, <1>3, MessagesAssumption DEF Messages

\* A fresh database has no alerts.
LEMMA InitInv == Init => Inv
<1> SUFFICES ASSUME Init PROVE Inv
  OBVIOUS
<1>1. TypeOK
  BY Constants, BoundsAssumption DEF Init, TypeOK
<1>2. Position /\ Selected /\ Looked /\ Excused
  BY DEF Init, Position, Selected, Looked, Excused
<1>3. Pending /\ Single
  BY Constants DEF Init, Pending, Inserts, Single, Backups
<1> QED
  BY <1>1, <1>2, <1>3 DEF Inv

\* Past a check: to the next one, or to the resolution.
LEMMA AdvanceInv ==
    ASSUME Inv, pc \in {"checking", "inserting"}, Advance
    PROVE  /\ pc' \in {"checking", "resolving"} /\ check' = check + 1
           /\ check' \in 1 .. Len(Checks) + 1
           /\ Position'
<1>1. check \in 1 .. Len(Checks) /\ Len(Checks) \in Nat
  BY Constants DEF Inv, Position
<1>2. CASE check = Len(Checks)
  <2>1. pc' = "resolving" /\ check' = Len(Checks) + 1
    BY <1>2 DEF Advance
  <2> QED
    BY <1>1, <1>2, <2>1 DEF Position
<1>3. CASE check # Len(Checks)
  <2>1. pc' = "checking" /\ check' = check + 1
    BY <1>3 DEF Advance
  <2>2. check' \in 1 .. Len(Checks)
    BY <1>1, <1>3, <2>1
  <2> QED
    BY <2>1, <2>2, <1>1, Constants DEF Position
<1> QED
  BY <1>2, <1>3

\* runCollection begins with an empty list, and nothing has been true for less
\* than the whole of it so far.
LEMMA BeginCollectionInv ==
    ASSUME Inv, BeginCollection
    PROVE  Inv'
<1>1. pc' = "checking" /\ check' = 1 /\ gone' = {m \in Signals : ~Holds(m)} /\ blind' = {}
      /\ UNCHANGED <<world, rows, backup>>
  BY DEF BeginCollection
<1>2. TypeOK'
  BY Constants DEF Inv, TypeOK, BeginCollection, bounds
<1>3. Position' /\ Selected'
  BY <1>1, Constants DEF Position, Selected
<1>4. Looked' /\ Excused'
  BY <1>1, Constants DEF Looked, Behind, Holds, Excused
<1>5. Pending' /\ Single'
  BY <1>1 DEF Inv, Pending, Inserts, Single
<1> QED
  BY <1>2, <1>3, <1>4, <1>5 DEF Inv

\* A check puts what it has seen on the list, and looks for its row.
LEMMA RaiseInv ==
    ASSUME Inv, pc = "checking", NEW m \in Signals \cup {"fine"}, Raise(m),
           \/ m = world[check] /\ blind' = blind
           \/ m = Blind[check] /\ blind' = blind \cup {check},
           errors' \in 0 .. MaxErrors, crashes' = crashes,
           UNCHANGED <<world, rows, cache, gone, locked, backup>>
    PROVE  Inv'
<1>1. /\ check \in DOMAIN Checks
      /\ message' = m /\ raised' = raised \cup ({m} \ {"fine"})
  BY DEF Inv, Position, Raise
<1>2. \A n \in Signals \ gone :
         \E k \in DOMAIN Checks : world[k] = n /\ (k < check => n \in raised \/ k \in blind)
  BY DEF Inv, Looked, Behind
<1>3. \A n \in Signals \ gone :
         \E k \in DOMAIN Checks :
            world[k] = n /\ (k < check \/ k = check => n \in raised' \/ k \in blind')
  <2> SUFFICES ASSUME NEW n \in Signals \ gone
               PROVE  \E k \in DOMAIN Checks :
                         world[k] = n /\ (k < check \/ k = check => n \in raised' \/ k \in blind')
    OBVIOUS
  <2>1. PICK k \in DOMAIN Checks : world[k] = n /\ (k < check => n \in raised \/ k \in blind)
    BY <1>2
  <2>2. k = check => n \in raised' \/ k \in blind'
    BY <1>1, <2>1, Constants
  <2> QED BY <1>1, <2>1, <2>2
<1>4. Excused'
  BY <1>1 DEF Inv, Excused
<1>5. Pending' /\ Single'
  BY DEF Inv, Pending, Inserts, Single
<1>6. blind' \subseteq DOMAIN Checks /\ raised' \subseteq Signals
  BY <1>1 DEF Inv, TypeOK
<1>7. CASE m \in {"fine"} \cup Active
  <2>1. Advance
    BY <1>7 DEF Raise
  <2>2. pc' \in {"checking", "resolving"} /\ check' = check + 1
        /\ check' \in 1 .. Len(Checks) + 1 /\ Position'
    BY <2>1, AdvanceInv
  <2>3. TypeOK'
    BY <1>1, <1>6, <2>2 DEF Inv, TypeOK
  <2>4. Selected'
    BY <2>2 DEF Selected
  <2>5. \A k \in DOMAIN Checks : k < check + 1 => k < check \/ k = check
    BY <1>1, Constants
  <2>6. Looked'
    BY <1>3, <2>2, <2>5 DEF Looked, Behind
  <2> QED
    BY <1>4, <1>5, <2>2, <2>3, <2>4, <2>6 DEF Inv
<1>8. CASE m \notin {"fine"} \cup Active
  <2>1. pc' = "inserting" /\ check' = check
    BY <1>8 DEF Raise
  <2>2. TypeOK' /\ Position'
    BY <1>1, <1>6, <2>1 DEF Inv, TypeOK, Position
  <2>3. m \in Signals /\ rows[m] = 0
    BY <1>8, Constants DEF Active, Inv, TypeOK
  <2>4. Selected'
    BY <1>1, <2>3, <1>8 DEF Selected
  <2>5. Looked'
    BY <1>3, <2>1 DEF Looked, Behind
  <2> QED
    BY <1>4, <1>5, <2>2, <2>4, <2>5 DEF Inv
<1> QED
  BY <1>7, <1>8

\* A check sees what is wrong, or cannot look.
LEMMA CheckInv ==
    ASSUME Inv, Check
    PROVE  Inv'
<1>1. /\ pc = "checking" /\ check \in DOMAIN Checks
      /\ UNCHANGED <<world, rows, cache, gone, locked, backup>>
  BY DEF Inv, Position, Check
<1>2. CASE Raise(world[check]) /\ UNCHANGED <<blind, bounds>>
  <2>1. /\ world[check] \in Signals \cup {"fine"}
        /\ errors' \in 0 .. MaxErrors /\ crashes' = crashes /\ blind' = blind
    BY <1>1, <1>2 DEF Inv, TypeOK, bounds
  <2> QED BY <1>1, <1>2, <2>1, RaiseInv
<1>3. CASE Raise(Blind[check]) /\ blind' = blind \cup {check} /\ MayFail
  <2>1. /\ Blind[check] \in Signals \cup {"fine"}
        /\ errors' \in 0 .. MaxErrors /\ crashes' = crashes
    BY <1>1, <1>3, Constants, BoundsAssumption DEF Inv, TypeOK, MayFail
  <2> QED BY <1>1, <1>3, <2>1, RaiseInv
<1> QED
  BY <1>2, <1>3 DEF Check

\* The INSERT makes the first row of the message, or fails.
LEMMA InsertAlertInv ==
    ASSUME Inv, InsertAlert
    PROVE  Inv'
<1>1. /\ pc = "inserting" /\ check \in DOMAIN Checks /\ Advance
      /\ message \in Signals /\ message \in raised /\ rows[message] = 0
      /\ UNCHANGED <<world, cache, message, raised, gone, blind, locked, backup>>
  BY DEF Inv, Position, Selected, InsertAlert, noted
<1>2. pc' \in {"checking", "resolving"} /\ check' = check + 1
      /\ check' \in 1 .. Len(Checks) + 1 /\ Position'
  BY <1>1, AdvanceInv
<1>3. rows' = [rows EXCEPT ![message] = 1] \/ rows' = rows
  BY <1>1, Constants DEF InsertAlert, Inserted, Inv, TypeOK
<1>4. errors' \in 0 .. MaxErrors /\ crashes' = crashes
  BY BoundsAssumption DEF InsertAlert, MayFail, bounds, Inv, TypeOK
<1>5. TypeOK'
  BY <1>1, <1>2, <1>3, <1>4, Constants DEF Inv, TypeOK
<1>6. Selected'
  BY <1>2 DEF Selected
<1>7. \A n \in Signals \ gone :
         \E k \in DOMAIN Checks :
            world[k] = n /\ (k < check \/ k = check => n \in raised \/ k \in blind)
  BY <1>1 DEF Inv, Looked, Behind
<1>8. \A k \in DOMAIN Checks : k < check + 1 => k < check \/ k = check
  BY <1>1, Constants
<1>9. Looked' /\ Excused'
  BY <1>1, <1>2, <1>7, <1>8 DEF Inv, Looked, Behind, Excused
<1>10. message # Locked
  BY <1>1, Constants
<1>11. rows'[Locked] = rows[Locked]
  BY <1>3, <1>10, Constants DEF Inv, TypeOK
<1>12. Pending'
  BY <1>1, <1>11 DEF Inv, Pending, Inserts
<1>13. Single'
  BY <1>3, Constants DEF Inv, TypeOK, Single
<1> QED
  BY <1>2, <1>5, <1>6, <1>9, <1>12, <1>13 DEF Inv

\* Resolving takes rows away.
LEMMA ResolveInv ==
    ASSUME Inv, ResolveAllAlertsExcept
    PROVE  Inv'
<1>1. /\ pc' = "caching"
      /\ UNCHANGED <<world, cache, check, message, raised, gone, blind, locked, backup>>
  BY DEF ResolveAllAlertsExcept, noted
<1>2. rows' = [m \in Messages |-> IF m \in raised THEN rows[m] ELSE 0] \/ rows' = rows
  BY DEF ResolveAllAlertsExcept
<1>3. errors' \in 0 .. MaxErrors /\ crashes' = crashes
  BY BoundsAssumption DEF ResolveAllAlertsExcept, MayFail, bounds, Inv, TypeOK
<1>4. TypeOK'
  BY <1>1, <1>2, <1>3 DEF Inv, TypeOK
<1>5. Position' /\ Selected' /\ Looked' /\ Excused'
  BY <1>1 DEF Inv, Position, Selected, Looked, Excused
<1>6. \A m \in Messages : rows'[m] \in Nat /\ rows'[m] <= rows[m]
  BY <1>2 DEF Inv, TypeOK
<1>7. rows[Locked] \in Nat /\ rows'[Locked] \in Nat /\ rows'[Locked] <= rows[Locked]
  BY <1>6, Constants DEF Inv, TypeOK
<1>8. Pending'
  BY <1>1, <1>7 DEF Inv, Pending, Inserts
<1>9. Single'
  BY <1>6 DEF Inv, TypeOK, Single
<1> QED
  BY <1>4, <1>5, <1>8, <1>9 DEF Inv

\* The cache is a copy of the rows.
LEMMA CacheAlertsInv ==
    ASSUME Inv, CacheAlerts
    PROVE  Inv'
<1>1. /\ pc' = "idle" /\ cache' \in {{}, Active}
      /\ UNCHANGED <<world, rows, check, message, raised, gone, blind, locked, backup>>
  BY DEF CacheAlerts, noted
<1>2. errors' \in 0 .. MaxErrors /\ crashes' = crashes
  BY BoundsAssumption DEF CacheAlerts, MayFail, bounds, Inv, TypeOK
<1>3. TypeOK'
  BY <1>1, <1>2 DEF Inv, TypeOK, Active
<1>4. Position' /\ Selected' /\ Looked' /\ Excused'
  BY <1>1 DEF Inv, Position, Selected, Looked, Excused
<1>5. Pending' /\ Single'
  BY <1>1 DEF Inv, Pending, Inserts, Single
<1> QED
  BY <1>3, <1>4, <1>5 DEF Inv

\* The alerts of the reconciliation are raised before the first collection.
LEMMA StartQueueInv ==
    ASSUME Inv, StartQueue
    PROVE  Inv'
<1>1. /\ pc' = "idle"
      /\ UNCHANGED <<world, cache, check, message, raised, gone, blind, locked, backup, errors,
                     crashes>>
  BY DEF StartQueue, bounds, noted
<1>2. PICK S \in SUBSET (Reconciliations \ Active) :
         rows' = [m \in Messages |-> rows[m] + (IF m \in S THEN 1 ELSE 0)]
  BY DEF StartQueue
<1>8. \A m \in S : m \in Messages /\ rows[m] = 0 /\ m # Locked
  BY Constants DEF Active, Inv, TypeOK
<1>3. TypeOK'
  <2>1. rows' \in [Messages -> Nat]
    BY <1>2 DEF Inv, TypeOK
  <2> QED BY <1>1, <2>1 DEF Inv, TypeOK
<1>4. Position' /\ Selected' /\ Looked' /\ Excused'
  BY <1>1 DEF Inv, Position, Selected, Looked, Excused
<1>5. rows'[Locked] = rows[Locked]
  BY <1>2, <1>8, Constants DEF Inv, TypeOK
<1>6. Pending'
  BY <1>1, <1>5 DEF Inv, Pending, Inserts
<1>7. Single'
  BY <1>2, <1>8 DEF Inv, TypeOK, Single
<1> QED
  BY <1>3, <1>4, <1>6, <1>7 DEF Inv

\* Both backups may have seen no row; each of them inserts one.
LEMMA BackupLockedInv ==
    ASSUME Inv, NEW b \in Backups, BackupLocked(b)
    PROVE  Inv'
<1>1. /\ rows[Locked] = 0
      /\ backup' = [backup EXCEPT ![b] = TRUE]
      /\ UNCHANGED <<world, rows, cache, pc, check, message, raised, gone, blind, locked, errors,
                     crashes>>
  BY Constants DEF BackupLocked, Active, collector, noted, bounds, Inv, TypeOK
<1>2. TypeOK'
  BY <1>1 DEF Inv, TypeOK
<1>3. Position' /\ Selected' /\ Looked' /\ Excused' /\ Single'
  BY <1>1 DEF Inv, Position, Selected, Looked, Behind, Excused, Single
<1>4. Pending'
  BY <1>1 DEF Pending, Inserts
<1> QED
  BY <1>2, <1>3, <1>4 DEF Inv

\* The insert that was still to come becomes a row.
LEMMA BackupAlertInv ==
    ASSUME Inv, NEW b \in Backups, BackupAlert(b)
    PROVE  Inv'
<1>1. /\ backup[b] /\ backup' = [backup EXCEPT ![b] = FALSE]
      /\ rows' = [rows EXCEPT ![Locked] = @ + 1]
      /\ UNCHANGED <<world, cache, pc, check, message, raised, gone, blind, locked, errors,
                     crashes>>
  BY DEF BackupAlert, Inserted, collector, noted, bounds
<1>2. TypeOK'
  BY <1>1, Constants DEF Inv, TypeOK
<1>3. \A m \in Messages \ {Locked} : rows'[m] = rows[m]
  BY <1>1 DEF Inv, TypeOK
<1>4. Position' /\ Looked' /\ Excused' /\ Single'
  BY <1>1, <1>3 DEF Inv, Position, Looked, Behind, Excused, Single
<1>5. Selected'
  BY <1>1, <1>3, Constants DEF Inv, Selected
<1>6. rows[Locked] \in Nat /\ rows'[Locked] = rows[Locked] + 1
  BY <1>1, Constants DEF Inv, TypeOK
<1>7. b \in {"loop", "manual"} /\ backup \in [{"loop", "manual"} -> BOOLEAN]
  BY DEF Backups, Inv, TypeOK
<1>8. Pending'
  BY <1>1, <1>6, <1>7 DEF Inv, Pending, Inserts
<1> QED
  BY <1>2, <1>4, <1>5, <1>8 DEF Inv

\* What changes while a collection goes on was not true all through it.
LEMMA WorldChangesInv ==
    ASSUME Inv, NEW k \in DOMAIN Checks, WorldChanges(k)
    PROVE  Inv'
<1>1. PICK m \in Checks[k] \cup {"fine"} : world' = [world EXCEPT ![k] = m]
  BY DEF WorldChanges
<1>2. /\ gone' = IF pc = "idle" THEN gone ELSE gone \cup ({world[k]} \ {"fine"})
      /\ UNCHANGED <<rows, cache, pc, check, message, raised, blind, locked, backup, errors,
                     crashes>>
  BY DEF WorldChanges, collector, bounds
<1>3. m \in Signals \cup {"fine"} /\ world[k] \in Signals \cup {"fine"}
  BY Constants DEF Inv, TypeOK
<1>4. TypeOK'
  <2>1. /\ world' \in [DOMAIN Checks -> Signals \cup {"fine"}]
        /\ \A j \in DOMAIN Checks : world'[j] \in Checks[j] \cup {"fine"}
    BY <1>1, <1>3 DEF Inv, TypeOK
  <2>2. gone' \subseteq Signals
    BY <1>2, <1>3 DEF Inv, TypeOK
  <2> QED
    BY <1>2, <2>1, <2>2 DEF Inv, TypeOK
<1>5. Position' /\ Selected' /\ Excused' /\ Pending' /\ Single'
  BY <1>2 DEF Inv, Position, Selected, Excused, Pending, Inserts, Single
<1>6. Looked'
  <2> SUFFICES ASSUME pc \in {"checking", "inserting", "resolving"}, NEW n \in Signals \ gone'
               PROVE  \E j \in DOMAIN Checks :
                         world'[j] = n /\ (Behind(j)' => n \in raised \/ j \in blind)
    BY <1>2 DEF Looked
  <2>1. n \notin gone /\ n # world[k]
    BY <1>2, Constants
  <2>2. PICK j \in DOMAIN Checks : world[j] = n /\ (Behind(j) => n \in raised \/ j \in blind)
    BY <2>1 DEF Inv, Looked
  <2>3. world'[j] = n
    BY <1>1, <2>1, <2>2 DEF Inv, TypeOK
  <2> QED
    BY <1>2, <2>2, <2>3 DEF Behind
<1> QED
  BY <1>4, <1>5, <1>6 DEF Inv

\* What a crash and a change of the lock leave alone.
LEMMA OtherStepsInv ==
    ASSUME Inv, Crash \/ LockOrUnlock \/ UNCHANGED vars
    PROVE  Inv'
<1>1. CASE Crash
  <2>1. /\ pc' = "reconciling" /\ check' = 1 /\ message' = "fine" /\ raised' = {}
        /\ cache' = {} /\ gone' = {} /\ blind' = {} /\ locked' = TRUE
        /\ backup' = [b \in Backups |-> FALSE]
        /\ UNCHANGED <<world, rows, errors>>
    BY <1>1 DEF Crash
  <2>2. crashes' \in 0 .. MaxCrashes
    BY <1>1, BoundsAssumption DEF Crash, Inv, TypeOK
  <2>3. TypeOK'
    BY <2>1, <2>2, Constants DEF Inv, TypeOK
  <2>4. Position' /\ Selected' /\ Looked' /\ Excused' /\ Single'
    BY <2>1 DEF Inv, Position, Selected, Looked, Excused, Single
  <2>5. rows[Locked] \in Nat
    BY Constants DEF Inv, TypeOK
  <2>6. rows[Locked] <= 2
    BY <2>5 DEF Inv, Pending, Inserts
  <2>7. Pending'
    BY <2>1, <2>5, <2>6 DEF Pending, Inserts, Backups
  <2> QED
    BY <2>3, <2>4, <2>7 DEF Inv
<1>2. CASE LockOrUnlock \/ UNCHANGED vars
  <2>1. /\ UNCHANGED <<world, rows, cache, pc, check, message, raised, gone, blind, backup, errors,
                       crashes>>
        /\ locked' \in BOOLEAN
    BY <1>2 DEF LockOrUnlock, vars, collector, noted, bounds, Inv, TypeOK
  <2>2. TypeOK'
    BY <2>1 DEF Inv, TypeOK
  <2>3. Position' /\ Selected' /\ Looked' /\ Excused' /\ Pending' /\ Single'
    BY <2>1 DEF Inv, Position, Selected, Looked, Behind, Excused, Pending, Inserts, Single
  <2> QED
    BY <2>2, <2>3 DEF Inv
<1> QED
  BY <1>1, <1>2

\* Every step keeps the invariant.
LEMMA NextInv == Inv /\ [Next]_vars => Inv'
<1> SUFFICES ASSUME Inv, [Next]_vars PROVE Inv'
  OBVIOUS
<1>1. CASE RunCollection
  BY <1>1, BeginCollectionInv, CheckInv, InsertAlertInv, ResolveInv, CacheAlertsInv
     DEF RunCollection
<1>2. CASE StartQueue
  BY <1>2, StartQueueInv
<1>3. CASE \E b \in Backups : BackupLocked(b) \/ BackupAlert(b)
  BY <1>3, BackupLockedInv, BackupAlertInv
<1>4. CASE \E k \in DOMAIN Checks : WorldChanges(k)
  BY <1>4, WorldChangesInv
<1>5. CASE Crash \/ LockOrUnlock \/ UNCHANGED vars
  BY <1>5, OtherStepsInv
<1> QED
  BY <1>1, <1>2, <1>3, <1>4, <1>5 DEF Next

\* The inductive invariant holds in every reachable state.
THEOREM Invariance == Spec => []Inv
  BY InitInv, NextInv, PTL DEF Spec

\* A message of the collector has one unresolved row, and the backups' at most one
\* for each of them, although UpsertAlert selects and inserts in two statements and
\* nothing is locked between them.
THEOREM OneRowEach == Spec => []NoDuplicates
<1>1. Inv => NoDuplicates
  <2> SUFFICES ASSUME Inv PROVE NoDuplicates
    OBVIOUS
  <2>1. Cardinality(Backups) = 2
    <3>1. IsFiniteSet({"loop"}) /\ Cardinality({"loop"}) = 1
      BY FS_Singleton
    <3>2. Cardinality({"loop"} \cup {"manual"}) = 2
      BY <3>1, FS_AddElement
    <3>3. Backups = {"loop"} \cup {"manual"}
      BY DEF Backups
    <3> QED
      BY <3>2, <3>3
  <2>2. rows[Locked] <= 2
    BY Constants DEF Inv, TypeOK, Pending, Inserts
  <2> QED
    BY <2>1, <2>2 DEF Inv, Single, NoDuplicates
<1> QED
  BY <1>1, Invariance, PTL

\* A collection resolves one of its alerts (ResolveAllAlertsExcept) only if what it
\* is about was untrue at some time of that collection, however the world changes
\* while it runs, or if the check about it could not look in that collection.
THEOREM NotResolvedWhileTrue == Spec => ResolvedOnlyIfGone
<1>1. ASSUME Inv, [Next]_vars, NEW m \in Signals, rows[m] > 0, rows'[m] = 0
      PROVE  \/ m \in gone
             \/ \E k \in blind : m \in Checks[k] /\ Blind[k] \in raised \cup {"fine"}
  <2>1. m \in Messages /\ m # Locked
    BY Constants
  <2>2. ResolveAllAlertsExcept
    <3>1. CASE RunCollection
      <4>1. ~BeginCollection /\ ~Check /\ ~CacheAlerts
        BY <1>1 DEF BeginCollection, Check, CacheAlerts
      <4>2. ~InsertAlert
        BY <1>1, <2>1 DEF InsertAlert, Inserted, Inv, TypeOK
      <4> QED
        BY <3>1, <4>1, <4>2 DEF RunCollection
    <3>2. ~StartQueue
      BY <1>1, <2>1 DEF StartQueue, Inv, TypeOK
    <3>3. ASSUME NEW b \in Backups PROVE ~BackupLocked(b) /\ ~BackupAlert(b)
      BY <1>1, <2>1 DEF BackupLocked, BackupAlert, Inserted, Inv, TypeOK
    <3>4. ~(Crash \/ LockOrUnlock \/ UNCHANGED vars) /\ ~(\E k \in DOMAIN Checks : WorldChanges(k))
      BY <1>1 DEF Crash, LockOrUnlock, WorldChanges, vars
    <3> QED
      BY <1>1, <3>1, <3>2, <3>3, <3>4 DEF Next
  <2>3. m \notin raised /\ pc = "resolving" /\ check = Len(Checks) + 1
    BY <1>1, <2>1, <2>2 DEF ResolveAllAlertsExcept, Inv, Position
  <2>4. \A k \in DOMAIN Checks : Behind(k)
    BY <2>3, Constants DEF Behind
  <2> SUFFICES ASSUME m \notin gone
               PROVE  \E k \in blind : m \in Checks[k] /\ Blind[k] \in raised \cup {"fine"}
    OBVIOUS
  <2>5. PICK k \in DOMAIN Checks : world[k] = m /\ k \in blind
    BY <1>1, <2>3, <2>4 DEF Inv, Looked
  <2>6. m \in Checks[k]
    BY <1>1, <2>5, Constants DEF Inv, TypeOK
  <2> QED
    BY <1>1, <2>5, <2>6 DEF Inv, Excused
<1>2. Inv /\ [Next]_vars
      => [\A m \in Signals : rows[m] > 0 /\ rows'[m] = 0 =>
             \/ m \in gone
             \/ \E k \in blind : m \in Checks[k] /\ Blind[k] \in raised \cup {"fine"}]_vars
  BY <1>1
<1> QED
  BY <1>2, Invariance, PTL DEF Spec, ResolvedOnlyIfGone

-----------------------------------------------------------------------------
(***************************************************************************)
(* Retention: the list a runner has read stays good until it is used.      *)
(***************************************************************************)

\* What Retention assumes of its constants.
LEMMA RetentionConstants ==
    Retain \in Nat \ {0} /\ MaxRows \in Nat /\ MaxRetentionCrashes \in Nat
  BY RetainAssumption, RetentionBounds

\* Retain successful rows are newer than row i.
Enough(i) == Cardinality({j \in Successful : j > i}) >= Retain

Deployed == {p \in Successful : history[p].action = "deploy"}

\* The running row is the newest one.
Order ==
    /\ \A i \in Ids : Exists(i) => i <= inserted
    /\ \A i \in Running : ~history[i].old /\ \A j \in Ids : Exists(j) => j <= i

\* No image that is known has the number of the row that runs.
Past(x) == x <= inserted /\ (Running # {} => x < inserted)

Numbers ==
    /\ \A i \in Ids : Past(history[i].image)
    /\ Past(target)
    /\ \A r \in Runners : \A c \in todo[r] : Past(c.image)

\* The deploy of an image is the oldest row that names it.
Origins ==
    \A p \in Deployed : /\ history[p].image # 0
                        /\ \A j \in Ids : history[j].image = history[p].image => p <= j

\* The row with id i may be deleted, if there is one.
Spent(i) == Exists(i) => history[i].old /\ (i \in Successful => Enough(i))

\* Image x may be removed.
Unneeded(x) == \A p \in Deployed : history[p].image = x => Enough(p)

Chosen ==
    \A r \in Runners :
        /\ \A c \in todo[r] : Spent(c.id) /\ Unneeded(c.image)
        /\ \A i \in done[r] : Spent(i)

Present == \A p \in Deployed : ~Enough(p) => history[p].image \in images

\* What holds while no id has been given again that a runner has on its list.
RetentionInv == RetentionTypeOK /\ Order /\ Numbers /\ Origins /\ Chosen /\ Present

\* What holds whatever ids come back.
Started == inserted = 0 => \A i \in Ids : ~Exists(i)
RetentionIInv == RetentionTypeOK /\ Started /\ (~clash => RetentionInv)

\* The kept rows are the successful ones without Retain newer ones.
LEMMA KeptAre ==
    ASSUME RetentionTypeOK
    PROVE  Kept = {i \in Successful : ~Enough(i)}
<1>1. Successful \in SUBSET (1 .. MaxRows) /\ MaxRows \in Nat /\ Retain \in Nat
  BY RetentionConstants DEF Successful, Ids
<1>2. ASSUME NEW i \in Successful
      PROVE  Rank(i) <= Retain <=> ~Enough(i)
  <2> DEFINE c == Cardinality({j \in Successful : j > i})
  <2>1. Rank(i) = c + 1
    BY <1>1, RankOf, RetentionCardinality DEF Rank
  <2>2. c \in Nat
    <3>1. {j \in Successful : j > i} \in SUBSET (1 .. MaxRows)
      BY <1>1
    <3> QED BY <1>1, <3>1, Subsets
  <2>3. Enough(i) <=> c >= Retain
    BY DEF Enough
  <2> HIDE DEF c
  <2> QED BY <1>1, <2>1, <2>2, <2>3
<1> QED
  BY <1>2 DEF Kept

\* A step that takes only superseded rows away leaves superseded rows superseded.
LEMMA EnoughStays ==
    ASSUME \A j \in Successful : j \in Successful' \/ Enough(j),
           NEW i \in Ids, Enough(i)
    PROVE  Enough(i)'
<1>1. Successful \in SUBSET (1 .. MaxRows) /\ Successful' \in SUBSET (1 .. MaxRows)
  BY DEF Successful, Ids
<1>2. MaxRows \in Nat /\ Retain \in Nat /\ i \in 1 .. MaxRows
  BY RetentionConstants DEF Ids
<1>3. \A j \in Successful : j \in Successful' \/ Cardinality({k \in Successful : k > j}) >= Retain
  BY DEF Enough
<1>4. Cardinality({k \in Successful : k > i}) >= Retain
  BY DEF Enough
<1>5. Cardinality({k \in Successful' : k > i}) >= Retain
  BY <1>1, <1>2, <1>3, <1>4, Supersede
<1> QED
  BY <1>5 DEF Enough

-----------------------------------------------------------------------------
\* A step keeps the types.
LEMMA TypesStep ==
    ASSUME RetentionTypeOK, Started, [RetentionNext]_retentionVars
    PROVE  RetentionTypeOK'
<1> USE DEF RetentionTypeOK, table, docker, runner, timer
<1>1. /\ MaxRows \in Nat /\ MaxRetentionCrashes \in Nat
      /\ \A i \in Ids : history[i] \in Row \cup {NoRow}
      /\ \A i \in Running : i \in Ids /\ history[i] \in Row
  BY RetentionConstants DEF Running, NoRow
<1>2. ASSUME NEW i \in Running, NEW status \in {"successful", "failed"}, NEW image \in 0 .. MaxRows,
             Finish(i, status, image)
      PROVE  history' \in [Ids -> Row \cup {NoRow}]
  BY <1>1, <1>2 DEF Finish, Row
<1>3. ASSUME NEW action \in {"deploy", "rollback", "auto_rollback"}, BeginDeployment(action)
      PROVE  RetentionTypeOK'
  <2>1. [status |-> "running", action |-> action, image |-> 0, old |-> FALSE] \in Row
    BY <1>1 DEF Row
  <2>2. inserted' \in 0 .. MaxRows
    BY <1>1, <1>3 DEF BeginDeployment
  <2>3. clash' \in BOOLEAN
    BY <1>3 DEF BeginDeployment
  <2> QED BY <1>3, <2>1, <2>2, <2>3 DEF BeginDeployment
<1>4. ASSUME NEW i \in Ids, FinishDeploy(i)
      PROVE  RetentionTypeOK'
  <2>1. inserted \in Ids
    <3>1. inserted # 0
      BY <1>1, <1>4 DEF Started, FinishDeploy, Exists, Running, NoRow
    <3> QED BY <1>1, <3>1 DEF Ids
  <2>2. history' \in [Ids -> Row \cup {NoRow}]
    BY <1>1, <1>2, <1>4 DEF FinishDeploy
  <2>3. images' \subseteq Ids /\ running' \in 0 .. MaxRows
    BY <1>4, <2>1 DEF FinishDeploy
  <2> QED BY <1>4, <2>2, <2>3 DEF FinishDeploy
<1>5. ASSUME NEW i \in Ids, ResolveTarget(i)
      PROVE  RetentionTypeOK'
  <2>1. target' \in 0 .. MaxRows
    BY <1>1, <1>5 DEF ResolveTarget, Targets, Successful, Row, NoRow
  <2> QED BY <1>5, <2>1 DEF ResolveTarget
<1>6. ASSUME NEW i \in Ids, FinishRollback(i)
      PROVE  RetentionTypeOK'
  <2>1. history' \in [Ids -> Row \cup {NoRow}]
    BY <1>2, <1>6 DEF FinishRollback
  <2> QED BY <1>1, <1>6, <2>1 DEF FinishRollback
<1>7. ASSUME NEW i \in Ids, RollbackFails(i)
      PROVE  RetentionTypeOK'
  <2>1. history' \in [Ids -> Row \cup {NoRow}]
    BY <1>1, <1>2, <1>7 DEF RollbackFails
  <2> QED BY <1>7, <2>1 DEF RollbackFails
<1>8. ASSUME NEW i \in Ids, Age(i)
      PROVE  RetentionTypeOK'
  <2>1. history[i] \in Row
    BY <1>1, <1>8 DEF Age, Exists
  <2>2. [history[i] EXCEPT !.old = TRUE] \in Row
    BY <2>1 DEF Row
  <2> QED BY <1>8, <2>2 DEF Age
<1>9. ASSUME NEW r \in Runners, BeginRetention(r)
      PROVE  RetentionTypeOK'
  <2>1. \A i \in Ids : history[i].image \in 0 .. MaxRows
    BY <1>1 DEF Row, NoRow
  <2>2. \A i \in RetentionCandidates : Candidate(i) \in [id : Ids, image : 0 .. MaxRows]
    BY <1>1, <2>1 DEF RetentionCandidates, Candidate
  <2>3. {Candidate(i) : i \in RetentionCandidates} \subseteq [id : Ids, image : 0 .. MaxRows]
    BY <2>2
  <2> QED BY <1>9, <2>3 DEF BeginRetention
<1>10. ASSUME NEW r \in Runners, CleanCandidate(r)
       PROVE  RetentionTypeOK'
  BY <1>10 DEF CleanCandidate
<1>11. ASSUME NEW r \in Runners, DeleteDeployments(r)
       PROVE  RetentionTypeOK'
  BY <1>11 DEF DeleteDeployments
<1>12. CASE UpdateCleanupSchedule \/ IntervalPasses
  BY <1>12 DEF UpdateCleanupSchedule, IntervalPasses
<1>13. CASE RetentionCrash
  <2>1. \A i \in Running : [history[i] EXCEPT !.status = "failed"] \in Row
    BY <1>1 DEF Row
  <2>2. history' \in [Ids -> Row \cup {NoRow}]
    BY <1>1, <1>13, <2>1 DEF RetentionCrash
  <2> QED BY <1>1, <1>13, <2>2 DEF RetentionCrash
<1>14. CASE UNCHANGED retentionVars
  BY <1>14 DEF retentionVars
<1> QED
  BY <1>3, <1>4, <1>5, <1>6, <1>7, <1>8, <1>9, <1>10, <1>11, <1>12, <1>13, <1>14
     DEF RetentionNext, Deployment, RetentionStep, RetentionHandler, CleanupLoop

-----------------------------------------------------------------------------
\* What the rest of the invariant says of the next state.
Rest == Order /\ Numbers /\ Origins /\ Chosen /\ Present

\* An id that may be deleted stays so while its row stays as it is or goes.
LEMMA SpentStays ==
    ASSUME NEW i \in Ids, Spent(i),
           Exists(i)' => Exists(i) /\ history'[i] = history[i],
           \A j \in Successful : j \in Successful' \/ Enough(j)
    PROVE  Spent(i)'
<1>1. Exists(i)' => history'[i].old /\ (i \in Successful' => Enough(i)')
  <2> SUFFICES ASSUME Exists(i)'
               PROVE  history'[i].old /\ (i \in Successful' => Enough(i)')
    OBVIOUS
  <2>1. Exists(i) /\ history'[i] = history[i]
    OBVIOUS
  <2>2. history[i].old /\ (i \in Successful => Enough(i))
    BY <2>1 DEF Spent
  <2>3. i \in Successful' <=> i \in Successful
    BY <2>1 DEF Successful
  <2> QED BY <2>1, <2>2, <2>3, EnoughStays
<1> QED
  BY <1>1 DEF Spent

\* An image that may be removed stays so while no row is deployed under its number.
LEMMA UnneededStays ==
    ASSUME NEW x, Unneeded(x),
           \A p \in Deployed' : history'[p].image = x => p \in Deployed /\ history[p].image = x,
           \A j \in Successful : j \in Successful' \/ Enough(j)
    PROVE  Unneeded(x)'
<1> SUFFICES ASSUME NEW p \in Deployed', history'[p].image = x
             PROVE  Enough(p)'
  BY DEF Unneeded
<1>1. p \in Deployed /\ history[p].image = x
  OBVIOUS
<1>2. Enough(p) /\ p \in Ids
  BY <1>1 DEF Unneeded, Deployed, Successful
<1> QED
  BY <1>2, EnoughStays

\* The row that runs ends.
LEMMA FinishStep ==
    ASSUME RetentionInv, RetentionTypeOK', NEW i \in Running,
           NEW status \in {"successful", "failed"}, NEW image \in 0 .. MaxRows,
           Finish(i, status, image), inserted' = inserted, todo' = todo, done' = done,
           target' \in {0, target}, images \subseteq images',
           \/ /\ history[i].action = "deploy" /\ status = "successful"
              /\ image = inserted /\ image \in images'
           \/ ~(history[i].action = "deploy" /\ status = "successful") /\ Past(image)
    PROVE  Rest'
<1>1. /\ MaxRows \in Nat /\ inserted \in 0 .. MaxRows /\ i \in Ids
      /\ history \in [Ids -> Row \cup {NoRow}] /\ history[i] \in Row
  BY RetentionConstants DEF RetentionInv, RetentionTypeOK, Running, NoRow
<1>2. /\ history'[i].status = status /\ history'[i].image = image
      /\ history'[i].action = history[i].action /\ history'[i].old = history[i].old
      /\ \A j \in Ids : j # i => history'[j] = history[j]
  BY <1>1 DEF Finish, Row
<1>3. /\ history[i].status = "running" /\ ~history[i].old /\ \A j \in Ids : Exists(j) => j <= i
      /\ i <= inserted
  BY <1>1 DEF RetentionInv, Order, Running, Exists, NoRow
<1>4. Running' = {}
  <2> SUFFICES ASSUME NEW j \in Ids, history'[j].status = "running"
               PROVE  FALSE
    BY DEF Running
  <2>1. j # i /\ history[j].status = "running"
    BY <1>2
  <2>2. j \in Running /\ Exists(j) /\ Exists(i)
    BY <1>3, <2>1 DEF Running, Exists, NoRow
  <2>3. i <= j /\ j <= i
    BY <1>1, <1>3, <2>2 DEF RetentionInv, Order
  <2> QED BY <1>1, <2>1, <2>3 DEF Ids
<1>5. \A j \in Ids : Exists(j)' <=> Exists(j)
  BY <1>2, <1>3 DEF Exists, NoRow
<1>6. Order'
  BY <1>4, <1>5 DEF RetentionInv, Order, Ids
<1>7. image <= inserted /\ 0 <= inserted /\ target <= inserted
  BY <1>1 DEF RetentionInv, Numbers, Past
<1>8. \A j \in Ids : history'[j].image <= inserted
  BY <1>2, <1>7 DEF RetentionInv, Numbers, Past
<1>9. Numbers'
  BY <1>4, <1>7, <1>8 DEF RetentionInv, Numbers, Past
<1>10. \A j \in Successful : j \in Successful'
  BY <1>2, <1>3 DEF Successful
<1>11. \A p \in Deployed' : \/ p \in Deployed /\ p # i /\ history'[p] = history[p]
                            \/ p = i /\ image = inserted /\ image \in images' /\ history'[p].image = image
  BY <1>2, <1>3 DEF Deployed, Successful
<1>12. \A j \in Ids : history[j].image < inserted
  BY <1>1 DEF RetentionInv, Numbers, Past
<1>13. Origins'
  <2> SUFFICES ASSUME NEW p \in Deployed'
               PROVE  /\ history'[p].image # 0
                      /\ \A j \in Ids : history'[j].image = history'[p].image => p <= j
    BY DEF Origins
  <2>1. CASE p \in Deployed /\ p # i /\ history'[p] = history[p]
    <3>1. history[p].image # 0 /\ \A j \in Ids : history[j].image = history[p].image => p <= j
      BY <2>1 DEF RetentionInv, Origins
    <3>2. p <= i
      BY <1>3, <2>1 DEF Deployed, Successful, Exists, NoRow
    <3> QED BY <1>2, <2>1, <3>1, <3>2
  <2>2. CASE p = i /\ image = inserted /\ history'[p].image = image
    <3>1. inserted # 0 /\ i <= i
      BY <1>1, <1>3 DEF Ids
    <3>2. \A j \in Ids : j # i => history'[j].image # inserted
      BY <1>1, <1>2, <1>12 DEF Row, NoRow
    <3> QED BY <2>2, <3>1, <3>2
  <2> QED BY <1>11, <2>1, <2>2
<1>14. ASSUME NEW k \in Ids, Spent(k)
       PROVE  Spent(k)'
  <2>1. Exists(k)' => Exists(k) /\ history'[k] = history[k]
    BY <1>2, <1>3, <1>5, <1>14 DEF Spent
  <2> QED BY <1>10, <1>14, <2>1, SpentStays
<1>15. ASSUME NEW x, Unneeded(x), x < inserted, x \in Int
       PROVE  Unneeded(x)'
  <2>1. \A p \in Deployed' : history'[p].image = x => p \in Deployed /\ history[p].image = x
    BY <1>1, <1>11, <1>15
  <2> QED BY <1>10, <1>15, <2>1, UnneededStays
<1>16. Chosen'
  <2> SUFFICES ASSUME NEW r \in Runners
               PROVE  /\ \A c \in todo[r] : Spent(c.id)' /\ Unneeded(c.image)'
                      /\ \A k \in done[r] : Spent(k)'
    BY DEF Chosen
  <2>1. /\ \A c \in todo[r] : /\ c.id \in Ids /\ c.image \in 0 .. MaxRows
                              /\ Spent(c.id) /\ Unneeded(c.image) /\ Past(c.image)
        /\ \A k \in done[r] : k \in Ids /\ Spent(k)
    BY DEF RetentionInv, RetentionTypeOK, Chosen, Numbers
  <2>2. \A c \in todo[r] : c.image < inserted /\ c.image \in Int
    BY <2>1 DEF Past
  <2> QED BY <1>14, <1>15, <2>1, <2>2
<1>17. Present'
  <2> SUFFICES ASSUME NEW p \in Deployed', ~Enough(p)'
               PROVE  history'[p].image \in images'
    BY DEF Present
  <2>1. CASE p \in Deployed /\ history'[p] = history[p]
    <3>1. ~Enough(p)
      BY <1>10, <2>1, EnoughStays DEF Deployed, Successful
    <3> QED BY <2>1, <3>1 DEF RetentionInv, Present
  <2> QED BY <1>11, <2>1
<1> QED
  BY <1>6, <1>9, <1>13, <1>16, <1>17 DEF Rest

\* A row is queued.
LEMMA BeginStep ==
    ASSUME RetentionInv, RetentionTypeOK',
           NEW action \in {"deploy", "rollback", "auto_rollback"}, BeginDeployment(action),
           ~clash'
    PROVE  Rest'
<1> DEFINE new == [status |-> "running", action |-> action, image |-> 0, old |-> FALSE]
<1>1. /\ MaxRows \in Nat /\ inserted \in Nat /\ inserted' = inserted + 1
      /\ history \in [Ids -> Row \cup {NoRow}] /\ inserted + 1 <= MaxRows /\ Running = {}
  BY RetentionConstants DEF RetentionInv, RetentionTypeOK, BeginDeployment
<1>4. PICK n \in NextIds :
         history' = [history EXCEPT ![n] = new] /\ \A r \in Runners : n \notin Listed(r)
  BY DEF BeginDeployment
<1>2. n \in 1 .. inserted + 1 /\ \A j \in Ids : Exists(j) => j < n
  BY DEF NextIds
<1>3. n \in Ids
  BY <1>1, <1>2 DEF Ids
<1>5. todo' = todo /\ done' = done /\ target' = target /\ images' = images
  BY DEF BeginDeployment, runner, docker
<1>6. history[n] = NoRow /\ history'[n] = new /\ \A j \in Ids : j # n => history'[j] = history[j]
  <2>1. ~Exists(n)
    BY <1>2, <1>3 DEF Ids
  <2> QED BY <1>1, <1>3, <1>4, <2>1 DEF Exists
<1>7. Running' = {n}
  BY <1>1, <1>3, <1>6 DEF Running
<1>8. Successful' = Successful /\ Deployed' = Deployed
  BY <1>6 DEF Successful, Deployed, NoRow
<1>9. \A j \in Ids : Exists(j)' <=> Exists(j) \/ j = n
  BY <1>6 DEF Exists, NoRow
<1>10. Order'
  <2>1. \A j \in Ids : Exists(j)' => j <= inserted + 1 /\ j <= n
    BY <1>1, <1>2, <1>9 DEF RetentionInv, Order, Ids
  <2> QED BY <1>1, <1>6, <1>7, <2>1 DEF Order
<1>11. \A j \in Ids : history'[j].image \in {0, history[j].image}
  BY <1>6
<1>12. Numbers'
  <2>1. \A j \in Ids : history[j].image \in 0 .. MaxRows /\ history[j].image <= inserted
    BY <1>1 DEF RetentionInv, Numbers, Past, Row, NoRow
  <2>2. target \in 0 .. MaxRows /\ target <= inserted
    BY DEF RetentionInv, RetentionTypeOK, Numbers, Past
  <2>3. \A r \in Runners : \A c \in todo[r] : c.image \in 0 .. MaxRows /\ c.image <= inserted
    BY DEF RetentionInv, RetentionTypeOK, Numbers, Past
  <2> QED BY <1>1, <1>5, <1>11, <2>1, <2>2, <2>3 DEF Numbers, Past
<1>13. \A p \in Deployed : history'[p] = history[p] /\ p \in Ids
  BY <1>6 DEF Deployed, Successful, NoRow
<1>14. Origins'
  BY <1>8, <1>11, <1>13 DEF RetentionInv, Origins
<1>15. ASSUME NEW i \in Ids, Spent(i), i # n
       PROVE  Spent(i)'
  BY <1>6, <1>8, <1>9, <1>15, SpentStays
<1>16. ASSUME NEW x, Unneeded(x)
       PROVE  Unneeded(x)'
  BY <1>8, <1>13, <1>16, UnneededStays
<1>17. Chosen'
  <2> SUFFICES ASSUME NEW r \in Runners
               PROVE  /\ \A c \in todo[r] : Spent(c.id)' /\ Unneeded(c.image)'
                      /\ \A k \in done[r] : Spent(k)'
    BY <1>5 DEF Chosen
  <2>1. /\ \A c \in todo[r] : c.id \in Ids /\ Spent(c.id) /\ Unneeded(c.image) /\ c.id # n
        /\ \A k \in done[r] : k \in Ids /\ Spent(k) /\ k # n
    BY <1>4 DEF RetentionInv, RetentionTypeOK, Chosen, Listed
  <2> QED BY <1>15, <1>16, <2>1
<1>18. Present'
  BY <1>5, <1>8, <1>13 DEF RetentionInv, Present, Enough
<1> QED
  BY <1>10, <1>12, <1>14, <1>17, <1>18 DEF Rest

\* Rows at most grow old, and a target is looked up.
LEMMA QuietStep ==
    ASSUME RetentionInv, RetentionTypeOK',
           \A j \in Ids : /\ history'[j].status = history[j].status
                          /\ history'[j].action = history[j].action
                          /\ history'[j].image = history[j].image
                          /\ history'[j].old = history[j].old \/ (j \notin Running /\ ~history[j].old)
                          /\ history'[j].old = history[j].old => history'[j] = history[j]
                          /\ Exists(j)' <=> Exists(j),
           inserted' = inserted, images' = images, todo' = todo, done' = done,
           target' = target \/ \E j \in Ids : target' = history[j].image
    PROVE  Rest'
<1>1. Successful' = Successful /\ Deployed' = Deployed /\ Running' = Running
  BY DEF Successful, Deployed, Running
<1>2. Order'
  BY <1>1 DEF RetentionInv, Order, Running
<1>3. Numbers'
  <2>1. target' <= inserted /\ (Running # {} => target' < inserted)
    BY DEF RetentionInv, Numbers, Past
  <2> QED BY <1>1, <2>1 DEF RetentionInv, Numbers, Past
<1>4. Origins'
  <2>1. \A p \in Deployed : p \in Ids
    BY DEF Deployed, Successful
  <2> QED BY <1>1, <2>1 DEF RetentionInv, Origins
<1>5. ASSUME NEW i \in Ids, Spent(i)
      PROVE  Spent(i)'
  <2>1. Exists(i)' => Exists(i) /\ history'[i] = history[i]
    BY <1>5 DEF Spent
  <2> QED BY <1>1, <1>5, <2>1, SpentStays
<1>6. ASSUME NEW x, Unneeded(x)
      PROVE  Unneeded(x)'
  <2>1. \A p \in Deployed' : history'[p].image = x => p \in Deployed /\ history[p].image = x
    BY <1>1 DEF Deployed, Successful
  <2> QED BY <1>1, <1>6, <2>1, UnneededStays
<1>7. Chosen'
  BY <1>5, <1>6 DEF RetentionInv, RetentionTypeOK, Chosen
<1>8. Present'
  <2>1. \A p \in Deployed : p \in Ids /\ (Enough(p)' <=> Enough(p))
    BY <1>1 DEF Deployed, Successful, Enough
  <2> QED BY <1>1, <2>1 DEF RetentionInv, Present
<1> QED
  BY <1>2, <1>3, <1>4, <1>7, <1>8 DEF Rest

\* A runner reads its candidates: what a candidate's row names was deployed by that
\* row or an older one, which has as many newer ones.
LEMMA CandidatesStep ==
    ASSUME RetentionInv, RetentionTypeOK', NEW r \in Runners, BeginRetention(r)
    PROVE  Rest'
<1>1. /\ UNCHANGED <<history, inserted, images, target>>
      /\ todo \in [Runners -> SUBSET [id : Ids, image : 0 .. MaxRows]]
      /\ done \in [Runners -> SUBSET Ids]
      /\ todo' = [todo EXCEPT ![r] = {Candidate(i) : i \in RetentionCandidates}]
      /\ done' = [done EXCEPT ![r] = {}]
  BY DEF RetentionInv, RetentionTypeOK, BeginRetention, table, docker
<1>2. /\ Successful' = Successful /\ Deployed' = Deployed /\ Running' = Running
      /\ \A i : Spent(i)' <=> Spent(i)
      /\ \A x : Unneeded(x)' <=> Unneeded(x)
      /\ \A x : Past(x)' <=> Past(x)
  BY <1>1 DEF Successful, Deployed, Running, Spent, Unneeded, Past, Exists, Enough
<1>3. Order' /\ Origins' /\ Present'
  BY <1>1, <1>2 DEF RetentionInv, Order, Origins, Present, Exists, Enough
<1>4. ASSUME NEW i \in RetentionCandidates
      PROVE  /\ Spent(i) /\ Candidate(i).id = i
             /\ Unneeded(Candidate(i).image) /\ Past(Candidate(i).image)
  <2>1. i \in Ids /\ history[i].old /\ Exists(i) /\ i <= inserted
    BY DEF RetentionCandidates, Exists, NoRow, RetentionInv, Order
  <2>2. i \in Successful => Enough(i)
    BY KeptAre DEF RetentionCandidates, RetentionInv
  <2>3. Spent(i)
    BY <2>1, <2>2 DEF Spent
  <2>4. /\ Candidate(i).image = (IF i \in Successful THEN history[i].image ELSE 0)
        /\ Candidate(i).id = i
    BY DEF Candidate
  <2>5. Past(Candidate(i).image)
    <3>1. Past(0)
      <4>1. inserted \in 0 .. MaxRows
        BY DEF RetentionInv, RetentionTypeOK
      <4>2. \A j \in Running : j \in Ids /\ Exists(j)
        BY DEF Running, Exists, NoRow
      <4>3. \A j \in Running : 1 <= j /\ j <= inserted /\ j \in Int
        BY <4>2 DEF RetentionInv, Order, Ids
      <4> QED BY <4>1, <4>3 DEF Past
    <3> QED BY <2>1, <2>4, <3>1 DEF RetentionInv, Numbers
  <2>6. Unneeded(Candidate(i).image)
    <3> SUFFICES ASSUME NEW p \in Deployed, history[p].image = Candidate(i).image
                 PROVE  Enough(p)
      BY DEF Unneeded
    <3>1. history[p].image # 0 /\ p \in Ids
      BY DEF RetentionInv, Origins, Deployed, Successful
    <3>2. i \in Successful /\ history[i].image = history[p].image
      BY <2>4, <3>1
    <3>3. p <= i
      BY <2>1, <3>2 DEF RetentionInv, Origins
    <3> DEFINE older == {j \in Successful : j > p}
               newer == {j \in Successful : j > i}
    <3>4. newer \in SUBSET older /\ older \in SUBSET (1 .. MaxRows) /\ MaxRows \in Nat
      BY <2>1, <3>1, <3>3, RetentionConstants DEF Successful, Ids
    <3>5. Cardinality(newer) >= Retain /\ Retain \in Nat
      BY <2>2, <3>2, RetentionConstants DEF Enough
    <3>6. Enough(p) <=> Cardinality(older) >= Retain
      BY DEF Enough
    <3> HIDE DEF older, newer
    <3>7. newer \in SUBSET (1 .. MaxRows)
      BY <3>4
    <3>8. /\ Cardinality(newer) <= Cardinality(older)
          /\ Cardinality(older) \in Nat /\ Cardinality(newer) \in Nat
      BY <3>4, <3>7, Parts, Subsets
    <3> QED BY <3>5, <3>6, <3>8
  <2> QED BY <2>3, <2>4, <2>5, <2>6
<1>5. ASSUME NEW s \in Runners
      PROVE  /\ \A c \in todo'[s] : Spent(c.id) /\ Unneeded(c.image) /\ Past(c.image)
             /\ \A i \in done'[s] : Spent(i)
  <2>1. CASE s = r
    BY <1>1, <1>4, <2>1
  <2>2. CASE s # r
    BY <1>1, <2>2 DEF RetentionInv, Chosen, Numbers
  <2> QED BY <2>1, <2>2
<1>6. Numbers' /\ Chosen'
  BY <1>1, <1>2, <1>5 DEF RetentionInv, Numbers, Chosen
<1> QED
  BY <1>3, <1>6 DEF Rest

\* A runner removes at most the image of a candidate, which nobody needs.
LEMMA CleanStep ==
    ASSUME RetentionInv, RetentionTypeOK', NEW r \in Runners, CleanCandidate(r)
    PROVE  Rest'
<1>1. /\ UNCHANGED <<history, inserted, target>>
      /\ todo \in [Runners -> SUBSET [id : Ids, image : 0 .. MaxRows]]
      /\ done \in [Runners -> SUBSET Ids]
  BY DEF RetentionInv, RetentionTypeOK, CleanCandidate, table
<1>2. PICK c \in todo[r] :
         /\ todo' = [todo EXCEPT ![r] = @ \ {c}]
         /\ images \ {c.image} \subseteq images'
         /\ done' = done \/ done' = [done EXCEPT ![r] = @ \cup {c.id}]
  BY DEF CleanCandidate
<1>3. /\ Successful' = Successful /\ Deployed' = Deployed /\ Running' = Running
      /\ \A i : Spent(i)' <=> Spent(i)
      /\ \A x : Unneeded(x)' <=> Unneeded(x)
      /\ \A x : Past(x)' <=> Past(x)
      /\ \A i : Enough(i)' <=> Enough(i)
  BY <1>1 DEF Successful, Deployed, Running, Spent, Unneeded, Past, Exists, Enough
<1>4. Order' /\ Origins'
  BY <1>1, <1>3 DEF RetentionInv, Order, Origins, Exists
<1>5. Spent(c.id) /\ Unneeded(c.image)
  BY DEF RetentionInv, Chosen
<1>6. Present'
  BY <1>1, <1>2, <1>3, <1>5 DEF RetentionInv, Present, Unneeded
<1>7. \A s \in Runners : todo'[s] \subseteq todo[s] /\ done'[s] \subseteq done[s] \cup {c.id}
  BY <1>1, <1>2
<1>8. Numbers' /\ Chosen'
  BY <1>1, <1>3, <1>5, <1>7 DEF RetentionInv, Numbers, Chosen
<1> QED
  BY <1>4, <1>6, <1>8 DEF Rest

\* A runner deletes its rows, or fails to.
LEMMA DeleteStep ==
    ASSUME RetentionInv, RetentionTypeOK', NEW r \in Runners, DeleteDeployments(r)
    PROVE  Rest'
<1>1. /\ UNCHANGED <<inserted, images, target, todo>> /\ todo[r] = {}
      /\ done \in [Runners -> SUBSET Ids] /\ done' = [done EXCEPT ![r] = {}]
      /\ inserted \in Int
  BY DEF RetentionInv, RetentionTypeOK, DeleteDeployments, docker
<1>2. \A i \in Ids : history'[i] = history[i] \/ (i \in done[r] /\ history'[i] = NoRow)
  BY DEF DeleteDeployments
<1>3. \A i \in done[r] : i \in Ids /\ Spent(i)
  BY <1>1 DEF RetentionInv, Chosen
<1>4. \A i \in Ids : history'[i] # NoRow => history'[i] = history[i]
  BY <1>2
<1>5. Running' \subseteq Running /\ Deployed' \subseteq Deployed
  BY <1>4 DEF Running, Deployed, Successful, NoRow
<1>6. \A j \in Successful : j \in Successful' \/ Enough(j)
  BY <1>2, <1>3 DEF Successful, Spent, Exists, NoRow
<1>7. Order'
  BY <1>1, <1>4, <1>5 DEF RetentionInv, Order, Exists, Running, NoRow
<1>8. Numbers'
  <2>1. \A i \in Ids : history'[i].image \in {0, history[i].image} /\ history[i].image \in 0 .. MaxRows
    <3>1. \A i \in Ids : history[i] \in Row \cup {NoRow} /\ MaxRows \in Nat
      BY RetentionConstants DEF RetentionInv, RetentionTypeOK
    <3>2. \A i \in Ids : history[i].image \in 0 .. MaxRows
      BY <3>1 DEF Row, NoRow
    <3> QED BY <1>2, <3>2 DEF NoRow
  <2>2. \A i \in Ids : Past(history[i].image)
    BY DEF RetentionInv, Numbers
  <2>3. \A i \in Ids : /\ history'[i].image <= inserted
                       /\ Running # {} => history'[i].image < inserted
    BY <1>1, <2>1, <2>2 DEF Past
  <2> QED BY <1>1, <1>5, <2>3 DEF RetentionInv, Numbers, Past
<1>9. Origins'
  BY <1>2, <1>4, <1>5 DEF RetentionInv, Origins, Deployed, Successful, NoRow
<1>10. ASSUME NEW i \in Ids, Spent(i)
       PROVE  Spent(i)'
  <2>1. Exists(i)' => Exists(i) /\ history'[i] = history[i]
    BY <1>4 DEF Exists
  <2> QED BY <1>6, <1>10, <2>1, SpentStays
<1>11. ASSUME NEW x, Unneeded(x)
       PROVE  Unneeded(x)'
  <2>1. \A p \in Deployed' : history'[p].image = x => p \in Deployed /\ history[p].image = x
    BY <1>4, <1>5 DEF Deployed, Successful, NoRow
  <2> QED BY <1>6, <1>11, <2>1, UnneededStays
<1>12. Chosen'
  <2> SUFFICES ASSUME NEW s \in Runners
               PROVE  /\ \A c \in todo[s] : Spent(c.id)' /\ Unneeded(c.image)'
                      /\ \A i \in done'[s] : Spent(i)'
    BY <1>1 DEF Chosen
  <2>1. CASE s = r
    BY <1>1, <2>1
  <2>2. CASE s # r
    <3>1. /\ \A c \in todo[s] : c.id \in Ids /\ Spent(c.id) /\ Unneeded(c.image)
          /\ \A i \in done[s] : i \in Ids /\ Spent(i)
      BY DEF RetentionInv, RetentionTypeOK, Chosen
    <3> QED BY <1>1, <1>10, <1>11, <2>2, <3>1
  <2> QED BY <2>1, <2>2
<1>13. Present'
  <2> SUFFICES ASSUME NEW p \in Deployed', ~Enough(p)'
               PROVE  history'[p].image \in images
    BY <1>1 DEF Present
  <2>1. p \in Deployed /\ p \in Ids /\ history'[p] = history[p]
    BY <1>4, <1>5 DEF Deployed, Successful, NoRow
  <2>2. ~Enough(p)
    BY <1>6, <2>1, EnoughStays
  <2> QED BY <2>1, <2>2 DEF RetentionInv, Present
<1> QED
  BY <1>7, <1>8, <1>9, <1>12, <1>13 DEF Rest

\* The process dies, and the next one closes the row that ran.
LEMMA CrashStep ==
    ASSUME RetentionInv, RetentionTypeOK', RetentionCrash
    PROVE  Rest'
<1>1. /\ inserted' = inserted /\ images' = images /\ target' = 0 /\ inserted \in 0 .. MaxRows
      /\ \A s \in Runners : todo'[s] = {} /\ done'[s] = {}
      /\ \A i \in Ids : /\ history'[i] = history[i] \/ i \in Running
                        /\ i \in Running => history'[i] = [history[i] EXCEPT !.status = "failed"]
  BY DEF RetentionInv, RetentionTypeOK, RetentionCrash, docker
<1>2. \A i \in Running : /\ history'[i].status = "failed" /\ history'[i].image = history[i].image
                         /\ history'[i].action = history[i].action /\ history[i].status = "running"
  <2> SUFFICES ASSUME NEW i \in Running
               PROVE  /\ history'[i].status = "failed" /\ history'[i].image = history[i].image
                      /\ history'[i].action = history[i].action /\ history[i].status = "running"
    OBVIOUS
  <2>1. i \in Ids /\ history[i].status = "running" /\ history[i] \in Row
    BY DEF Running, RetentionInv, RetentionTypeOK, NoRow
  <2> QED BY <1>1, <2>1 DEF Row
<1>3. \A i \in Ids : history'[i].image = history[i].image /\ (Exists(i)' => Exists(i))
  <2> SUFFICES ASSUME NEW i \in Ids
               PROVE  history'[i].image = history[i].image /\ (Exists(i)' => Exists(i))
    OBVIOUS
  <2>1. CASE history'[i] = history[i]
    BY <2>1 DEF Exists
  <2>2. CASE i \in Running
    BY <1>2, <2>2 DEF Exists, NoRow
  <2> QED BY <1>1, <2>1, <2>2
<1>4. Running' = {} /\ Successful' = Successful /\ Deployed' = Deployed
  <2>1. \A i \in Ids : \/ history'[i] = history[i] /\ history[i].status # "running"
                       \/ history'[i].status = "failed" /\ history[i].status = "running"
    BY <1>1, <1>2 DEF Running
  <2>2. Running' = {}
    BY <2>1 DEF Running
  <2>3. Successful' = Successful /\ \A i \in Successful : history'[i] = history[i]
    BY <2>1 DEF Successful
  <2> QED BY <2>2, <2>3 DEF Deployed
<1>5. Order'
  BY <1>1, <1>3, <1>4 DEF RetentionInv, Order
<1>6. Numbers'
  BY <1>1, <1>3, <1>4 DEF RetentionInv, Numbers, Past
<1>7. Origins' /\ Present'
  <2>1. \A p \in Deployed : p \in Ids /\ (Enough(p)' <=> Enough(p))
    BY <1>4 DEF Deployed, Successful, Enough
  <2> QED BY <1>1, <1>3, <1>4, <2>1 DEF RetentionInv, Origins, Present
<1>8. Chosen'
  BY <1>1 DEF Chosen
<1> QED
  BY <1>5, <1>6, <1>7, <1>8 DEF Rest

\* An application without deployments.
LEMMA RetentionInitInv ==
    ASSUME RetentionInit
    PROVE  RetentionIInv
<1>1. MaxRows \in Nat /\ MaxRetentionCrashes \in Nat
  BY RetentionConstants
<1>2. RetentionTypeOK
  <2>1. clash \in BOOLEAN /\ due \in BOOLEAN
    BY DEF RetentionInit
  <2>2. active \in [Runners -> BOOLEAN]
    BY DEF RetentionInit
  <2> QED BY <1>1, <2>1, <2>2 DEF RetentionInit, RetentionTypeOK
<1>3. /\ Successful = {} /\ Deployed = {} /\ Running = {}
      /\ \A i \in Ids : ~Exists(i) /\ history[i].image = 0
  BY DEF RetentionInit, Successful, Deployed, Running, Exists, NoRow
<1>4. RetentionInv
  BY <1>1, <1>2, <1>3 DEF RetentionInit, RetentionInv, Order, Numbers, Past, Origins, Chosen, Present
<1> QED
  BY <1>3, <1>4 DEF RetentionInv, RetentionIInv, Started

\* Every step keeps the invariant: the ends of a deployment by FinishStep, what changes no
\* row but its age by QuietStep.
LEMMA SoundStep ==
    ASSUME RetentionInv, Started, [RetentionNext]_retentionVars, ~clash'
    PROVE  RetentionInv'
<1>1. RetentionTypeOK'
  BY TypesStep DEF RetentionInv
<1>2. MaxRows \in Nat /\ inserted \in 0 .. MaxRows /\ history \in [Ids -> Row \cup {NoRow}]
  BY RetentionConstants DEF RetentionInv, RetentionTypeOK
<1>3. Running # {} => inserted \in 1 .. MaxRows /\ Past(0)
  <2>1. \A j \in Running : j \in Ids /\ Exists(j)
    BY DEF Running, Exists, NoRow
  <2>2. \A j \in Running : 1 <= j /\ j <= inserted /\ j \in Int
    BY <2>1 DEF RetentionInv, Order, Ids
  <2> QED BY <1>2, <2>2 DEF Past
<1>4. ASSUME NEW i \in Ids, FinishDeploy(i)
      PROVE  Rest'
  <2>1. /\ i \in Running /\ history[i].action = "deploy" /\ inserted' = inserted
        /\ todo' = todo /\ done' = done /\ target' = target
    BY <1>4 DEF FinishDeploy, runner
  <2>2. inserted \in 0 .. MaxRows /\ 0 \in 0 .. MaxRows /\ Past(0)
    BY <1>2, <1>3, <2>1
  <2>3. CASE Finish(i, "successful", inserted) /\ images' = images \cup {inserted}
    BY <1>1, <2>1, <2>2, <2>3, FinishStep
  <2>4. CASE Finish(i, "failed", 0) /\ images' \in {images, images \cup {inserted}}
    BY <1>1, <2>1, <2>2, <2>4, FinishStep
  <2> QED BY <1>4, <2>3, <2>4 DEF FinishDeploy
<1>5. ASSUME NEW i \in Ids, FinishRollback(i)
      PROVE  Rest'
  <2>1. /\ i \in Running /\ inserted' = inserted /\ images' = images
        /\ todo' = todo /\ done' = done /\ target' = 0 /\ target \in 0 .. MaxRows
    BY <1>5 DEF FinishRollback, runner, RetentionInv, RetentionTypeOK
  <2>2. Past(target) /\ history[i].action # "deploy"
    BY <1>5 DEF FinishRollback, RetentionInv, Numbers
  <2>3. \E status \in {"successful", "failed"} : Finish(i, status, target)
    BY <1>5 DEF FinishRollback
  <2> QED BY <1>1, <2>1, <2>2, <2>3, FinishStep
<1>6. ASSUME NEW i \in Ids, RollbackFails(i)
      PROVE  Rest'
  <2>1. /\ i \in Running /\ inserted' = inserted /\ images' = images /\ history[i].action # "deploy"
        /\ todo' = todo /\ done' = done /\ target' = target /\ Finish(i, "failed", 0)
    BY <1>6 DEF RollbackFails, runner, docker
  <2>2. 0 \in 0 .. MaxRows /\ Past(0)
    BY <1>2, <1>3, <2>1
  <2> QED BY <1>1, <2>1, <2>2, FinishStep
<1>7. ASSUME NEW i \in Ids, ResolveTarget(i)
      PROVE  Rest'
  <2>1. /\ UNCHANGED <<history, inserted, images, todo, done>>
        /\ \E p \in Ids : target' = history[p].image
    BY <1>7 DEF ResolveTarget, table, docker, runner, Targets, Successful
  <2>2. \A j \in Ids : Exists(j)' <=> Exists(j)
    BY <2>1 DEF Exists
  <2> QED BY <1>1, <2>1, <2>2, QuietStep
<1>8. ASSUME NEW i \in Ids, Age(i)
      PROVE  Rest'
  <2>1. /\ UNCHANGED <<inserted, images, target, todo, done>> /\ i \notin Running /\ ~history[i].old
        /\ history' = [history EXCEPT ![i].old = TRUE] /\ Exists(i)
    BY <1>8 DEF Age, docker, runner
  <2>2. history[i] \in Row
    BY <1>2, <2>1 DEF Exists
  <2>3. /\ history'[i].status = history[i].status /\ history'[i].action = history[i].action
        /\ history'[i].image = history[i].image /\ history'[i].old = TRUE /\ history'[i] # NoRow
        /\ \A j \in Ids : j # i => history'[j] = history[j]
    BY <1>2, <2>1, <2>2 DEF Row, NoRow
  <2>4. \A j \in Ids : Exists(j)' <=> Exists(j)
    BY <2>1, <2>3 DEF Exists
  <2> QED BY <1>1, <2>1, <2>3, <2>4, QuietStep
<1>9. ASSUME UpdateCleanupSchedule \/ IntervalPasses \/ UNCHANGED retentionVars
      PROVE  Rest'
  <2>1. UNCHANGED <<history, inserted, images, target, todo, done>>
    BY <1>9 DEF UpdateCleanupSchedule, IntervalPasses, retentionVars, table, docker, runner
  <2>2. \A j \in Ids : Exists(j)' <=> Exists(j)
    BY <2>1 DEF Exists
  <2> QED BY <1>1, <2>1, <2>2, QuietStep
<1>10. Rest'
  BY <1>1, <1>4, <1>5, <1>6, <1>7, <1>8, <1>9, BeginStep, CandidatesStep, CleanStep, DeleteStep,
     CrashStep DEF RetentionNext, Deployment, RetentionStep, RetentionHandler, CleanupLoop
<1> QED
  BY <1>1, <1>10 DEF Rest, RetentionInv

\* Rows come into being with a number.
LEMMA StartedStep ==
    ASSUME RetentionTypeOK, Started, [RetentionNext]_retentionVars
    PROVE  Started'
<1>1. inserted \in Nat /\ history \in [Ids -> Row \cup {NoRow}]
  BY RetentionConstants DEF RetentionTypeOK
<1>2. CASE \E action \in {"deploy", "rollback", "auto_rollback"} : BeginDeployment(action)
  <2>1. inserted' = inserted + 1
    BY <1>2 DEF BeginDeployment
  <2> QED BY <1>1, <2>1 DEF Started
<1>3. ASSUME NEW i \in Ids, NEW status, NEW image, i \in Running, Finish(i, status, image),
             inserted' = inserted
      PROVE  Started'
  BY <1>1, <1>3 DEF Started, Finish, Exists, Running, NoRow
<1>4. ASSUME NEW i \in Ids, FinishDeploy(i) \/ FinishRollback(i) \/ RollbackFails(i)
      PROVE  Started'
  BY <1>3, <1>4 DEF FinishDeploy, FinishRollback, RollbackFails
<1>5. ASSUME NEW i \in Ids, Age(i)
      PROVE  Started'
  BY <1>1, <1>5 DEF Started, Age, Exists
<1>6. CASE RetentionCrash
  <2>1. inserted' = inserted /\ \A i \in Ids : i \notin Running => history'[i] = history[i]
    BY <1>6 DEF RetentionCrash
  <2>2. \A i \in Running : i \in Ids /\ Exists(i)
    BY DEF Running, Exists, NoRow
  <2> QED BY <2>1, <2>2 DEF Started, Exists
<1>7. ASSUME NEW r \in Runners, DeleteDeployments(r)
      PROVE  Started'
  BY <1>7 DEF Started, DeleteDeployments, Exists
<1>8. ASSUME UNCHANGED <<history, inserted>>
      PROVE  Started'
  BY <1>8 DEF Started, Exists
<1>9. CASE UpdateCleanupSchedule \/ IntervalPasses \/ UNCHANGED retentionVars
  BY <1>8, <1>9 DEF UpdateCleanupSchedule, IntervalPasses, retentionVars, table
<1>10. ASSUME NEW i \in Ids, ResolveTarget(i)
       PROVE  Started'
  BY <1>8, <1>10 DEF ResolveTarget, table
<1>11. ASSUME NEW r \in Runners, BeginRetention(r) \/ CleanCandidate(r)
       PROVE  Started'
  BY <1>8, <1>11 DEF BeginRetention, CleanCandidate, table
<1> QED
  BY <1>2, <1>4, <1>5, <1>6, <1>7, <1>9, <1>10, <1>11
     DEF RetentionNext, Deployment, RetentionStep, RetentionHandler, CleanupLoop

\* A clash is never forgotten.
LEMMA ClashStays ==
    ASSUME [RetentionNext]_retentionVars, ~clash', RetentionTypeOK
    PROVE  ~clash
  BY DEF RetentionNext, Deployment, RetentionStep, RetentionHandler, CleanupLoop, BeginDeployment,
     FinishDeploy, ResolveTarget, FinishRollback, RollbackFails, Age, BeginRetention, CleanCandidate,
     DeleteDeployments, UpdateCleanupSchedule, IntervalPasses, RetentionCrash, retentionVars

\* Every step keeps the types, and the rest until an id clashes.
LEMMA RetentionNextInv ==
    ASSUME RetentionIInv, [RetentionNext]_retentionVars
    PROVE  RetentionIInv'
  BY TypesStep, StartedStep, ClashStays, SoundStep DEF RetentionIInv

\* The inductive invariant of retention holds in every reachable state.
THEOREM RetentionInvariance == RetentionSpec => []RetentionIInv
<1>1. RetentionInit => RetentionIInv
  BY RetentionInitInv
<1>2. RetentionIInv /\ [RetentionNext]_retentionVars => RetentionIInv'
  BY RetentionNextInv
<1> QED
  BY <1>1, <1>2, PTL DEF RetentionSpec

\* The image of each of the Retain newest successful deploys is there to roll back to,
\* whatever lists any number of runners of runRetention have read before deployments and
\* other runners went on, until an id on one of the lists is given to a new row.
THEOREM KeptImages == RetentionSpec => []ImagesKept
<1>1. RetentionIInv => ImagesKept
  BY KeptAre DEF RetentionIInv, RetentionInv, ImagesKept, Present, Deployed
<1> QED
  BY <1>1, RetentionInvariance, PTL

\* DeleteDeployments removes no row that has become needed or is in use since
\* RetentionCandidates chose it, until an id on a list is given to a new row.
THEOREM OnlyOldRows == RetentionSpec => DeletesOnlyOld
<1>1. ASSUME RetentionIInv, [RetentionNext]_retentionVars
      PROVE  [\A i \in Ids : ~clash /\ Exists(i) /\ history'[i] = NoRow
                              => history[i].old /\ i \notin Kept]_retentionVars
  <2> SUFFICES ASSUME NEW i \in Ids, ~clash, Exists(i), history'[i] = NoRow
               PROVE  history[i].old /\ i \notin Kept
    OBVIOUS
  <2>1. history \in [Ids -> Row \cup {NoRow}] /\ history[i] \in Row /\ history[i] # NoRow
    BY <1>1 DEF RetentionIInv, RetentionTypeOK, Exists
  <2>2. \E r \in Runners : DeleteDeployments(r)
    <3>1. history'[i] # history[i] /\ history'[i].status = "none" /\ history[i].status # "none"
      BY <2>1 DEF NoRow, Row
    <3>2. ASSUME NEW action \in {"deploy", "rollback", "auto_rollback"}, BeginDeployment(action)
          PROVE  FALSE
      BY <2>1, <3>1, <3>2 DEF BeginDeployment
    <3>3. ASSUME NEW j \in Ids, NEW status \in {"successful", "failed"}, NEW image,
                 Finish(j, status, image)
          PROVE  FALSE
      <4>1. CASE j = i
        BY <2>1, <3>1, <3>3, <4>1 DEF Finish, Row
      <4>2. CASE j # i
        BY <2>1, <3>1, <3>3, <4>2 DEF Finish
      <4> QED BY <4>1, <4>2
    <3>4. ASSUME NEW j \in Ids, FinishDeploy(j) \/ FinishRollback(j) \/ RollbackFails(j)
          PROVE  FALSE
      BY <3>3, <3>4 DEF FinishDeploy, FinishRollback, RollbackFails
    <3>5. ASSUME NEW j \in Ids, Age(j)
          PROVE  FALSE
      <4>1. CASE j = i
        BY <2>1, <3>1, <3>5, <4>1 DEF Age, Row
      <4>2. CASE j # i
        BY <2>1, <3>1, <3>5, <4>2 DEF Age
      <4> QED BY <4>1, <4>2
    <3>6. ~RetentionCrash
      <4>1. ASSUME RetentionCrash, i \in Running
            PROVE  FALSE
        <5>1. history'[i] = [history[i] EXCEPT !.status = "failed"]
          BY <4>1 DEF RetentionCrash
        <5>2. history'[i].status = "failed"
          BY <2>1, <5>1 DEF Row
        <5> QED BY <3>1, <5>2
      <4>2. ASSUME RetentionCrash, i \notin Running
            PROVE  FALSE
        BY <3>1, <4>2 DEF RetentionCrash
      <4> QED BY <4>1, <4>2
    <3>7. history' # history
      BY <3>1
    <3>8. /\ ~(UNCHANGED retentionVars) /\ ~UpdateCleanupSchedule /\ ~IntervalPasses
          /\ \A j \in Ids : ~ResolveTarget(j)
          /\ \A r \in Runners : ~BeginRetention(r) /\ ~CleanCandidate(r)
      BY <3>7 DEF retentionVars, UpdateCleanupSchedule, IntervalPasses, ResolveTarget, BeginRetention,
         CleanCandidate, table
    <3> QED
      BY <1>1, <3>2, <3>4, <3>5, <3>6, <3>8
         DEF RetentionNext, Deployment, RetentionStep, RetentionHandler, CleanupLoop
  <2>3. \E r \in Runners : i \in done[r]
    BY <2>1, <2>2 DEF DeleteDeployments
  <2>4. Spent(i)
    BY <1>1, <2>3 DEF RetentionIInv, RetentionInv, Chosen
  <2> QED
    BY <1>1, <2>4, KeptAre DEF RetentionIInv, Spent
<1> QED
  BY <1>1, RetentionInvariance, PTL DEF RetentionSpec, DeletesOnlyOld


\* A list is covered while rows at or above its ids exist: then no new row gets one.
Covered == \A r \in Runners : \A i \in Listed(r) : \E j \in Ids : Exists(j) /\ i <= j

\* With one runner at a time the ids it has on its list are not given again: only it
\* deletes rows, and its list is empty when it has.  The properties above then hold
\* without their condition.
THEOREM LoneRunner ==
    ASSUME \A r, s \in Runners : r = s
    PROVE  RetentionSpec => []~clash
<1> DEFINE L == RetentionTypeOK /\ Started /\ Covered /\ ~clash
<1>1. RetentionInit => L
  <2> SUFFICES ASSUME RetentionInit PROVE L
    OBVIOUS
  <2>1. RetentionTypeOK /\ Started
    BY RetentionInitInv DEF RetentionIInv
  <2> QED BY <2>1 DEF RetentionInit, Covered, Listed
<1>2. L /\ [RetentionNext]_retentionVars => L'
  <2> SUFFICES ASSUME L, [RetentionNext]_retentionVars PROVE L'
    OBVIOUS
  <2>1. RetentionTypeOK' /\ Started'
    BY TypesStep, StartedStep
  <2>2. /\ history \in [Ids -> Row \cup {NoRow}] /\ Ids \subseteq Int
        /\ todo \in [Runners -> SUBSET [id : Ids, image : 0 .. MaxRows]]
        /\ done \in [Runners -> SUBSET Ids]
        /\ \A r \in Runners : Listed(r) \subseteq Ids
        /\ \A i \in Running : i \in Ids /\ Exists(i)
    BY DEF RetentionTypeOK, Listed, Ids, Running, Exists, NoRow
  <2>3. ASSUME \A i \in Ids : Exists(i) => Exists(i)',
               \A r \in Runners : Listed(r)' \subseteq Listed(r)
        PROVE  Covered'
    BY <2>3 DEF Covered
  <2>4. ASSUME NEW action \in {"deploy", "rollback", "auto_rollback"}, BeginDeployment(action)
        PROVE  Covered' /\ ~clash'
    <3> DEFINE new == [status |-> "running", action |-> action, image |-> 0, old |-> FALSE]
    <3>1. PICK n \in NextIds : /\ history' = [history EXCEPT ![n] = new]
                               /\ clash' = (clash \/ \E r \in Runners : n \in Listed(r))
      BY <2>4 DEF BeginDeployment
    <3>2. n \in Int /\ \A j \in Ids : Exists(j) => j < n
      BY DEF NextIds
    <3>3. \A r \in Runners : n \notin Listed(r)
      <4> SUFFICES ASSUME NEW r \in Runners, n \in Listed(r) PROVE FALSE
        OBVIOUS
      <4>1. PICK j \in Ids : Exists(j) /\ n <= j
        BY DEF Covered
      <4> QED BY <2>2, <3>2, <4>1
    <3>4. todo' = todo /\ done' = done
      BY <2>4 DEF BeginDeployment, runner
    <3>5. \A i \in Ids : Exists(i) => Exists(i)'
      BY <2>2, <3>1 DEF Exists, NoRow
    <3> QED BY <2>3, <3>1, <3>3, <3>4, <3>5 DEF Listed
  <2>5. ASSUME NEW i \in Ids, NEW status \in {"successful", "failed"}, NEW image, i \in Running,
               Finish(i, status, image), todo' = todo, done' = done
        PROVE  Covered'
    <3>1. \A j \in Ids : j # i => history'[j] = history[j]
      BY <2>2, <2>5 DEF Finish
    <3>2. history'[i].status = status
      BY <2>2, <2>5 DEF Finish, Row, Running, NoRow
    <3>3. \A j \in Ids : Exists(j) => Exists(j)'
      BY <3>1, <3>2 DEF Exists, NoRow
    <3> QED BY <2>3, <2>5, <3>3 DEF Listed
  <2>6. ASSUME NEW i \in Ids, FinishDeploy(i) \/ FinishRollback(i) \/ RollbackFails(i)
        PROVE  Covered' /\ ~clash'
    BY <2>5, <2>6 DEF FinishDeploy, FinishRollback, RollbackFails, runner
  <2>7. ASSUME NEW i \in Ids, Age(i)
        PROVE  Covered' /\ ~clash'
    <3>1. /\ todo' = todo /\ done' = done /\ clash' = clash
          /\ history' = [history EXCEPT ![i].old = TRUE] /\ history[i] \in Row
      BY <2>2, <2>7 DEF Age, runner, Exists
    <3>2. history'[i].old = TRUE /\ \A j \in Ids : j # i => history'[j] = history[j]
      BY <2>2, <3>1 DEF Row
    <3>3. \A j \in Ids : Exists(j) => Exists(j)'
      BY <3>2 DEF Exists, NoRow
    <3> QED BY <2>3, <3>1, <3>3 DEF Listed
  <2>8. ASSUME NEW r \in Runners, BeginRetention(r)
        PROVE  Covered' /\ ~clash'
    <3>1. /\ history' = history /\ clash' = clash
          /\ todo'[r] = {Candidate(i) : i \in RetentionCandidates} /\ done'[r] = {}
      BY <2>2, <2>8 DEF BeginRetention, table
    <3>2. \A i \in Listed(r)' : i \in Ids /\ Exists(i) /\ i <= i
      BY <2>2, <3>1 DEF Listed, Candidate, RetentionCandidates, Exists, NoRow, Ids
    <3> QED BY <3>1, <3>2 DEF Covered, Exists
  <2>9. ASSUME NEW r \in Runners, CleanCandidate(r)
        PROVE  Covered' /\ ~clash'
    <3>1. history' = history /\ clash' = clash
      BY <2>9 DEF CleanCandidate, table
    <3>2. PICK c \in todo[r] : /\ todo' = [todo EXCEPT ![r] = @ \ {c}]
                               /\ done' = done \/ done' = [done EXCEPT ![r] = @ \cup {c.id}]
      BY <2>9 DEF CleanCandidate
    <3>3. \A s \in Runners : todo'[s] \subseteq todo[s]
      BY <2>2, <3>2
    <3>4. \A s \in Runners : done'[s] \subseteq done[s] \/ (s = r /\ done'[s] = done[s] \cup {c.id})
      BY <2>2, <3>2
    <3>5. \A s \in Runners : Listed(s)' \subseteq Listed(s)
      BY <3>3, <3>4 DEF Listed
    <3> QED BY <2>3, <3>1, <3>5 DEF Exists
  <2>10. ASSUME NEW r \in Runners, DeleteDeployments(r)
         PROVE  Covered' /\ ~clash'
    <3>1. \A s \in Runners : s = r
      OBVIOUS
    <3>2. todo'[r] = {} /\ done'[r] = {} /\ clash' = clash
      BY <2>2, <2>10 DEF DeleteDeployments
    <3> QED BY <3>1, <3>2 DEF Covered, Listed
  <2>11. ASSUME RetentionCrash
         PROVE  Covered' /\ ~clash'
    BY <2>11 DEF RetentionCrash, Covered, Listed
  <2>12. ASSUME UNCHANGED <<history, todo, done, clash>>
         PROVE  Covered' /\ ~clash'
    BY <2>12 DEF Covered, Listed, Exists
  <2>13. ASSUME UpdateCleanupSchedule \/ IntervalPasses \/ UNCHANGED retentionVars
         PROVE  Covered' /\ ~clash'
    BY <2>12, <2>13 DEF UpdateCleanupSchedule, IntervalPasses, retentionVars, table, runner
  <2>14. ASSUME NEW i \in Ids, ResolveTarget(i)
         PROVE  Covered' /\ ~clash'
    BY <2>12, <2>14 DEF ResolveTarget, table, runner
  <2> QED
    BY <2>1, <2>4, <2>6, <2>7, <2>8, <2>9, <2>10, <2>11, <2>13, <2>14
       DEF RetentionNext, Deployment, RetentionStep, RetentionHandler, CleanupLoop
<1> QED
  BY <1>1, <1>2, PTL DEF RetentionSpec

-----------------------------------------------------------------------------
(***************************************************************************)
(* Backups: what a file holds, and which files remain.                     *)
(***************************************************************************)

\* What Backups assumes of its constants.
LEMMA BackupConstants ==
    /\ BackupRetention \in Nat \ {0} /\ Providers \subseteq {"local", "s3"}
    /\ MaxSeconds \in Nat \ {0} /\ Budgets \subseteq Nat \X (1 .. MaxSeconds) \X Nat
  BY BackupRetentionAssumption, ProvidersAssumption, BudgetsAssumption

\* What the proofs use of the ten migrations: how many statements they have, which of
\* them is the UPDATE, and which ones an unversioned database may have already.
LEMMA Statements ==
   /\ Current = 10
   /\ \A u \in 1 .. Current : Len(Migrations[u]) \in 1 .. 3
   /\ \A u \in 1 .. Current : \A k \in 1 .. Len(Migrations[u]) :
         Migrations[u][k] = "fix" <=> u = 3 /\ k = 2
   /\ Len(Migrations[1]) = 2 /\ Len(Migrations[2]) = 3 /\ Len(Migrations[3]) = 3
   /\ Migrations[1][1] = "settings" /\ Migrations[1][2] = "tables"
   /\ Migrations[2][1] = "push" /\ Migrations[2][2] = "confirm" /\ Migrations[2][3] = "stages"
<1>1. Current = 10
  BY DEF Current, Migrations
<1>2. \A u \in 1 .. 10 : u \in {1,2,3,4,5,6,7,8,9,10}
  OBVIOUS
<1>3. /\ Migrations[1] = <<"settings", "tables">>
      /\ Migrations[2] = <<"push", "confirm", "stages">>
      /\ Migrations[3] = <<"alerts", "fix", "index">>
      /\ Migrations[4] = <<"health">> /\ Migrations[5] = <<"deliveries">>
      /\ Migrations[6] = <<"identities">> /\ Migrations[7] = <<"nodes">>
      /\ Migrations[8] = <<"limits">> /\ Migrations[9] = <<"attempts">>
      /\ Migrations[10] = <<"tunnel">>
  BY DEF Migrations
<1>4. /\ Len(Migrations[1]) = 2 /\ Len(Migrations[2]) = 3 /\ Len(Migrations[3]) = 3
      /\ \A u \in 4 .. 10 : Len(Migrations[u]) = 1
  <2>1. Len(Migrations[1]) = 2 /\ Len(Migrations[2]) = 3 /\ Len(Migrations[3]) = 3
    BY <1>3
  <2>2. Len(Migrations[4]) = 1 /\ Len(Migrations[5]) = 1 /\ Len(Migrations[6]) = 1
        /\ Len(Migrations[7]) = 1 /\ Len(Migrations[8]) = 1 /\ Len(Migrations[9]) = 1
        /\ Len(Migrations[10]) = 1
    BY <1>3
  <2>3. \A u \in 4 .. 10 : u \in {4,5,6,7,8,9,10}
    OBVIOUS
  <2> QED BY <2>1, <2>2, <2>3
<1>5. ASSUME NEW u \in 1 .. Current
      PROVE  /\ Len(Migrations[u]) \in 1 .. 3
             /\ \A k \in 1 .. Len(Migrations[u]) : Migrations[u][k] = "fix" <=> u = 3 /\ k = 2
  <2>1. CASE u = 1
    <3>1. \A k \in 1 .. 2 : k = 1 \/ k = 2
      OBVIOUS
    <3>2. Migrations[1][1] # "fix" /\ Migrations[1][2] # "fix"
      BY <1>3
    <3>3. Len(Migrations[u]) = 2
      BY <1>4, <2>1
    <3> QED BY <2>1, <3>1, <3>2, <3>3
  <2>2. CASE u = 2
    <3>1. \A k \in 1 .. 3 : k = 1 \/ k = 2 \/ k = 3
      OBVIOUS
    <3>2. Migrations[2][1] # "fix" /\ Migrations[2][2] # "fix" /\ Migrations[2][3] # "fix"
      BY <1>3
    <3>3. Len(Migrations[u]) = 3
      BY <1>4, <2>2
    <3> QED BY <2>2, <3>1, <3>2, <3>3
  <2>3. CASE u = 3
    <3>1. \A k \in 1 .. 3 : k = 1 \/ k = 2 \/ k = 3
      OBVIOUS
    <3>2. Migrations[3][1] # "fix" /\ Migrations[3][2] = "fix" /\ Migrations[3][3] # "fix"
      BY <1>3
    <3>3. Len(Migrations[u]) = 3
      BY <1>4, <2>3
    <3> QED BY <2>3, <3>1, <3>2, <3>3
  <2>4. CASE u \in 4 .. 10
    <3>1. \A k \in 1 .. 1 : k = 1
      OBVIOUS
    <3>2. Migrations[u][1] # "fix"
      BY <1>3, <2>4
    <3> QED BY <1>4, <2>4, <3>1, <3>2
  <2> QED BY <1>1, <2>1, <2>2, <2>3, <2>4
<1>6. /\ Migrations[1][1] = "settings" /\ Migrations[1][2] = "tables"
      /\ Migrations[2][1] = "push" /\ Migrations[2][2] = "confirm" /\ Migrations[2][3] = "stages"
  BY <1>3
<1> QED
  BY <1>1, <1>4, <1>5, <1>6

\* The statements of the migrations make the schema, but for the UPDATE.
LEMMA SchemaStatements ==
    /\ \A u \in 1 .. Current : \A k \in 1 .. Len(Migrations[u]) :
          Migrations[u][k] = "fix" \/ Migrations[u][k] \in Schema
    /\ \A s \in Schema : s # "fix" /\ \E u \in 1 .. Current : \E k \in 1 .. Len(Migrations[u]) :
                                        s = Migrations[u][k]
<1>1. ASSUME NEW u \in 1 .. Current, NEW k \in 1 .. Len(Migrations[u]), Migrations[u][k] # "fix"
      PROVE  Migrations[u][k] \in Schema
  <2>1. Migrations[u][k] \in StatementsOf(u)
    BY DEF StatementsOf
  <2>2. StatementsOf(u) \in {StatementsOf(v) : v \in 1 .. Current}
    OBVIOUS
  <2> QED BY <1>1, <2>1, <2>2, Zenon DEF Schema
<1>2. ASSUME NEW s \in Schema
      PROVE  /\ s # "fix"
             /\ \E u \in 1 .. Current : \E k \in 1 .. Len(Migrations[u]) : s = Migrations[u][k]
  <2>1. s # "fix" /\ \E u \in 1 .. Current : s \in StatementsOf(u)
    BY DEF Schema
  <2> QED BY <2>1 DEF StatementsOf
<1> QED
  BY <1>1, <1>2

-----------------------------------------------------------------------------
\* What a statement is for is there.
Has(f, s) == IF s = "fix" THEN Both \notin f.apps ELSE s \in f.schema

\* The statements before statement i of migration m have been applied.
Reached(f, m, i) ==
    \A u \in 1 .. Current : \A k \in 1 .. Len(Migrations[u]) :
        u < m \/ (u = m /\ k < i) => Has(f, Migrations[u][k])

Valid(f) == Reached(f, f.version + 1, 1)
Full(f) == Valid(f) /\ f.version = Current

Placed ==
    /\ Valid(db)
    /\ process = "migrating" => /\ Reached(db, at[1], at[2])
                                /\ at[1] > Current => db.version = Current
    /\ process = "up" => db.version = Current

\* A full file has the whole schema and no application with both flags.
LEMMA FullFiles ==
    ASSUME NEW f \in Files, Full(f)
    PROVE  f.schema = Schema /\ f.version = Current /\ Both \notin f.apps
<1>1. f.schema \subseteq Schema /\ f.version = Current
  BY DEF Files, Full
<1>2. ASSUME NEW u \in 1 .. Current, NEW k \in 1 .. Len(Migrations[u])
      PROVE  Has(f, Migrations[u][k])
  <2>1. u < Current + 1
    BY Statements
  <2> QED BY <1>1, <2>1 DEF Full, Valid, Reached
<1>3. Schema \subseteq f.schema
  BY <1>2, SchemaStatements DEF Has
<1>4. Both \notin f.apps
  <2>1. 3 \in 1 .. Current /\ 2 \in 1 .. Len(Migrations[3])
    BY Statements
  <2>2. Migrations[3][2] = "fix"
    BY <2>1, Statements
  <2> QED BY <1>2, <2>1, <2>2 DEF Has
<1> QED
  BY <1>1, <1>3, <1>4

\* The file the first start finds has what its version says.
LEMMA FormerAreValid ==
    ASSUME NEW f \in FormerFiles
    PROVE  f \in Files /\ Valid(f)
<1>1. Current = 10 /\ {Both} \subseteq Flags /\ {Manual} \subseteq Flags /\ Both # Manual
  BY Statements DEF Both, Manual, Flags
<1>2. ASSUME f.version = 0
      PROVE  Valid(f)
  BY <1>2 DEF Valid, Reached
<1>3. CASE f = Fresh
  <2>1. f \in Files /\ f.version = 0
    BY <1>1, <1>3 DEF Fresh, Files
  <2> QED BY <1>2, <2>1
<1>4. CASE f \in Unversioned
  <2>1. PICK columns \in SUBSET Columns, n \in 0 .. 2 :
           f = [schema |-> {"settings", "tables"} \cup columns, version |-> 0, apps |-> {Both},
                jobs |-> n]
    BY <1>4 DEF Unversioned
  <2>2. {"settings", "tables"} \cup Columns \subseteq Schema
    <3>1. /\ 1 \in 1 .. Current /\ 2 \in 1 .. Current
          /\ {1, 2} \subseteq 1 .. Len(Migrations[1]) /\ {1, 2, 3} \subseteq 1 .. Len(Migrations[2])
      BY Statements
    <3>2. /\ Migrations[1][1] \in Schema \cup {"fix"} /\ Migrations[1][2] \in Schema \cup {"fix"}
          /\ Migrations[2][1] \in Schema \cup {"fix"} /\ Migrations[2][2] \in Schema \cup {"fix"}
          /\ Migrations[2][3] \in Schema \cup {"fix"}
      BY <3>1, SchemaStatements
    <3>3. /\ Migrations[1][1] = "settings" /\ Migrations[1][2] = "tables"
          /\ Migrations[2][1] = "push" /\ Migrations[2][2] = "confirm" /\ Migrations[2][3] = "stages"
      BY Statements
    <3>4. {"settings", "tables"} \subseteq Schema
      BY <3>2, <3>3
    <3>5. Columns \subseteq Schema
      BY <3>2, <3>3 DEF Columns
    <3> QED BY <3>4, <3>5
  <2>3. f \in Files /\ f.version = 0
    BY <1>1, <2>1, <2>2 DEF Files
  <2> QED BY <1>2, <2>3
<1>5. CASE f \in Versioned
  <2>1. PICK v \in 1 .. Current :
           f = [schema |-> (UNION {StatementsOf(u) : u \in 1 .. v}) \ {"fix"}, version |-> v,
                apps |-> {IF v < 3 THEN Both ELSE Manual}, jobs |-> 1]
    BY <1>5 DEF Versioned
  <2>2. /\ f.schema = (UNION {StatementsOf(u) : u \in 1 .. v}) \ {"fix"} /\ f.version = v
        /\ f.apps = {IF v < 3 THEN Both ELSE Manual} /\ f.jobs = 1
    BY <2>1
  <2>3. f.schema \subseteq Schema
    <3>1. \A u \in 1 .. v : u \in 1 .. Current
      BY <1>1
    <3> QED BY <2>2, <3>1 DEF Schema
  <2>4. f \in Files
    <3>1. f.apps \subseteq Flags /\ v \in 0 .. Current /\ 1 \in 0 .. 2
      BY <1>1, <2>2
    <3> QED BY <2>1, <2>2, <2>3, <3>1 DEF Files
  <2>5. ASSUME NEW u \in 1 .. Current, NEW k \in 1 .. Len(Migrations[u]),
               u < v + 1 \/ (u = v + 1 /\ k < 1)
        PROVE  Has(f, Migrations[u][k])
    <3>1. u \in 1 .. v /\ Migrations[u][k] \in StatementsOf(u)
      <4>1. k >= 1 /\ k \in Int
        BY Statements
      <4>2. u \in 1 .. v
        BY <1>1, <2>5, <4>1
      <4> QED BY <4>2 DEF StatementsOf
    <3>2. Migrations[u][k] = "fix" => ~(v < 3)
      BY <1>1, <3>1, Statements
    <3>3. Migrations[u][k] # "fix" => Migrations[u][k] \in f.schema
      <4>1. StatementsOf(u) \in {StatementsOf(w) : w \in 1 .. v}
        BY <3>1
      <4> QED BY <2>2, <3>1, <4>1, Zenon
    <3> QED BY <1>1, <2>2, <3>2, <3>3 DEF Has
  <2> QED BY <2>2, <2>4, <2>5 DEF Valid, Reached
<1> QED
  BY <1>3, <1>4, <1>5 DEF FormerFiles

\* A step of migrate leaves a file that has what its version says, and is where it
\* thinks it is.
LEMMA MigrateStep ==
    ASSUME SchemaTypeOK, Placed, Migrate
    PROVE  SchemaTypeOK' /\ Placed'
<1>1. /\ db \in Files /\ Current = 10 /\ db.version \in 0 .. 10 /\ db.schema \subseteq Schema
      /\ at \in (1 .. 11) \X (1 .. 4) /\ at[1] \in 1 .. 11 /\ at[2] \in 1 .. 4 /\ databaseCrashes \in Nat
  BY Statements DEF SchemaTypeOK, Files
<1>2. CASE Retry
  BY <1>1, <1>2 DEF Retry, SchemaTypeOK, Placed
<1>3. CASE Open
  <2>1. at'[1] = db.version + 1 /\ at'[2] = 1 /\ at' \in (1 .. 11) \X (1 .. 4)
    BY <1>1, <1>3 DEF Open
  <2> QED BY <1>1, <1>3, <2>1 DEF Open, SchemaTypeOK, Placed, Valid
<1>4. CASE ApplyStatement
  <2>1. /\ at[1] \in 1 .. Current /\ at[2] \in 1 .. Len(Migrations[at[1]]) /\ process = "migrating"
        /\ Statement = Migrations[at[1]][at[2]] /\ Len(Migrations[at[1]]) \in 1 .. 3
    BY <1>1, <1>4, Statements DEF ApplyStatement, Migrating, StatementsLeft, Statement
  <2>2. CASE process' = "failed" /\ UNCHANGED <<db, at>>
    BY <1>1, <1>4, <2>2 DEF ApplyStatement, SchemaTypeOK, Placed
  <2>3. CASE db' = Applied(Statement) /\ at' = [at EXCEPT ![2] = @ + 1] /\ UNCHANGED process
    <3>1. at'[1] = at[1] /\ at'[2] = at[2] + 1 /\ at' \in (1 .. 11) \X (1 .. 4)
      BY <1>1, <2>1, <2>3
    <3>2. db' \in Files /\ db'.version = db.version
      <4>1. CASE Statement = "fix"
        <5>1. {IF f = Both THEN Manual ELSE f : f \in db.apps} \subseteq Flags
          <6>1. Manual \in Flags /\ db.apps \subseteq Flags
            BY <1>1 DEF Files, Manual, Flags
          <6> QED BY <6>1
        <5> QED BY <1>1, <2>3, <4>1, <5>1 DEF Applied, Files
      <4>2. CASE Statement # "fix"
        <5>1. db.schema \cup {Statement} \subseteq Schema
          BY <1>1, <2>1, <4>2, SchemaStatements
        <5> QED BY <1>1, <2>3, <4>2, <5>1 DEF Applied, Files
      <4> QED BY <4>1, <4>2
    <3>3. \A s : Has(db, s) \/ s = Statement => Has(db', s)
      <4>1. CASE Statement = "fix"
        <5>1. db'.schema = db.schema /\ db'.apps = {IF f = Both THEN Manual ELSE f : f \in db.apps}
          BY <1>1, <2>3, <4>1 DEF Applied, Files
        <5>2. Both \notin db'.apps
          BY <5>1 DEF Both, Manual
        <5> QED BY <4>1, <5>1, <5>2 DEF Has
      <4>2. CASE Statement # "fix"
        <5>1. db'.schema = db.schema \cup {Statement} /\ db'.apps = db.apps
          BY <1>1, <2>3, <4>2 DEF Applied, Files
        <5> QED BY <4>2, <5>1 DEF Has
      <4> QED BY <4>1, <4>2
    <3>4. Valid(db')
      BY <3>2, <3>3 DEF Placed, Valid, Reached
    <3>5. Reached(db', at'[1], at'[2])
      <4> SUFFICES ASSUME NEW u \in 1 .. Current, NEW k \in 1 .. Len(Migrations[u]),
                          u < at[1] \/ (u = at[1] /\ k < at[2] + 1)
                   PROVE  Has(db', Migrations[u][k])
        BY <3>1 DEF Reached
      <4>1. CASE u = at[1] /\ k = at[2]
        BY <2>1, <3>3, <4>1
      <4>2. CASE ~(u = at[1] /\ k = at[2])
        <5>1. u < at[1] \/ (u = at[1] /\ k < at[2])
          <6>1. k \in Int /\ at[2] \in Int
            BY <1>1, Statements
          <6> QED BY <4>2, <6>1
        <5> QED BY <2>1, <3>3, <5>1 DEF Placed, Reached
      <4> QED BY <4>1, <4>2
    <3>6. at'[1] <= Current
      BY <2>1, <3>1
    <3>7. SchemaTypeOK'
      BY <1>1, <1>4, <2>3, <3>1, <3>2 DEF ApplyStatement, SchemaTypeOK
    <3>8. process' = "migrating"
      BY <2>1, <2>3
    <3> QED BY <1>1, <3>1, <3>4, <3>5, <3>6, <3>7, <3>8 DEF Placed
  <2> QED BY <1>4, <2>2, <2>3 DEF ApplyStatement
<1>5. CASE SetVersion
  <2>1. /\ at[1] \in 1 .. Current /\ at[2] > Len(Migrations[at[1]])
        /\ process = "migrating" /\ process' = process
        /\ Len(Migrations[at[1]]) \in 1 .. 3 /\ at' = <<at[1] + 1, 1>>
        /\ db' = [db EXCEPT !.version = IF legacy /\ at[1] < Current THEN @ ELSE at[1]]
    BY <1>1, <1>5, Statements DEF SetVersion, Migrating, StatementsLeft
  <2>2. /\ db'.schema = db.schema /\ db'.apps = db.apps /\ db' \in Files
        /\ db'.version = db.version \/ db'.version = at[1]
        /\ at[1] = Current => db'.version = Current
    BY <1>1, <2>1 DEF Files
  <2>3. at' \in (1 .. 11) \X (1 .. 4) /\ at'[1] = at[1] + 1 /\ at'[2] = 1
    BY <1>1, <2>1
  <2>4. \A s : Has(db', s) <=> Has(db, s)
    BY <2>2 DEF Has
  <2>5. Reached(db', at[1] + 1, 1)
    <3> SUFFICES ASSUME NEW u \in 1 .. Current, NEW k \in 1 .. Len(Migrations[u]),
                        u < at[1] + 1 \/ (u = at[1] + 1 /\ k < 1)
                 PROVE  Has(db, Migrations[u][k])
      BY <2>4 DEF Reached
    <3>1. u < at[1] \/ (u = at[1] /\ k < at[2])
      <4>1. u \in Int /\ k \in Int /\ k >= 1 /\ k <= Len(Migrations[u]) /\ Len(Migrations[u]) \in Int
        BY Statements
      <4> QED BY <1>1, <2>1, <4>1
    <3> QED BY <2>1, <3>1 DEF Placed, Reached
  <2>6. Valid(db')
    BY <2>2, <2>4, <2>5 DEF Placed, Valid, Reached
  <2>7. at'[1] > Current => db'.version = Current
    BY <1>1, <2>1, <2>2, <2>3
  <2>8. SchemaTypeOK'
    BY <1>1, <1>5, <2>2, <2>3 DEF SetVersion, SchemaTypeOK
  <2> QED BY <2>1, <2>3, <2>5, <2>6, <2>7, <2>8 DEF Placed
<1>6. CASE Opened
  BY <1>1, <1>6 DEF Opened, SchemaTypeOK, Placed
<1> QED
  BY <1>2, <1>3, <1>4, <1>5, <1>6 DEF Migrate

-----------------------------------------------------------------------------
\* What is about to be written, and what has been, is a whole database.
Stored ==
    /\ \A b \in Goroutines : job[b] # "idle" => Full(snapshot[b])
    /\ \A n \in 1 .. MaxSeconds : IsComplete(n) => Full(archive[n].db)

SomeComplete == \E n \in 1 .. MaxSeconds : IsComplete(n)
TornNames == {n \in 1 .. MaxSeconds : archive[n] = Torn}

\* An archive holds nothing, a torn file or a complete one; a backup has a name
\* while it runs, and streams only to S3.
Kinds ==
    /\ \A n \in 1 .. MaxSeconds : IsComplete(n) \/ archive[n] \in {NoFile, Torn}
    /\ \A b \in Goroutines : /\ job[b] = "idle" <=> name[b] = 0
                             /\ job[b] \in {"streaming", "blocked"} => provider = "s3"

Apart == \A b, c \in Goroutines : name[b] = name[c] => b = c \/ name[b] = 0
Few == Cardinality(TornNames) < BackupRetention

\* The file of a backup that is not yet written is missing or torn, unless a
\* rotation that leaves a complete one has taken it; and a victim is older than a
\* complete file.
Owned ==
    \A b \in Goroutines :
        /\ job[b] = "sealed" => archive[name[b]] = NoFile
        /\ job[b] = "writing" /\ archive[name[b]] = NoFile => SomeComplete
        /\ job[b] = "written" => SomeComplete
Superseded ==
    \A b \in Goroutines : \A v \in victims[b] : \E n \in 1 .. MaxSeconds : IsComplete(n) /\ v < n
Reported == success /\ provider = "local" => SomeComplete

Calm == Apart /\ Few /\ Owned /\ Superseded /\ Reported

BackupInv == BackupsTypeOK /\ Placed /\ Stored /\ Kinds /\ (~crowded => Calm)

-----------------------------------------------------------------------------
\* The three kinds of files are different.
LEMMA FreshFile == Fresh \in Files /\ NoFile # Torn
  /\ \A f : Complete(f) \notin {NoFile, Torn} /\ NoFile.state = "none" /\ Torn.state = "torn"
<1>1. Current = 10
  BY Statements
<1> QED
  BY <1>1 DEF Fresh, Files, NoFile, Torn, Complete

\* A former database, and no backups.
LEMMA BackupsInitInv ==
    ASSUME BackupsInit
    PROVE  BackupInv
<1>1. MaxSeconds \in Nat \ {0} /\ BackupRetention \in Nat \ {0} /\ Current = 10
  BY Statements, BackupConstants
<1>2. db \in FormerFiles /\ db \in Files /\ Valid(db)
  <2>1. db \in FormerFiles
    BY DEF BackupsInit, CurrentFiles, FormerFiles
  <2> QED BY <2>1, FormerAreValid
<1>3. databaseCrashes \in Nat /\ seconds \in 1 .. MaxSeconds /\ restores \in Nat
  BY BackupConstants DEF BackupsInit
<1>4. BackupsTypeOK
  <2>1. SchemaTypeOK
    <3>1. <<1, 1>> \in (1 .. Current + 1) \X (1 .. 4)
      BY <1>1
    <3>2. process = "down" /\ legacy = FALSE /\ at = <<1, 1>>
      BY DEF BackupsInit, SchemaInit
    <3> QED BY <1>2, <1>3, <3>1, <3>2 DEF SchemaTypeOK
  <2>2. NoFile \in [state : {"none", "torn", "complete"}, db : Files]
    BY FreshFile DEF NoFile
  <2>3. now \in 1 .. seconds
    BY <1>3 DEF BackupsInit
  <2>4. archive \in [1 .. MaxSeconds -> [state : {"none", "torn", "complete"}, db : Files]]
    BY <2>2 DEF BackupsInit
  <2>5. /\ job \in [Goroutines -> BackupSteps] /\ snapshot \in [Goroutines -> Files]
        /\ name \in [Goroutines -> 0 .. MaxSeconds]
        /\ victims \in [Goroutines -> SUBSET (1 .. MaxSeconds)]
    BY <1>1, FreshFile DEF BackupsInit, BackupSteps
  <2>6. provider \in Providers /\ keyless \in BOOLEAN /\ success \in BOOLEAN /\ crowded \in BOOLEAN
    BY DEF BackupsInit
  <2> QED BY <1>3, <2>1, <2>3, <2>4, <2>5, <2>6 DEF BackupsTypeOK
<1>5. Placed
  BY <1>2 DEF BackupsInit, SchemaInit, Placed
<1>6. Stored /\ Kinds
  BY FreshFile DEF BackupsInit, Stored, Kinds, IsComplete
<1>7. Calm
  <2>1. TornNames = {}
    BY FreshFile DEF BackupsInit, TornNames
  <2>2. Few
    BY <1>1, <2>1, FS_EmptySet DEF Few
  <2> QED BY <2>2 DEF BackupsInit, Calm, Apart, Owned, Superseded, Reported
<1> QED
  BY <1>4, <1>5, <1>6, <1>7 DEF BackupInv

\* The schema's part of a step that is not one of migrate.
LEMMA SchemaStays ==
    ASSUME SchemaTypeOK, Placed, UNCHANGED schemaVars
    PROVE  SchemaTypeOK' /\ Placed'
  BY DEF SchemaTypeOK, Placed, schemaVars

\* As many files are torn, or fewer.
LEMMA FewStay ==
    ASSUME Few, TornNames' \subseteq TornNames
    PROVE  Few'
<1>1. TornNames \in SUBSET (1 .. MaxSeconds) /\ TornNames' \in SUBSET (1 .. MaxSeconds)
  BY DEF TornNames
<1>2. MaxSeconds \in Nat /\ BackupRetention \in Nat
  BY BackupConstants
<1>3. /\ Cardinality(TornNames') <= Cardinality(TornNames)
      /\ Cardinality(TornNames) \in Nat /\ Cardinality(TornNames') \in Nat
  BY <1>1, <1>2, Subsets, Parts
<1>4. Cardinality(TornNames) < BackupRetention
  BY DEF Few
<1>5. Cardinality(TornNames') < BackupRetention
  BY <1>2, <1>3, <1>4
<1> QED
  BY <1>5 DEF Few

\* What a return of runBackup leaves of the invariant.
LEMMA ReturnStep ==
    ASSUME BackupInv, NEW b \in Goroutines, Return(b),
           UNCHANGED <<schemaVars, provider, keyless, seconds, now, archive, crowded, restores>>,
           success' \in BOOLEAN, ~crowded => Reported',
           \A c \in Goroutines : victims'[c] \subseteq victims[c],
           victims' \in [Goroutines -> SUBSET (1 .. MaxSeconds)]
    PROVE  BackupInv'
<1> USE DEF BackupInv, BackupsTypeOK
<1>1. SchemaTypeOK' /\ Placed'
  BY SchemaStays
<1>2. /\ job' \in [Goroutines -> BackupSteps] /\ snapshot' \in [Goroutines -> Files]
      /\ name' \in [Goroutines -> 0 .. MaxSeconds]
      /\ job'[b] = "idle" /\ name'[b] = 0
      /\ \A c \in Goroutines \ {b} :
            job'[c] = job[c] /\ name'[c] = name[c] /\ snapshot'[c] = snapshot[c]
  BY FreshFile, BackupConstants DEF Return, Goto, BackupSteps
<1>3. BackupsTypeOK'
  BY <1>1, <1>2
<1>4. Stored' /\ Kinds'
  BY <1>2 DEF Stored, Kinds, IsComplete
<1>5. ASSUME Calm, ~crowded
      PROVE  Calm'
  <2>1. TornNames' = TornNames /\ (SomeComplete' <=> SomeComplete)
    BY DEF TornNames, SomeComplete, IsComplete
  <2>2. Apart'
    BY <1>2, <1>5 DEF Calm, Apart
  <2>3. Few'
    BY <1>5, <2>1 DEF Calm, Few
  <2>4. Owned'
    BY <1>2, <1>5, <2>1 DEF Calm, Owned
  <2>5. Superseded'
    BY <1>5 DEF Calm, Superseded, IsComplete
  <2> QED BY <1>5, <2>2, <2>3, <2>4, <2>5 DEF Calm
<1> QED
  BY <1>1, <1>3, <1>4, <1>5

\* A backup takes the database of a process that is up, and a name of its own unless two
\* of them fall into the same second.
LEMMA SealStep ==
    ASSUME BackupInv, NEW b \in Goroutines, SealSnapshot(b)
    PROVE  BackupInv'
<1> USE DEF BackupInv, BackupsTypeOK
<1>1. /\ UNCHANGED <<schemaVars, provider, keyless, seconds, now, archive, success, victims, restores>>
      /\ process = "up" /\ job[b] = "idle"
  BY DEF SealSnapshot
<1>2. SchemaTypeOK' /\ Placed'
  BY <1>1, SchemaStays
<1>3. now \in 1 .. MaxSeconds /\ db \in Files /\ Full(db)
  BY <1>1, BackupConstants DEF SchemaTypeOK, Placed, Full
<1>4. /\ job' \in [Goroutines -> BackupSteps] /\ snapshot' \in [Goroutines -> Files]
      /\ name' \in [Goroutines -> 0 .. MaxSeconds]
      /\ job'[b] = (IF provider = "s3" THEN "streaming" ELSE "sealed")
      /\ name'[b] = now /\ snapshot'[b] = db
      /\ \A c \in Goroutines \ {b} :
            job'[c] = job[c] /\ name'[c] = name[c] /\ snapshot'[c] = snapshot[c]
  BY <1>3, BackupConstants DEF SealSnapshot, Goto, BackupSteps
<1>5. BackupsTypeOK'
  <2>1. crowded' \in BOOLEAN
    BY DEF SealSnapshot
  <2> QED BY <1>1, <1>2, <1>4, <2>1
<1>6. Stored'
  BY <1>1, <1>3, <1>4 DEF Stored, IsComplete
<1>7. Kinds'
  <2>1. now # 0
    BY <1>3
  <2> QED BY <1>1, <1>4, <2>1 DEF Kinds, IsComplete
<1>8. ASSUME ~crowded'
      PROVE  Calm'
  <2>1. Calm /\ archive[now] = NoFile /\ \A c \in Goroutines : name[c] # now
    BY <1>8 DEF SealSnapshot
  <2>2. TornNames' = TornNames /\ (SomeComplete' <=> SomeComplete)
    BY <1>1 DEF TornNames, SomeComplete, IsComplete
  <2>3. Apart'
    BY <1>4, <2>1 DEF Calm, Apart
  <2>4. Few' /\ Reported'
    BY <1>1, <2>1, <2>2 DEF Calm, Few, Reported
  <2>5. Owned'
    BY <1>1, <1>4, <2>1, <2>2 DEF Calm, Owned
  <2>6. Superseded'
    BY <1>1, <2>1 DEF Calm, Superseded, IsComplete
  <2> QED BY <2>3, <2>4, <2>5, <2>6 DEF Calm
<1> QED
  BY <1>2, <1>5, <1>6, <1>7, <1>8

\* os.WriteFile makes the file of a backup, which has no file yet.
LEMMA CreateStep ==
    ASSUME BackupInv, NEW b \in Goroutines, CreateFile(b)
    PROVE  BackupInv'
<1> USE DEF BackupInv, BackupsTypeOK
<1>1. CASE Return(b) /\ UNCHANGED <<archive, crowded>>
  <2>1. UNCHANGED <<schemaVars, provider, keyless, seconds, now, success, victims, restores>>
    BY DEF CreateFile
  <2>2. ~crowded => Reported'
    BY <1>1, <2>1 DEF Calm, Reported, SomeComplete, IsComplete
  <2> QED BY <1>1, <2>1, <2>2, ReturnStep
<1>2. SUFFICES
        ASSUME archive' = [archive EXCEPT ![name[b]] = Torn],
               crowded' = (crowded \/ Cardinality({n \in DOMAIN archive : archive'[n] = Torn})
                                        >= BackupRetention),
               Goto(b, "writing"), UNCHANGED <<snapshot, name>>
        PROVE  BackupInv'
  BY <1>1 DEF CreateFile
<1>3. /\ UNCHANGED <<schemaVars, provider, keyless, seconds, now, success, snapshot, name, victims,
                   restores>>
      /\ job[b] = "sealed" /\ archive' = [archive EXCEPT ![name[b]] = Torn]
      /\ job' = [job EXCEPT ![b] = "writing"]
  BY <1>2 DEF CreateFile, Goto
<1>4. SchemaTypeOK' /\ Placed'
  BY <1>3, SchemaStays
<1>5. name[b] \in 1 .. MaxSeconds
  <2>1. name[b] \in 0 .. MaxSeconds /\ name[b] # 0 /\ MaxSeconds \in Nat
    BY <1>3, BackupConstants DEF Kinds
  <2> QED BY <2>1
<1>6. /\ job' \in [Goroutines -> BackupSteps] /\ job'[b] = "writing"
      /\ \A c \in Goroutines \ {b} : job'[c] = job[c]
      /\ archive'[name[b]] = Torn
      /\ \A n \in 1 .. MaxSeconds : n # name[b] => archive'[n] = archive[n]
      /\ archive' \in [1 .. MaxSeconds -> [state : {"none", "torn", "complete"}, db : Files]]
  <2>1. Torn \in [state : {"none", "torn", "complete"}, db : Files]
    BY FreshFile DEF Torn
  <2> QED BY <1>3, <1>5, <2>1 DEF BackupSteps
<1>7. BackupsTypeOK'
  <2>1. crowded' \in BOOLEAN
    BY <1>2
  <2> QED BY <1>3, <1>4, <1>6, <2>1
<1>8. Stored' /\ Kinds'
  <2>1. \A n \in 1 .. MaxSeconds :
           IsComplete(n)' => n # name[b] /\ IsComplete(n) /\ archive'[n] = archive[n]
    BY <1>5, <1>6, FreshFile DEF IsComplete
  <2>2. Stored'
    BY <1>3, <1>6, <2>1 DEF Stored
  <2>3. Kinds'
    BY <1>3, <1>5, <1>6 DEF Kinds, IsComplete
  <2> QED BY <2>2, <2>3
<1>9. ASSUME ~crowded'
      PROVE  Calm'
  <2>1. Calm /\ ~(Cardinality({n \in DOMAIN archive : archive'[n] = Torn}) >= BackupRetention)
    BY <1>2, <1>9, BackupsCardinality
  <2>2. Few'
    <3>1. {n \in DOMAIN archive : archive'[n] = Torn} = TornNames'
      BY DEF TornNames
    <3>2. TornNames' \in SUBSET (1 .. MaxSeconds) /\ MaxSeconds \in Nat /\ BackupRetention \in Nat
      BY BackupConstants DEF TornNames
    <3>3. Cardinality(TornNames') \in Nat
      BY <3>2, Subsets
    <3>4. ~(Cardinality(TornNames') >= BackupRetention)
      BY <2>1, <3>1
    <3>5. Cardinality(TornNames') < BackupRetention
      BY <3>2, <3>3, <3>4
    <3> QED BY <3>5 DEF Few
  <2>3. Apart'
    BY <1>3, <2>1 DEF Calm, Apart
  <2>4. archive[name[b]] = NoFile
    BY <1>3, <2>1 DEF Calm, Owned
  <2>5. \A n \in 1 .. MaxSeconds : IsComplete(n) => IsComplete(n)'
    BY <1>6, <2>4, FreshFile DEF IsComplete
  <2>6. SomeComplete => SomeComplete'
    BY <2>5 DEF SomeComplete
  <2>7. \A c \in Goroutines \ {b} : archive'[name[c]] = archive[name[c]] \/ name[c] = 0
    <3>1. \A c \in Goroutines \ {b} : name[c] # name[b] /\ name[c] \in 0 .. MaxSeconds
      BY <1>5, <2>1 DEF Calm, Apart
    <3> QED BY <1>6, <3>1
  <2>8. Owned'
    <3>1. \A c \in Goroutines : name[c] = 0 => job[c] = "idle"
      BY DEF Kinds
    <3> QED BY <1>3, <1>6, <2>1, <2>6, <2>7, <3>1, FreshFile DEF Calm, Owned
  <2>9. Superseded' /\ Reported'
    BY <1>3, <2>1, <2>5, <2>6 DEF Calm, Superseded, Reported
  <2> QED BY <2>2, <2>3, <2>8, <2>9 DEF Calm
<1> QED
  BY <1>4, <1>7, <1>8, <1>9

\* The last Write completes the file, unless its name has been removed.
LEMMA WriteStep ==
    ASSUME BackupInv, NEW b \in Goroutines, WriteFile(b)
    PROVE  BackupInv'
<1> USE DEF BackupInv, BackupsTypeOK
<1>1. /\ UNCHANGED <<schemaVars, provider, keyless, seconds, now, success, crowded, victims, restores>>
      /\ job[b] = "writing"
  BY DEF WriteFile
<1>2. CASE Return(b) /\ UNCHANGED archive
  <2>1. ~crowded => Reported'
    BY <1>1, <1>2 DEF Calm, Reported, SomeComplete, IsComplete
  <2> QED BY <1>1, <1>2, <2>1, ReturnStep
<1>3. ASSUME NEW f \in Written(b), archive' = [archive EXCEPT ![name[b]] = f], Goto(b, "written"),
             UNCHANGED <<snapshot, name>>
      PROVE  BackupInv'
  <2>1. SchemaTypeOK' /\ Placed'
    BY <1>1, SchemaStays
  <2>2. name[b] \in 1 .. MaxSeconds
    <3>1. name[b] \in 0 .. MaxSeconds /\ name[b] # 0 /\ MaxSeconds \in Nat
      BY <1>1, BackupConstants DEF Kinds
    <3> QED BY <3>1
  <2>3. f \in {NoFile, Torn, Complete(snapshot[b])}
    BY <1>3 DEF Written
  <2>4. f \in [state : {"none", "torn", "complete"}, db : Files] /\ Full(snapshot[b])
    BY <1>1, <2>3, FreshFile DEF NoFile, Torn, Complete, Stored
  <2>5. /\ job' \in [Goroutines -> BackupSteps] /\ job'[b] = "written"
        /\ \A c \in Goroutines \ {b} : job'[c] = job[c]
        /\ archive'[name[b]] = f
        /\ \A n \in 1 .. MaxSeconds : n # name[b] => archive'[n] = archive[n]
        /\ archive' \in [1 .. MaxSeconds -> [state : {"none", "torn", "complete"}, db : Files]]
    BY <1>3, <2>2, <2>4 DEF BackupSteps, Goto
  <2>6. BackupsTypeOK'
    BY <1>1, <1>3, <2>1, <2>5
  <2>7. \/ f = NoFile \/ f = Torn \/ (f.state = "complete" /\ f.db = snapshot[b])
    BY <2>3 DEF Complete
  <2>8. Stored'
    <3>1. \A n \in 1 .. MaxSeconds : IsComplete(n)' => Full(archive'[n].db)
      BY <2>4, <2>5, <2>7, FreshFile DEF Stored, IsComplete
    <3> QED BY <1>1, <1>3, <2>5, <3>1 DEF Stored
  <2>9. Kinds'
    BY <1>1, <1>3, <2>5, <2>7 DEF Kinds, IsComplete
  <2>10. ASSUME ~crowded
         PROVE  Calm'
    <3>1. Calm /\ \A c \in Goroutines \ {b} : name[c] # name[b]
      BY <2>2, <2>10 DEF Calm, Apart
    <3>2. \/ f = NoFile /\ archive[name[b]] = NoFile
          \/ f.state = "complete" /\ f \notin {NoFile, Torn}
      BY <1>3, <3>1, FreshFile DEF Written, Complete
    <3>3. \A n \in 1 .. MaxSeconds : IsComplete(n) => IsComplete(n)'
      BY <2>5, <3>2, FreshFile DEF IsComplete
    <3>4. SomeComplete'
      <4>1. CASE archive[name[b]] = NoFile
        BY <1>1, <3>1, <3>3, <4>1 DEF Calm, Owned, SomeComplete
      <4>2. CASE f.state = "complete"
        BY <2>2, <2>5, <4>2 DEF SomeComplete, IsComplete
      <4> QED BY <3>2, <4>1, <4>2
    <3>5. Few'
      <4>1. TornNames' \subseteq TornNames
        BY <2>5, <3>2, FreshFile DEF TornNames
      <4> QED BY <3>1, <4>1, FewStay DEF Calm
    <3>6. Apart'
      BY <1>3, <3>1 DEF Calm, Apart
    <3>7. Owned'
      <4>1. \A c \in Goroutines \ {b} : job'[c] = "sealed" => archive'[name[c]] = NoFile
        <5>1. \A c \in Goroutines \ {b} : job[c] = "sealed" => name[c] \in 1 .. MaxSeconds
          <6>1. \A c \in Goroutines : name[c] \in 0 .. MaxSeconds /\ (job[c] = "sealed" => name[c] # 0)
            BY DEF Kinds
          <6>2. MaxSeconds \in Nat
            BY BackupConstants
          <6> QED BY <6>1, <6>2
        <5> QED BY <2>5, <3>1, <5>1 DEF Calm, Owned
      <4> QED BY <1>3, <2>5, <3>4, <4>1 DEF Owned
    <3>8. Superseded' /\ Reported'
      BY <1>1, <3>1, <3>3, <3>4 DEF Calm, Superseded, Reported
    <3> QED BY <3>5, <3>6, <3>7, <3>8 DEF Calm
  <2> QED BY <1>1, <2>1, <2>6, <2>8, <2>9, <2>10
<1> QED
  BY <1>2, <1>3 DEF WriteFile

\* A file that the rotation chooses has Retention newer names, not all of them torn.
LEMMA VictimsAreOld ==
    ASSUME BackupsTypeOK, Kinds, Few, NEW v \in OldFiles
    PROVE  \E n \in 1 .. MaxSeconds : IsComplete(n) /\ v < n
<1> DEFINE newer == {m \in Names : m > v}
<1>1. MaxSeconds \in Nat /\ BackupRetention \in Nat /\ v \in 1 .. MaxSeconds
  BY BackupConstants DEF OldFiles, Names
<1>2. Cardinality(newer) >= BackupRetention
  BY BackupsCardinality DEF OldFiles
<1>3. newer \in SUBSET (1 .. MaxSeconds) /\ TornNames \in SUBSET (1 .. MaxSeconds)
  BY DEF Names, TornNames
<1>4. ~(newer \subseteq TornNames)
  <2> SUFFICES ASSUME newer \in SUBSET TornNames PROVE FALSE
    OBVIOUS
  <2>1. Cardinality(newer) <= Cardinality(TornNames)
    BY <1>1, <1>3, Parts
  <2>2. Cardinality(newer) \in Nat /\ Cardinality(TornNames) \in Nat
    BY <1>1, <1>3, Subsets
  <2>3. Cardinality(TornNames) < BackupRetention
    BY DEF Few
  <2> HIDE DEF newer
  <2> QED BY <1>1, <1>2, <2>1, <2>2, <2>3
<1>5. PICK n \in newer : n \notin TornNames
  BY <1>4
<1>6. n \in 1 .. MaxSeconds /\ archive[n] # NoFile /\ archive[n] # Torn /\ n > v
  BY <1>3, <1>5 DEF Names, TornNames
<1>7. v < n
  BY <1>1, <1>6
<1> QED
  BY <1>6, <1>7 DEF Kinds

\* The success is recorded, and what is to be removed is chosen.
LEMMA RecordStep ==
    ASSUME BackupInv, NEW b \in Goroutines, RecordSuccess(b)
    PROVE  BackupInv'
<1> USE DEF BackupInv, BackupsTypeOK
<1>1. /\ UNCHANGED <<schemaVars, provider, keyless, seconds, now, archive, crowded, restores>>
      /\ job[b] = "written" /\ success' \in BOOLEAN
  BY DEF RecordSuccess
<1>2. ~crowded => SomeComplete' /\ Reported'
  BY <1>1 DEF Calm, Owned, Reported, SomeComplete, IsComplete
<1>3. CASE Return(b) /\ UNCHANGED victims
  BY <1>1, <1>2, <1>3, ReturnStep
<1>4. CASE /\ victims' = [victims EXCEPT ![b] = OldFiles]
           /\ Goto(b, "rotating") /\ UNCHANGED <<snapshot, name>>
  <2>1. SchemaTypeOK' /\ Placed'
    BY <1>1, SchemaStays
  <2>2. /\ job' \in [Goroutines -> BackupSteps] /\ job'[b] = "rotating"
        /\ \A c \in Goroutines \ {b} : job'[c] = job[c] /\ victims'[c] = victims[c]
        /\ victims'[b] = OldFiles
        /\ victims' \in [Goroutines -> SUBSET (1 .. MaxSeconds)]
    BY <1>4 DEF BackupSteps, Goto, OldFiles, Names
  <2>3. BackupsTypeOK'
    BY <1>1, <1>4, <2>1, <2>2
  <2>4. Stored' /\ Kinds'
    BY <1>1, <1>4, <2>2 DEF Stored, Kinds, IsComplete
  <2>5. ASSUME ~crowded
        PROVE  Calm'
    <3>1. TornNames' = TornNames /\ (SomeComplete' <=> SomeComplete)
      BY <1>1 DEF TornNames, SomeComplete, IsComplete
    <3>2. Apart' /\ Few' /\ Reported' /\ Owned'
      BY <1>1, <1>2, <1>4, <2>2, <2>5, <3>1 DEF Calm, Apart, Few, Owned
    <3>3. Superseded'
      <4>1. \A v \in OldFiles : \E n \in 1 .. MaxSeconds : IsComplete(n) /\ v < n
        BY <2>5, VictimsAreOld DEF Calm
      <4> QED BY <1>1, <2>2, <2>5, <4>1 DEF Calm, Superseded, IsComplete
    <3> QED BY <3>2, <3>3 DEF Calm
  <2> QED BY <1>1, <2>1, <2>3, <2>4, <2>5
<1> QED
  BY <1>3, <1>4 DEF RecordSuccess

\* A victim goes, and the newest complete file stays.
LEMMA RemoveStep ==
    ASSUME BackupInv, NEW b \in Goroutines, RemoveOldFile(b)
    PROVE  BackupInv'
<1> USE DEF BackupInv, BackupsTypeOK
<1>1. UNCHANGED <<schemaVars, provider, keyless, seconds, now, success, crowded, job, snapshot,
                name, restores>>
  BY DEF RemoveOldFile
<1>2. PICK v \in victims[b] : \E f \in {NoFile, archive[v]} :
         archive' = [archive EXCEPT ![v] = f] /\ victims' = [victims EXCEPT ![b] = @ \ {v}]
  BY DEF RemoveOldFile
<1>3. PICK f \in {NoFile, archive[v]} :
         archive' = [archive EXCEPT ![v] = f] /\ victims' = [victims EXCEPT ![b] = @ \ {v}]
  BY <1>2
<1>4. SchemaTypeOK' /\ Placed'
  BY <1>1, SchemaStays
<1>5. /\ v \in 1 .. MaxSeconds /\ archive'[v] = f
      /\ \A n \in 1 .. MaxSeconds : n # v => archive'[n] = archive[n]
      /\ archive' \in [1 .. MaxSeconds -> [state : {"none", "torn", "complete"}, db : Files]]
      /\ victims' \in [Goroutines -> SUBSET (1 .. MaxSeconds)]
      /\ \A c \in Goroutines : victims'[c] \subseteq victims[c]
  <2>1. NoFile \in [state : {"none", "torn", "complete"}, db : Files]
    BY FreshFile DEF NoFile
  <2> QED BY <1>3, <2>1
<1>6. \A n \in 1 .. MaxSeconds : archive'[n] = archive[n] \/ (n = v /\ archive'[n] = NoFile)
  BY <1>3, <1>5
<1>7. BackupsTypeOK'
  BY <1>1, <1>4, <1>5
<1>8. Stored' /\ Kinds'
  <2>1. \A n \in 1 .. MaxSeconds : IsComplete(n)' => archive'[n] = archive[n] /\ IsComplete(n)
    BY <1>6, FreshFile DEF IsComplete
  <2> QED BY <1>1, <1>6, <2>1 DEF Stored, Kinds, IsComplete
<1>9. ASSUME ~crowded
      PROVE  Calm'
  <2> DEFINE whole == {n \in 1 .. MaxSeconds : IsComplete(n)}
  <2>1. Calm
    BY <1>9
  <2>2. whole # {}
    BY <2>1 DEF Calm, Superseded
  <2>3. PICK top \in whole : \A n \in whole : n <= top
    <3>1. whole \in SUBSET (0 .. MaxSeconds) /\ MaxSeconds \in Nat
      <4>1. 1 .. MaxSeconds \subseteq 0 .. MaxSeconds /\ MaxSeconds \in Nat
        BY BackupConstants
      <4> QED BY <4>1
    <3> HIDE DEF whole
    <3> QED BY <2>2, <3>1, Greatest
  <2>4. top # v
    <3>1. PICK n \in whole : v < n
      BY <2>1 DEF Calm, Superseded
    <3>2. n <= top /\ n \in Int /\ top \in Int /\ v \in Int
      BY <1>5, <2>3
    <3> QED BY <3>1, <3>2
  <2>5. IsComplete(top)' /\ top \in 1 .. MaxSeconds
    BY <1>6, <2>4 DEF IsComplete
  <2>6. SomeComplete'
    BY <2>5 DEF SomeComplete
  <2>7. Superseded'
    <3> SUFFICES ASSUME NEW c \in Goroutines, NEW w \in victims'[c]
                 PROVE  w < top
      BY <2>5 DEF Superseded
    <3>1. PICK n \in whole : w < n
      BY <1>5, <2>1 DEF Calm, Superseded
    <3>2. n <= top /\ n \in Int /\ top \in Int /\ w \in Int
      BY <1>5, <2>3
    <3> QED BY <3>1, <3>2
  <2>8. Few'
    <3>1. TornNames' \subseteq TornNames
      BY <1>6, FreshFile DEF TornNames
    <3> QED BY <2>1, <3>1, FewStay DEF Calm
  <2>9. Apart' /\ Reported'
    BY <1>1, <2>1, <2>6 DEF Calm, Apart, Reported
  <2>10. Owned'
    <3>1. \A c \in Goroutines : job[c] = "sealed" => name[c] \in 1 .. MaxSeconds
      <4>1. \A c \in Goroutines : name[c] \in 0 .. MaxSeconds /\ (job[c] = "sealed" => name[c] # 0)
        BY DEF Kinds
      <4>2. MaxSeconds \in Nat
        BY BackupConstants
      <4> QED BY <4>1, <4>2
    <3> QED BY <1>1, <1>6, <2>1, <2>6, <3>1 DEF Calm, Owned
  <2> QED BY <2>7, <2>8, <2>9, <2>10 DEF Calm
<1> QED
  BY <1>1, <1>4, <1>7, <1>8, <1>9

\* The end of a rotation, and an upload.
LEMMA EndStep ==
    ASSUME BackupInv, NEW b \in Goroutines, Rotated(b) \/ UploadS3(b)
    PROVE  BackupInv'
<1> USE DEF BackupInv, BackupsTypeOK
<1>1. /\ UNCHANGED <<schemaVars, provider, keyless, seconds, now, archive, crowded, victims, restores>>
      /\ success' \in BOOLEAN
  BY DEF Rotated, UploadS3, disk
<1>2. ~crowded => Reported'
  <2>1. success' = success \/ provider = "s3"
    BY DEF Rotated, UploadS3, disk, Kinds
  <2> QED BY <1>1, <2>1 DEF Calm, Reported, SomeComplete, IsComplete
<1>3. CASE Return(b)
  BY <1>1, <1>2, <1>3, ReturnStep
<1>4. CASE job[b] = "streaming" /\ Goto(b, "blocked") /\ UNCHANGED <<success, snapshot, name>>
  <2>1. SchemaTypeOK' /\ Placed'
    BY <1>1, SchemaStays
  <2>2. /\ job' \in [Goroutines -> BackupSteps] /\ job'[b] = "blocked"
        /\ \A c \in Goroutines \ {b} : job'[c] = job[c]
    BY <1>4 DEF Goto, BackupSteps
  <2>3. BackupsTypeOK'
    BY <1>1, <1>4, <2>1, <2>2
  <2>4. Stored' /\ Kinds'
    BY <1>1, <1>4, <2>2 DEF Stored, Kinds, IsComplete
  <2>5. ASSUME ~crowded
        PROVE  Calm'
    <3>1. TornNames' = TornNames /\ (SomeComplete' <=> SomeComplete)
      BY <1>1 DEF TornNames, SomeComplete, IsComplete
    <3> QED BY <1>1, <1>2, <1>4, <2>2, <2>5, <3>1 DEF Calm, Apart, Few, Owned, Superseded, IsComplete
  <2> QED BY <1>1, <2>1, <2>3, <2>4, <2>5
<1> QED
  BY <1>3, <1>4 DEF Rotated, UploadS3

\* A step that leaves the archive and the backups alone.
LEMMA ArchiveStays ==
    ASSUME BackupInv, UNCHANGED <<provider, archive, success, crowded, job, snapshot, name, victims>>
    PROVE  Stored' /\ Kinds' /\ (~crowded' => Calm')
<1>1. TornNames' = TornNames /\ (SomeComplete' <=> SomeComplete)
  BY DEF TornNames, SomeComplete, IsComplete
<1>2. Stored' /\ Kinds'
  BY DEF BackupInv, Stored, Kinds, IsComplete
<1>3. ~crowded' => Calm'
  BY <1>1 DEF BackupInv, Calm, Apart, Few, Owned, Superseded, Reported, IsComplete
<1> QED
  BY <1>2, <1>3

\* The start, the clock, the key, an application, a restore.
LEMMA OtherStep ==
    ASSUME BackupInv,
           Opening \/ NextSecond \/ LockOrUnlockKey \/ SaveApplication \/ Restore
             \/ UNCHANGED backupsVars
    PROVE  BackupInv'
<1> USE DEF BackupInv, BackupsTypeOK
<1>1. UNCHANGED <<provider, archive, success, crowded, job, snapshot, name, victims, seconds>>
  BY DEF Opening, NextSecond, LockOrUnlockKey, SaveApplication, Restore, backupsVars, disk, worker
<1>2. Stored' /\ Kinds' /\ (~crowded' => Calm')
  BY <1>1, ArchiveStays
<1>3. now' \in 1 .. seconds /\ keyless' \in BOOLEAN /\ restores' \in Nat
  <2>1. now' = now \/ (now < seconds /\ now' = now + 1)
    BY DEF Opening, NextSecond, LockOrUnlockKey, SaveApplication, Restore, backupsVars, disk
  <2>2. restores' = restores \/ (restores > 0 /\ restores' = restores - 1)
    BY DEF Opening, NextSecond, LockOrUnlockKey, SaveApplication, Restore, backupsVars
  <2>3. keyless' = keyless \/ keyless' = ~keyless
    BY DEF Opening, NextSecond, LockOrUnlockKey, SaveApplication, Restore, backupsVars
  <2>4. now' \in 1 .. seconds
    BY <2>1
  <2>5. restores' \in Nat
    BY <2>2
  <2>6. keyless' \in BOOLEAN
    BY <2>3
  <2> QED BY <2>4, <2>5, <2>6
<1>4. SchemaTypeOK' /\ Placed'
  <2>1. CASE Opening
    BY <2>1, MigrateStep DEF Opening
  <2>2. CASE NextSecond \/ LockOrUnlockKey \/ UNCHANGED backupsVars
    <3>1. UNCHANGED schemaVars
      BY <2>2 DEF NextSecond, LockOrUnlockKey, backupsVars
    <3> QED BY <3>1, SchemaStays
  <2>3. CASE SaveApplication
    <3>1. PICK f \in Flags \ {Both} : db' = [db EXCEPT !.apps = {f}]
      BY <2>3 DEF SaveApplication
    <3>2. UNCHANGED <<process, legacy, at, databaseCrashes>> /\ process = "up"
      BY <2>3 DEF SaveApplication
    <3>3. /\ db' \in Files /\ db'.schema = db.schema /\ db'.version = db.version
          /\ Both \notin db'.apps
      BY <3>1 DEF SchemaTypeOK, Files
    <3>4. \A s : Has(db, s) => Has(db', s)
      BY <3>3 DEF Has
    <3>5. Valid(db')
      BY <3>3, <3>4 DEF Placed, Valid, Reached
    <3> QED BY <3>2, <3>3, <3>5 DEF SchemaTypeOK, Placed
  <2>4. CASE Restore
    <3>1. UNCHANGED <<process, legacy, at, databaseCrashes>> /\ process = "down"
      BY <2>4 DEF Restore
    <3>2. PICK n \in Names : IsComplete(n) /\ db' = archive[n].db
      BY <2>4 DEF Restore
    <3>3. db' \in Files /\ Valid(db')
      BY <3>2 DEF Names, Stored, Full
    <3> QED BY <3>1, <3>3 DEF SchemaTypeOK, Placed
  <2> QED BY <2>1, <2>2, <2>3, <2>4
<1>5. BackupsTypeOK'
  BY <1>1, <1>3, <1>4
<1> QED
  BY <1>2, <1>4, <1>5

\* The process dies: the backups are forgotten, and the files stay.
LEMMA DownStep ==
    ASSUME BackupInv, BackupsCrash
    PROVE  BackupInv'
<1> USE DEF BackupInv, BackupsTypeOK
<1>1. /\ UNCHANGED <<db, legacy, at, provider, seconds, now, archive, success, crowded, restores>>
      /\ databaseCrashes' \in Nat /\ process' = "down" /\ keyless' = TRUE
  BY DEF BackupsCrash, Forget, disk, SchemaTypeOK
<1>2. /\ job' \in [Goroutines -> BackupSteps] /\ snapshot' \in [Goroutines -> Files]
      /\ name' \in [Goroutines -> 0 .. MaxSeconds]
      /\ victims' \in [Goroutines -> SUBSET (1 .. MaxSeconds)]
      /\ \A b \in Goroutines : job'[b] = "idle" /\ name'[b] = 0 /\ victims'[b] = {}
  BY FreshFile, BackupConstants DEF BackupsCrash, Forget, BackupSteps
<1>3. SchemaTypeOK' /\ Placed'
  BY <1>1 DEF SchemaTypeOK, Placed
<1>4. BackupsTypeOK'
  BY <1>1, <1>2, <1>3
<1>5. Stored' /\ Kinds'
  BY <1>1, <1>2 DEF Stored, Kinds, IsComplete
<1>6. ~crowded => Calm'
  <2>1. TornNames' = TornNames /\ (SomeComplete' <=> SomeComplete)
    BY <1>1 DEF TornNames, SomeComplete, IsComplete
  <2> QED BY <1>1, <1>2, <2>1 DEF Calm, Apart, Few, Owned, Superseded, Reported
<1> QED
  BY <1>1, <1>3, <1>4, <1>5, <1>6

\* Every step keeps the invariant.
LEMMA BackupsNextInv ==
    ASSUME BackupInv, [BackupsNext]_backupsVars
    PROVE  BackupInv'
  BY SealStep, CreateStep, WriteStep, RecordStep, RemoveStep, EndStep, OtherStep, DownStep
     DEF BackupsNext, RunBackup

\* The inductive invariant of the backups and the schema holds in every reachable state.
THEOREM BackupsInvariance == BackupsSpec => []BackupInv
<1>1. BackupsInit => BackupInv
  BY BackupsInitInv
<1>2. BackupInv /\ [BackupsNext]_backupsVars => BackupInv'
  BY BackupsNextInv
<1> QED
  BY <1>1, <1>2, PTL DEF BackupsSpec

\* A process that is up works on a complete schema of version 10 without an application
\* that has both flags (migrate), whatever database it found, wherever earlier starts died
\* in a migration, and whichever backup it was restored from.
THEOREM UpMeansComplete == BackupsSpec => []SchemaComplete
<1>1. BackupInv => SchemaComplete
  BY FullFiles DEF BackupInv, BackupsTypeOK, SchemaTypeOK, Placed, Full, SchemaComplete
<1> QED
  BY <1>1, BackupsInvariance, PTL

\* Once a local backup has been reported as a success there is a complete one: the removal
\* of old files (runBackup) never takes the newest complete file, whatever the other backup
\* writes and removes meanwhile.
THEOREM ACompleteRemains == BackupsSpec => []BackupRemains
<1>1. BackupInv => BackupRemains
  <2> SUFFICES ASSUME BackupInv, provider = "local", success, ~crowded
               PROVE  \E n \in Names : IsComplete(n)
    BY DEF BackupRemains
  <2>1. PICK n \in 1 .. MaxSeconds : IsComplete(n)
    BY DEF BackupInv, Calm, Reported, SomeComplete
  <2>2. archive[n] # NoFile
    BY <2>1, FreshFile DEF IsComplete
  <2> QED BY <2>1, <2>2 DEF Names
<1> QED
  BY <1>1, BackupsInvariance, PTL

=============================================================================
