-------------------------- MODULE EnvironmentProofs --------------------------
(***************************************************************************)
(* For any operators, names, values, attempts, edits, jobs and restarts:   *)
(* the process never holds another key than the verified one and every     *)
(* secret is sealed under it, guessing is bounded, a deployed release has  *)
(* all its secrets, and a rollback restores what its target recorded.      *)
(***************************************************************************)
EXTENDS Environment, FiniteSetTheorems, WellFoundedInduction, TLAPS

\* Everybody who has a key has the verified one, and a request that is about to store
\* a secret has one.
Keyed ==
    /\ KeyIsVerified
    /\ \A o \in Operators : derived[o] \in {NoKey, verifier}
    /\ \A o \in Operators :
          pc[o] \in {"checking", "storing"} => verifier # NoKey /\ derived[o] = verifier

\* A stored secret has a value, sealed under the verified key.
Sealed ==
    \A n \in Names : secrets[n] # NoSecret =>
        secrets[n].value \in Values /\ verifier # NoKey /\ secrets[n].key = verifier

\* A request that saves has a complete form.
Forms ==
    \A o \in Operators : pc[o] \in SaveSteps => form[o].name \in Names /\ form[o].value \in Values

Others == Cardinality(Operators) - 1

\* Between two lockouts every guess was counted, or came from a request that the last
\* lockout covered.  During one, nobody else is validating.
Throttle ==
    /\ Cardinality(covered) <= Others
    /\ ~lockedOut => guesses + Cardinality(covered) <= failures + Others
    /\ lockedOut =>
          /\ failures = 0
          /\ \A o \in Operators : pc[o] = "validating" => o \in covered
          /\ guesses + Cardinality(covered) <= MaxFailures + 2 * Others

\* What a job has read was stored since it began; a name it has done with without a
\* value was no secret at some time since.
Assembly ==
    /\ job # "idle" =>
          \A n \in Names : /\ secrets[n].value \in secretHad[n] /\ config[n] \in publicHad[n]
                           /\ public[n] \in publicHad[n]
    /\ job \in {"keying", "reading", "assembled"} =>
          \A n \in Names : /\ unsealed[n] # 0 => unsealed[n] \in secretHad[n]
                           /\ n \notin pending /\ unsealed[n] = 0 => 0 \in secretHad[n]
    /\ job = "reading" => jobKey # NoKey
    /\ job = "assembled" => pending = {}

\* A recorded rollback has a recorded target.
Targets ==
    /\ last.kind # "none" => Len(releases) # 0
    /\ last.kind = "rollback" => last.target \in DOMAIN releases

Inv ==
    /\ TypeOK /\ Keyed /\ Sealed /\ Forms /\ Throttle /\ Assembly
    /\ Targets /\ DeploymentIsWhole /\ RollbackRestores

-----------------------------------------------------------------------------
\* A job only reads the vault and the tables.
LEMMA JobFrame == Job => UNCHANGED <<vault, tables, form, edits>>
  BY DEF Job, BeginJob, ListSecrets, CopyKey, ReadSecret, Deploy, Rollback, Record

\* A save touches neither the attempts nor the key of the process, nor the job.
LEMMA EditFrame ==
    ASSUME NEW o \in Operators, Edit(o)
    PROVE  UNCHANGED <<verifier, attempts, memory, bounds, locals, history>>
  BY DEF Edit, BeginSecret, BeginConfiguration, BeginSave, SealSecret, CheckConfiguration,
     PutSecret, DeleteSecret, CheckSecret, PutConfiguration, DeleteConfiguration, vault, attempts,
     memory, bounds

\* The vault knows nothing of variables and jobs.
LEMMA VaultsFrame == Vaults => UNCHANGED <<tables, form, edits, locals, had, history>>
  BY DEF Vaults

\* The oldest pending name is one of them.
LEMMA MinPending ==
    ASSUME NEW S \in SUBSET Names, S # {}
    PROVE  Min(S) \in S
  <1>1. S \subseteq Nat
    BY NamesAssumption
  <1>2. PICK m \in S : \A k \in S : ~(<<k, m>> \in OpToRel(<, Nat))
    BY <1>1, NatLessThanWellFounded, WFMin
  <1>3. \A k \in S : m <= k
    <2> SUFFICES ASSUME NEW k \in S, k < m PROVE FALSE
      BY <1>1
    <2>1. <<k, m>> \in Nat \X Nat /\ <<k, m>>[1] < <<k, m>>[2]
      BY <1>1
    <2>2. <<k, m>> \in OpToRel(<, Nat)
      BY <2>1 DEF OpToRel
    <2> QED BY <1>2, <2>2
  <1> QED BY <1>3 DEF Min

\* The values a name had are values.
LEMMA NoteTypes ==
    ASSUME TypeOK, Note,
           secrets' \in [Names -> [key : Keys, value : Optional]], config' \in [Names -> Optional]
    PROVE  secretHad' \in [Names -> SUBSET Optional] /\ publicHad' \in [Names -> SUBSET Optional]
  BY DEF TypeOK, Note, had

\* A job that has ended leaves nothing behind.
LEMMA JobEndsTypes ==
    ASSUME JobEnds
    PROVE  /\ job' \in JobSteps /\ pending' \subseteq Names /\ jobKey' \in Keys
           /\ public' \in [Names -> Optional] /\ unsealed' \in [Names -> Optional]
           /\ secretHad' \in [Names -> SUBSET Optional] /\ publicHad' \in [Names -> SUBSET Optional]
  BY DEF JobEnds, JobSteps, Keys, Nothing, Optional

\* A release with these values may be recorded.
LEMMA RecordTypes ==
    ASSUME TypeOK, NEW kind, NEW target, NEW manifest \in [Names -> Optional],
           NEW env \in [Names -> Optional], Record(kind, target, manifest, env)
    PROVE  TypeOK'
  <1>1. /\ job' \in JobSteps /\ pending' \subseteq Names /\ jobKey' \in Keys
        /\ public' \in [Names -> Optional] /\ unsealed' \in [Names -> Optional]
        /\ secretHad' \in [Names -> SUBSET Optional] /\ publicHad' \in [Names -> SUBSET Optional]
    BY JobEndsTypes DEF Record
  <1> QED BY <1>1 DEF TypeOK, Record, vault, tables

\* What a release recorded are values.
LEMMA ManifestTypes ==
    ASSUME TypeOK, NEW t \in DOMAIN releases
    PROVE  releases[t].manifest \in [Names -> Optional]
  <1> DEFINE R == [manifest : [Names -> Optional], env : [Names -> Optional]]
  <1>1. releases \in Seq(R)
    BY DEF TypeOK
  <1>2. releases[t] \in R
    <2> HIDE DEF R
    <2> QED BY <1>1
  <1> QED BY <1>2

\* Values put over values are values.
LEMMA OverTypes ==
    ASSUME NEW upper \in [Names -> Optional], NEW lower \in [Names -> Optional]
    PROVE  Over(upper, lower) \in [Names -> Optional]
  BY DEF Over

\* Every step keeps the types.
LEMMA NextTypes ==
    ASSUME Inv, [Next]_vars
    PROVE  TypeOK'
  <1>1. CASE UNCHANGED vars
    BY <1>1 DEF Inv, TypeOK, vars, vault
  <1>2. CASE LockoutExpires /\ UNCHANGED <<tables, form, edits, locals, had, history>>
    BY <1>2 DEF Inv, TypeOK, Keys, VaultSteps, SaveSteps, Optional, LockoutExpires, memory,
       requests, bounds, tables, locals, had, history
  <1>3. ASSUME NEW o \in Operators, BeginSetup(o),
               UNCHANGED <<tables, form, edits, locals, had, history>>
        PROVE TypeOK'
    BY <1>3 DEF Inv, TypeOK, VaultSteps, BeginSetup, Goto, attempts, memory, bounds, tables,
       locals, had, history
  <1>4. ASSUME NEW o \in Operators, InitializeSecurity(o),
               UNCHANGED <<tables, form, edits, locals, had, history>>
        PROVE TypeOK'
    BY <1>4, SMTT(30) DEF Inv, TypeOK, Keys, VaultSteps, SaveSteps, Optional, InitializeSecurity, Goto,
       attempts, memory, bounds, tables, locals, had, history
  <1>5. ASSUME NEW o \in Operators, BeginUnlock(o),
               UNCHANGED <<tables, form, edits, locals, had, history>>
        PROVE TypeOK'
    BY <1>5 DEF Inv, TypeOK, VaultSteps, BeginUnlock, Goto, attempts, memory, tables, locals, had,
       history
  <1>6. ASSUME NEW o \in Operators, WrongPassword(o),
               UNCHANGED <<tables, form, edits, locals, had, history>>
        PROVE TypeOK'
    <2>1. failures' \in 0 .. MaxFailures - 1 /\ guesses' \in Nat
      BY <1>6, MaxFailuresAssumption DEF Inv, TypeOK, WrongPassword, RegisterFailedUnlock
    <2>2. lockedOut' \in BOOLEAN /\ covered' \subseteq Operators
      BY <1>6 DEF Inv, TypeOK, WrongPassword, RegisterFailedUnlock
    <2> QED BY <1>6, <2>1, <2>2 DEF Inv, TypeOK, VaultSteps, WrongPassword, Goto, memory, bounds,
               tables, locals, had, history
  <1>7. ASSUME NEW o \in Operators, RightPassword(o),
               UNCHANGED <<tables, form, edits, locals, had, history>>
        PROVE TypeOK'
    <2>1. failures' \in 0 .. MaxFailures - 1 /\ guesses' \in Nat
      BY <1>7, MaxFailuresAssumption DEF RightPassword
    <2>2. lockedOut' \in BOOLEAN /\ covered' \subseteq Operators
      BY <1>7 DEF RightPassword
    <2> QED BY <1>7, <2>1, <2>2 DEF Inv, TypeOK, VaultSteps, RightPassword, Goto, memory, bounds,
               tables, locals, had, history
  <1>7b. ASSUME NEW o \in Operators, RateLimitUnavailable(o),
               UNCHANGED <<tables, form, edits, locals, had, history>>
        PROVE TypeOK'
    <2>1. covered' \subseteq Operators
      BY <1>7b DEF Inv, TypeOK, RateLimitUnavailable
    <2> QED BY <1>7b, <2>1 DEF Inv, TypeOK, VaultSteps, RateLimitUnavailable, Goto, memory, bounds,
               tables, locals, had, history
  <1>8. ASSUME NEW o \in Operators, SetKey(o),
               UNCHANGED <<tables, form, edits, locals, had, history>>
        PROVE TypeOK'
    BY <1>8 DEF Inv, TypeOK, Keys, VaultSteps, SetKey, Goto, attempts, bounds, tables, locals,
       had, history
  <1>9. ASSUME NEW o \in Operators, NewSession(o),
               UNCHANGED <<tables, form, edits, locals, had, history>>
        PROVE TypeOK'
    BY <1>9 DEF Inv, TypeOK, VaultSteps, NewSession, Goto, attempts, bounds, tables, locals, had,
       history
  <1>10. ASSUME NEW o \in Operators, SessionExpires(o),
               UNCHANGED <<tables, form, edits, locals, had, history>>
        PROVE TypeOK'
    BY <1>10 DEF Inv, TypeOK, SessionExpires, attempts, requests, bounds, tables, locals, had,
       history
  <1>11. ASSUME NEW o \in Operators, Lock(o),
               UNCHANGED <<tables, form, edits, locals, had, history>>
        PROVE TypeOK'
    BY <1>11 DEF Inv, TypeOK, Keys, Lock, attempts, requests, bounds, tables, locals, had, history
  <1>12. ASSUME NEW o \in Operators, BeginSecret(o) PROVE TypeOK'
    BY <1>12 DEF Inv, TypeOK, SaveSteps, Optional, BeginSecret, BeginSave, Goto, attempts, memory,
       bounds, tables, locals, had, history
  <1>13. ASSUME NEW o \in Operators, SealSecret(o) PROVE TypeOK'
    BY <1>13 DEF Inv, TypeOK, VaultSteps, SaveSteps, SealSecret, Goto, attempts, memory, bounds,
       tables, locals, had, history
  <1>14. ASSUME NEW o \in Operators, CheckConfiguration(o) PROVE TypeOK'
    BY <1>14 DEF Inv, TypeOK, VaultSteps, SaveSteps, CheckConfiguration, Goto, attempts, memory,
       bounds, tables, locals, had, history
  <1>15. ASSUME NEW o \in Operators, PutSecret(o) PROVE TypeOK'
    <2>1. /\ secrets' \in [Names -> [key : Keys, value : Optional]]
          /\ config' \in [Names -> Optional]
      BY <1>15 DEF Inv, TypeOK, PutSecret
    <2>2. secretHad' \in [Names -> SUBSET Optional] /\ publicHad' \in [Names -> SUBSET Optional]
      BY <1>15, <2>1, NoteTypes DEF Inv, PutSecret
    <2> QED BY <1>15, <2>1, <2>2 DEF Inv, TypeOK, Keys, VaultSteps, PutSecret, Goto, attempts,
               memory, bounds, locals, history
  <1>16. ASSUME NEW o \in Operators, DeleteSecret(o) PROVE TypeOK'
    <2>1. /\ secrets' \in [Names -> [key : Keys, value : Optional]]
          /\ config' \in [Names -> Optional]
      BY <1>16 DEF Inv, TypeOK, DeleteSecret, NoSecret, Keys, Optional
    <2>2. secretHad' \in [Names -> SUBSET Optional] /\ publicHad' \in [Names -> SUBSET Optional]
      BY <1>16, <2>1, NoteTypes DEF Inv, DeleteSecret
    <2> QED BY <1>16, <2>1, <2>2 DEF Inv, TypeOK, DeleteSecret, vault, locals, history
  <1>17. ASSUME NEW o \in Operators, BeginConfiguration(o) PROVE TypeOK'
    BY <1>17 DEF Inv, TypeOK, SaveSteps, Optional, BeginConfiguration, BeginSave, Goto, attempts,
       memory, bounds, tables, locals, had, history
  <1>18. ASSUME NEW o \in Operators, CheckSecret(o) PROVE TypeOK'
    BY <1>18 DEF Inv, TypeOK, VaultSteps, SaveSteps, CheckSecret, Goto, attempts, memory, bounds,
       tables, locals, had, history
  <1>19. ASSUME NEW o \in Operators, PutConfiguration(o) PROVE TypeOK'
    <2>1. /\ secrets' \in [Names -> [key : Keys, value : Optional]]
          /\ config' \in [Names -> Optional]
      BY <1>19 DEF Inv, TypeOK, PutConfiguration
    <2>2. secretHad' \in [Names -> SUBSET Optional] /\ publicHad' \in [Names -> SUBSET Optional]
      BY <1>19, <2>1, NoteTypes DEF Inv, PutConfiguration
    <2> QED BY <1>19, <2>1, <2>2 DEF Inv, TypeOK, VaultSteps, PutConfiguration, Goto, attempts,
               memory, bounds, locals, history
  <1>20. ASSUME NEW o \in Operators, DeleteConfiguration(o) PROVE TypeOK'
    <2>1. /\ secrets' \in [Names -> [key : Keys, value : Optional]]
          /\ config' \in [Names -> Optional]
      BY <1>20 DEF Inv, TypeOK, DeleteConfiguration, Optional
    <2>2. secretHad' \in [Names -> SUBSET Optional] /\ publicHad' \in [Names -> SUBSET Optional]
      BY <1>20, <2>1, NoteTypes DEF Inv, DeleteConfiguration
    <2> QED BY <1>20, <2>1, <2>2 DEF Inv, TypeOK, DeleteConfiguration, vault, locals, history
  <1>21. CASE BeginJob
    <2> QED BY <1>21 DEF Inv, TypeOK, BeginJob, JobSteps, vault, tables, history
  <1>22. CASE ListSecrets
    <2>1. unsealed' \in [Names -> Optional] /\ pending' \subseteq Names /\ job' \in JobSteps
      BY <1>22 DEF ListSecrets, Nothing, Optional, JobSteps
    <2> QED BY <1>22, <2>1 DEF Inv, TypeOK, ListSecrets, vault, tables, had, history
  <1>23. CASE CopyKey
    <2>1. CASE key # NoKey
      BY <1>23, <2>1 DEF Inv, TypeOK, CopyKey, JobSteps, vault, tables, had, history
    <2>2. CASE JobEnds
      BY <1>23, <2>2, JobEndsTypes DEF Inv, TypeOK, CopyKey, vault, tables, history
    <2> QED BY <1>23, <2>1, <2>2 DEF CopyKey
  <1>24. CASE ReadSecret
    <2> DEFINE n == Min(pending)
    <2>1. n \in pending /\ n \in Names
      BY <1>24, MinPending DEF Inv, TypeOK, ReadSecret
    <2> HIDE DEF n
    <2>2. CASE /\ unsealed' = [unsealed EXCEPT ![n] = secrets[n].value]
               /\ pending' = pending \ {n}
               /\ job' = (IF pending' = {} THEN "assembled" ELSE "reading")
               /\ UNCHANGED <<public, jobKey, had>>
      BY <1>24, <2>1, <2>2 DEF Inv, TypeOK, ReadSecret, JobSteps, vault, tables, had, history
    <2>3. CASE JobEnds
      BY <1>24, <2>3, JobEndsTypes DEF Inv, TypeOK, ReadSecret, vault, tables, history
    <2> QED BY <1>24, <2>2, <2>3 DEF ReadSecret, n
  <1>25. CASE Deploy
    <2>1. public \in [Names -> Optional] /\ Over(unsealed, public) \in [Names -> Optional]
      BY OverTypes DEF Inv, TypeOK
    <2> QED BY <1>25, <2>1, RecordTypes DEF Inv, Deploy
  <1>26. CASE Rollback
    <2>1. PICK t \in DOMAIN releases :
             Record("rollback", t, releases[t].manifest,
                    RollbackConfiguration(Over(unsealed, public), public, releases[t].manifest))
      BY <1>26 DEF Rollback
    <2>2. releases[t].manifest \in [Names -> Optional]
      BY ManifestTypes DEF Inv
    <2>3. [n \in Names |-> IF public[n] # 0 THEN 0 ELSE Over(unsealed, public)[n]] \in [Names -> Optional]
      BY OverTypes DEF Inv, TypeOK, Optional
    <2>4. RollbackConfiguration(Over(unsealed, public), public, releases[t].manifest) \in [Names -> Optional]
      BY <2>2, <2>3, OverTypes DEF RollbackConfiguration
    <2> QED BY <2>1, <2>2, <2>4, RecordTypes DEF Inv
  <1>27. CASE Restart
    <2>1. /\ pc' \in [Operators -> VaultSteps \cup SaveSteps] /\ derived' \in [Operators -> Keys]
          /\ key' \in Keys /\ sessions' \subseteq Operators /\ covered' \subseteq Operators
          /\ form' \in [Operators -> [name : Names \cup {0}, value : Optional]]
      BY <1>27 DEF Restart, ProcessRestarts, VaultSteps, Keys, NoForm, Optional
    <2>2. /\ job' \in JobSteps /\ pending' \subseteq Names /\ jobKey' \in Keys
          /\ public' \in [Names -> Optional] /\ unsealed' \in [Names -> Optional]
          /\ secretHad' \in [Names -> SUBSET Optional] /\ publicHad' \in [Names -> SUBSET Optional]
      BY <1>27, JobEndsTypes DEF Restart
    <2> QED BY <1>27, <2>1, <2>2 DEF Inv, TypeOK, Restart, ProcessRestarts, tables, history
  <1> QED
    BY <1>1, <1>2, <1>3, <1>4, <1>5, <1>6, <1>7, <1>7b, <1>8, <1>9, <1>10, <1>11, <1>12, <1>13, <1>14,
       <1>15, <1>16, <1>17, <1>18, <1>19, <1>20, <1>21, <1>22, <1>23, <1>24, <1>25, <1>26, <1>27
       DEF Next, Vaults, VaultStep, Edit, Job

\* The verifier is stored once, and nobody had a key before.
LEMMA NextKeyed ==
    ASSUME Inv, [Next]_vars
    PROVE  Keyed'
  <1>1. CASE UNCHANGED vars
    BY <1>1 DEF Inv, Keyed, KeyIsVerified, vars, vault
  <1>2. CASE LockoutExpires /\ UNCHANGED <<tables, form, edits, locals, had, history>>
    BY <1>2 DEF Inv, Keyed, KeyIsVerified, LockoutExpires, memory, requests
  <1>3. ASSUME NEW o \in Operators, BeginSetup(o),
               UNCHANGED <<tables, form, edits, locals, had, history>>
        PROVE Keyed'
    BY <1>3 DEF Inv, Keyed, KeyIsVerified, BeginSetup, Goto, memory
  <1>4. ASSUME NEW o \in Operators, InitializeSecurity(o),
               UNCHANGED <<tables, form, edits, locals, had, history>>
        PROVE Keyed'
    BY <1>4 DEF Inv, TypeOK, Keyed, KeyIsVerified, Keys, InitializeSecurity, Goto, memory
  <1>5. ASSUME NEW o \in Operators, BeginUnlock(o),
               UNCHANGED <<tables, form, edits, locals, had, history>>
        PROVE Keyed'
    BY <1>5 DEF Inv, Keyed, KeyIsVerified, BeginUnlock, Goto, memory
  <1>6. ASSUME NEW o \in Operators, WrongPassword(o),
               UNCHANGED <<tables, form, edits, locals, had, history>>
        PROVE Keyed'
    BY <1>6 DEF Inv, Keyed, KeyIsVerified, WrongPassword, Goto, memory
  <1>7. ASSUME NEW o \in Operators, RightPassword(o),
               UNCHANGED <<tables, form, edits, locals, had, history>>
        PROVE Keyed'
    BY <1>7 DEF Inv, Keyed, KeyIsVerified, RightPassword, Goto, memory
  <1>7b. ASSUME NEW o \in Operators, RateLimitUnavailable(o),
               UNCHANGED <<tables, form, edits, locals, had, history>>
        PROVE Keyed'
    BY <1>7b DEF Inv, Keyed, KeyIsVerified, RateLimitUnavailable, Goto, memory
  <1>8. ASSUME NEW o \in Operators, SetKey(o),
               UNCHANGED <<tables, form, edits, locals, had, history>>
        PROVE Keyed'
    BY <1>8 DEF Inv, Keyed, KeyIsVerified, SetKey, Goto
  <1>9. ASSUME NEW o \in Operators, NewSession(o),
               UNCHANGED <<tables, form, edits, locals, had, history>>
        PROVE Keyed'
    BY <1>9 DEF Inv, Keyed, KeyIsVerified, NewSession, Goto
  <1>10. ASSUME NEW o \in Operators, SessionExpires(o),
               UNCHANGED <<tables, form, edits, locals, had, history>>
        PROVE Keyed'
    BY <1>10 DEF Inv, Keyed, KeyIsVerified, SessionExpires, requests
  <1>11. ASSUME NEW o \in Operators, Lock(o),
               UNCHANGED <<tables, form, edits, locals, had, history>>
        PROVE Keyed'
    BY <1>11 DEF Inv, Keyed, KeyIsVerified, Lock, requests
  <1>12. ASSUME NEW o \in Operators, BeginSecret(o) PROVE Keyed'
    BY <1>12 DEF Inv, Keyed, KeyIsVerified, BeginSecret, BeginSave, Goto, memory
  <1>13. ASSUME NEW o \in Operators, SealSecret(o) PROVE Keyed'
    BY <1>13 DEF Inv, TypeOK, Keyed, KeyIsVerified, SealSecret, Goto, memory
  <1>14. ASSUME NEW o \in Operators, CheckConfiguration(o) PROVE Keyed'
    BY <1>14 DEF Inv, Keyed, KeyIsVerified, CheckConfiguration, Goto, memory
  <1>15. ASSUME NEW o \in Operators, PutSecret(o) PROVE Keyed'
    BY <1>15 DEF Inv, TypeOK, Keyed, KeyIsVerified, PutSecret, Goto, memory
  <1>16. ASSUME NEW o \in Operators, DeleteSecret(o) PROVE Keyed'
    BY <1>16 DEF Inv, Keyed, KeyIsVerified, DeleteSecret, vault
  <1>17. ASSUME NEW o \in Operators, BeginConfiguration(o) PROVE Keyed'
    BY <1>17 DEF Inv, Keyed, KeyIsVerified, BeginConfiguration, BeginSave, Goto, memory
  <1>18. ASSUME NEW o \in Operators, CheckSecret(o) PROVE Keyed'
    BY <1>18 DEF Inv, Keyed, KeyIsVerified, CheckSecret, Goto, memory
  <1>19. ASSUME NEW o \in Operators, PutConfiguration(o) PROVE Keyed'
    BY <1>19 DEF Inv, Keyed, KeyIsVerified, PutConfiguration, Goto, memory
  <1>20. ASSUME NEW o \in Operators, DeleteConfiguration(o) PROVE Keyed'
    BY <1>20 DEF Inv, Keyed, KeyIsVerified, DeleteConfiguration, vault
  <1>21. CASE Job
    BY <1>21, JobFrame DEF Inv, Keyed, KeyIsVerified, vault
  <1>22. CASE Restart
    BY <1>22 DEF Keyed, KeyIsVerified, Restart, ProcessRestarts
  <1> QED
    BY <1>1, <1>2, <1>3, <1>4, <1>5, <1>6, <1>7, <1>7b, <1>8, <1>9, <1>10, <1>11, <1>12, <1>13, <1>14,
       <1>15, <1>16, <1>17, <1>18, <1>19, <1>20, <1>21, <1>22 DEF Next, Vaults, VaultStep, Edit

\* A secret is sealed with the key of the request that stores it.
LEMMA NextSealed ==
    ASSUME Inv, [Next]_vars
    PROVE  Sealed'
  <1>1. CASE UNCHANGED vars
    BY <1>1 DEF Inv, Sealed, vars, vault
  <1>2. CASE LockoutExpires /\ UNCHANGED <<tables, form, edits, locals, had, history>>
    BY <1>2 DEF Inv, Sealed, LockoutExpires, tables
  <1>3. ASSUME NEW o \in Operators, BeginSetup(o),
               UNCHANGED <<tables, form, edits, locals, had, history>>
        PROVE Sealed'
    BY <1>3 DEF Inv, Sealed, BeginSetup, tables
  <1>4. ASSUME NEW o \in Operators, InitializeSecurity(o),
               UNCHANGED <<tables, form, edits, locals, had, history>>
        PROVE Sealed'
    BY <1>4 DEF Inv, Sealed, InitializeSecurity, tables
  <1>5. ASSUME NEW o \in Operators, BeginUnlock(o),
               UNCHANGED <<tables, form, edits, locals, had, history>>
        PROVE Sealed'
    BY <1>5 DEF Inv, Sealed, BeginUnlock, tables
  <1>6. ASSUME NEW o \in Operators, WrongPassword(o),
               UNCHANGED <<tables, form, edits, locals, had, history>>
        PROVE Sealed'
    BY <1>6 DEF Inv, Sealed, WrongPassword, tables
  <1>7. ASSUME NEW o \in Operators, RightPassword(o),
               UNCHANGED <<tables, form, edits, locals, had, history>>
        PROVE Sealed'
    BY <1>7 DEF Inv, Sealed, RightPassword, tables
  <1>7b. ASSUME NEW o \in Operators, RateLimitUnavailable(o),
               UNCHANGED <<tables, form, edits, locals, had, history>>
        PROVE Sealed'
    BY <1>7b DEF Inv, Sealed, RateLimitUnavailable, tables
  <1>8. ASSUME NEW o \in Operators, SetKey(o),
               UNCHANGED <<tables, form, edits, locals, had, history>>
        PROVE Sealed'
    BY <1>8 DEF Inv, Sealed, SetKey, tables
  <1>9. ASSUME NEW o \in Operators, NewSession(o),
               UNCHANGED <<tables, form, edits, locals, had, history>>
        PROVE Sealed'
    BY <1>9 DEF Inv, Sealed, NewSession, tables
  <1>10. ASSUME NEW o \in Operators, SessionExpires(o),
               UNCHANGED <<tables, form, edits, locals, had, history>>
        PROVE Sealed'
    BY <1>10 DEF Inv, Sealed, SessionExpires, tables
  <1>11. ASSUME NEW o \in Operators, Lock(o),
               UNCHANGED <<tables, form, edits, locals, had, history>>
        PROVE Sealed'
    BY <1>11 DEF Inv, Sealed, Lock, tables
  <1>12. ASSUME NEW o \in Operators, BeginSecret(o) PROVE Sealed'
    BY <1>12 DEF Inv, Sealed, BeginSecret, BeginSave, tables
  <1>13. ASSUME NEW o \in Operators, SealSecret(o) PROVE Sealed'
    BY <1>13 DEF Inv, Sealed, SealSecret, tables
  <1>14. ASSUME NEW o \in Operators, CheckConfiguration(o) PROVE Sealed'
    BY <1>14 DEF Inv, Sealed, CheckConfiguration, tables
  <1>15. ASSUME NEW o \in Operators, PutSecret(o) PROVE Sealed'
    BY <1>15 DEF Inv, Keyed, Sealed, Forms, SaveSteps, PutSecret
  <1>16. ASSUME NEW o \in Operators, DeleteSecret(o) PROVE Sealed'
    BY <1>16 DEF Inv, Sealed, DeleteSecret, vault
  <1>17. ASSUME NEW o \in Operators, BeginConfiguration(o) PROVE Sealed'
    BY <1>17 DEF Inv, Sealed, BeginConfiguration, BeginSave, tables
  <1>18. ASSUME NEW o \in Operators, CheckSecret(o) PROVE Sealed'
    BY <1>18 DEF Inv, Sealed, CheckSecret, tables
  <1>19. ASSUME NEW o \in Operators, PutConfiguration(o) PROVE Sealed'
    BY <1>19 DEF Inv, Sealed, PutConfiguration
  <1>20. ASSUME NEW o \in Operators, DeleteConfiguration(o) PROVE Sealed'
    BY <1>20 DEF Inv, Sealed, DeleteConfiguration, vault
  <1>21. CASE Job
    BY <1>21, JobFrame DEF Inv, Sealed, vault, tables
  <1>22. CASE Restart
    BY <1>22 DEF Inv, Sealed, Restart, ProcessRestarts, tables
  <1> QED
    BY <1>1, <1>2, <1>3, <1>4, <1>5, <1>6, <1>7, <1>7b, <1>8, <1>9, <1>10, <1>11, <1>12, <1>13, <1>14,
       <1>15, <1>16, <1>17, <1>18, <1>19, <1>20, <1>21, <1>22 DEF Next, Vaults, VaultStep, Edit

\* A save begins with its form.
LEMMA NextForms ==
    ASSUME Inv, [Next]_vars
    PROVE  Forms'
  <1>1. CASE UNCHANGED vars
    BY <1>1 DEF Inv, Forms, vars, vault
  <1>2. CASE LockoutExpires /\ UNCHANGED <<tables, form, edits, locals, had, history>>
    BY <1>2 DEF Inv, Forms, LockoutExpires, requests
  <1>3. ASSUME NEW o \in Operators, BeginSetup(o),
               UNCHANGED <<tables, form, edits, locals, had, history>>
        PROVE Forms'
    BY <1>3 DEF Inv, Forms, SaveSteps, BeginSetup, Goto
  <1>4. ASSUME NEW o \in Operators, InitializeSecurity(o),
               UNCHANGED <<tables, form, edits, locals, had, history>>
        PROVE Forms'
    BY <1>4 DEF Inv, TypeOK, Forms, SaveSteps, InitializeSecurity, Goto
  <1>5. ASSUME NEW o \in Operators, BeginUnlock(o),
               UNCHANGED <<tables, form, edits, locals, had, history>>
        PROVE Forms'
    BY <1>5 DEF Inv, Forms, SaveSteps, BeginUnlock, Goto
  <1>6. ASSUME NEW o \in Operators, WrongPassword(o),
               UNCHANGED <<tables, form, edits, locals, had, history>>
        PROVE Forms'
    BY <1>6 DEF Inv, Forms, SaveSteps, WrongPassword, Goto
  <1>7. ASSUME NEW o \in Operators, RightPassword(o),
               UNCHANGED <<tables, form, edits, locals, had, history>>
        PROVE Forms'
    BY <1>7 DEF Inv, Forms, SaveSteps, RightPassword, Goto
  <1>7b. ASSUME NEW o \in Operators, RateLimitUnavailable(o),
               UNCHANGED <<tables, form, edits, locals, had, history>>
        PROVE Forms'
    BY <1>7b DEF Inv, Forms, SaveSteps, RateLimitUnavailable, Goto
  <1>8. ASSUME NEW o \in Operators, SetKey(o),
               UNCHANGED <<tables, form, edits, locals, had, history>>
        PROVE Forms'
    BY <1>8 DEF Inv, Forms, SaveSteps, SetKey, Goto
  <1>9. ASSUME NEW o \in Operators, NewSession(o),
               UNCHANGED <<tables, form, edits, locals, had, history>>
        PROVE Forms'
    BY <1>9 DEF Inv, Forms, SaveSteps, NewSession, Goto
  <1>10. ASSUME NEW o \in Operators, SessionExpires(o),
               UNCHANGED <<tables, form, edits, locals, had, history>>
        PROVE Forms'
    BY <1>10 DEF Inv, Forms, SessionExpires, requests
  <1>11. ASSUME NEW o \in Operators, Lock(o),
               UNCHANGED <<tables, form, edits, locals, had, history>>
        PROVE Forms'
    BY <1>11 DEF Inv, Forms, Lock, requests
  <1>12. ASSUME NEW o \in Operators, BeginSecret(o) PROVE Forms'
    BY <1>12 DEF Inv, TypeOK, Forms, BeginSecret, BeginSave, Goto
  <1>13. ASSUME NEW o \in Operators, SealSecret(o) PROVE Forms'
    BY <1>13 DEF Inv, Forms, SaveSteps, SealSecret, Goto
  <1>14. ASSUME NEW o \in Operators, CheckConfiguration(o) PROVE Forms'
    BY <1>14 DEF Inv, Forms, SaveSteps, CheckConfiguration, Goto
  <1>15. ASSUME NEW o \in Operators, PutSecret(o) PROVE Forms'
    BY <1>15 DEF Inv, Forms, SaveSteps, PutSecret, Goto
  <1>16. ASSUME NEW o \in Operators, DeleteSecret(o) PROVE Forms'
    BY <1>16 DEF Inv, Forms, DeleteSecret, vault
  <1>17. ASSUME NEW o \in Operators, BeginConfiguration(o) PROVE Forms'
    BY <1>17 DEF Inv, TypeOK, Forms, BeginConfiguration, BeginSave, Goto
  <1>18. ASSUME NEW o \in Operators, CheckSecret(o) PROVE Forms'
    BY <1>18 DEF Inv, Forms, SaveSteps, CheckSecret, Goto
  <1>19. ASSUME NEW o \in Operators, PutConfiguration(o) PROVE Forms'
    BY <1>19 DEF Inv, Forms, SaveSteps, PutConfiguration, Goto
  <1>20. ASSUME NEW o \in Operators, DeleteConfiguration(o) PROVE Forms'
    BY <1>20 DEF Inv, Forms, DeleteConfiguration, vault
  <1>21. CASE Job
    BY <1>21, JobFrame DEF Inv, Forms, vault
  <1>22. CASE Restart
    BY <1>22 DEF Forms, SaveSteps, Restart, ProcessRestarts
  <1> QED
    BY <1>1, <1>2, <1>3, <1>4, <1>5, <1>6, <1>7, <1>7b, <1>8, <1>9, <1>10, <1>11, <1>12, <1>13, <1>14,
       <1>15, <1>16, <1>17, <1>18, <1>19, <1>20, <1>21, <1>22 DEF Next, Vaults, VaultStep, Edit

\* Requests can be counted, one fewer when one of them leaves.
LEMMA Counting ==
    /\ Others \in Nat
    /\ \A S \in SUBSET Operators : Cardinality(S) \in Nat
    /\ \A S \in SUBSET Operators, o \in Operators :
          /\ o \in S => Cardinality(S \ {o}) = Cardinality(S) - 1
          /\ Cardinality(S \ {o}) <= Others
    /\ Cardinality({}) = 0
  <1>1. \A S \in SUBSET Operators : IsFiniteSet(S) /\ Cardinality(S) \in Nat
    BY OperatorsAssumption, FS_Subset, FS_CardinalityType
  <1>2. \A S \in SUBSET Operators, o \in Operators : o \in S => Cardinality(S \ {o}) = Cardinality(S) - 1
    BY <1>1, FS_RemoveElement
  <1>3. Cardinality({}) = 0
    BY FS_EmptySet
  <1>4. PICK p \in Operators : TRUE
    BY OperatorsAssumption
  <1>5. Others = Cardinality(Operators \ {p}) /\ Cardinality(Operators \ {p}) \in Nat
    <2> QED BY <1>1, <1>2 DEF Others
  <1>6. ASSUME NEW S \in SUBSET Operators, NEW o \in Operators PROVE Cardinality(S \ {o}) <= Others
    <2>1. S \ {o} \subseteq Operators \ {o} /\ IsFiniteSet(Operators \ {o})
      BY <1>1
    <2>2. Cardinality(S \ {o}) <= Cardinality(Operators \ {o})
      BY <2>1, FS_Subset
    <2>3. Cardinality(Operators \ {o}) = Others
      BY <1>2 DEF Others
    <2> QED BY <2>2, <2>3
  <1> QED BY <1>1, <1>2, <1>3, <1>5, <1>6

\* Who neither guesses nor begins to during a lockout does not disturb the throttle.
LEMMA ThrottleFrame ==
    ASSUME Inv, UNCHANGED attempts,
           \A p \in Operators : pc'[p] = "validating" => pc[p] = "validating" \/ ~lockedOut
    PROVE  Throttle'
  BY DEF Inv, Throttle, attempts

\* Every step keeps the count of the guesses.
LEMMA NextThrottle ==
    ASSUME Inv, [Next]_vars
    PROVE  Throttle'
  <1>1. CASE UNCHANGED vars
    BY <1>1, ThrottleFrame DEF vars, vault, attempts
  <1>2. CASE LockoutExpires /\ UNCHANGED <<tables, form, edits, locals, had, history>>
    <2>1. ~lockedOut' /\ guesses' = 0 /\ UNCHANGED <<failures, covered>> /\ failures = 0
      BY <1>2 DEF Inv, Throttle, LockoutExpires
    <2>2. Cardinality(covered) <= Others /\ Cardinality(covered) \in Nat
      BY Counting DEF Inv, TypeOK, Throttle
    <2> QED BY <2>1, <2>2, Counting DEF Throttle
  <1>3. ASSUME NEW o \in Operators, BeginSetup(o),
               UNCHANGED <<tables, form, edits, locals, had, history>>
        PROVE Throttle'
    <2>1. \A p \in Operators : pc'[p] = "validating" => pc[p] = "validating" \/ ~lockedOut
      BY <1>3 DEF BeginSetup, Goto
    <2> QED BY <1>3, <2>1, ThrottleFrame DEF BeginSetup
  <1>4. ASSUME NEW o \in Operators, InitializeSecurity(o),
               UNCHANGED <<tables, form, edits, locals, had, history>>
        PROVE Throttle'
    <2>1. \A p \in Operators : pc'[p] = "validating" => pc[p] = "validating" \/ ~lockedOut
      BY <1>4 DEF Inv, TypeOK, InitializeSecurity, Goto
    <2> QED BY <1>4, <2>1, ThrottleFrame DEF InitializeSecurity
  <1>5. ASSUME NEW o \in Operators, BeginUnlock(o),
               UNCHANGED <<tables, form, edits, locals, had, history>>
        PROVE Throttle'
    <2> QED BY <1>5, ThrottleFrame DEF BeginUnlock
  <1>6. ASSUME NEW o \in Operators, WrongPassword(o),
               UNCHANGED <<tables, form, edits, locals, had, history>>
        PROVE Throttle'
    <2>1. lockedOut => o \in covered
      BY <1>6 DEF Inv, Throttle, WrongPassword
    <2>2. \A p \in Operators : pc'[p] = "validating" => pc[p] = "validating" /\ p # o
      BY <1>6 DEF Inv, TypeOK, WrongPassword, Goto
    <2>3. covered \in SUBSET Operators /\ failures \in 0 .. MaxFailures - 1 /\ guesses \in Nat
      BY DEF Inv, TypeOK
    <2>4. guesses' = guesses + 1 /\ RegisterFailedUnlock(o)
      BY <1>6 DEF WrongPassword
    <2>5. CASE o \in covered
      <3>1. covered' = covered \ {o} /\ UNCHANGED <<failures, lockedOut>>
        BY <2>4, <2>5 DEF RegisterFailedUnlock
      <3>2. Cardinality(covered') = Cardinality(covered) - 1 /\ Cardinality(covered) \in Nat
        BY <2>3, <2>5, <3>1, Counting
      <3>3. lockedOut => \A p \in Operators : pc'[p] = "validating" => p \in covered'
        BY <2>2, <3>1 DEF Inv, Throttle
      <3> QED BY <2>3, <2>4, <3>1, <3>2, <3>3, Counting DEF Inv, Throttle
    <2>6. CASE o \notin covered /\ failures + 1 < MaxFailures
      <3>1. failures' = failures + 1 /\ lockedOut' = FALSE /\ covered' = {}
        BY <2>3, <2>4, <2>6, MaxFailuresAssumption DEF RegisterFailedUnlock
      <3>2. guesses + Cardinality(covered) <= failures + Others /\ Cardinality(covered) \in Nat
        BY <2>1, <2>3, <2>6, Counting DEF Inv, Throttle
      <3> QED BY <2>3, <2>4, <3>1, <3>2, Counting DEF Throttle
    <2>7. CASE o \notin covered /\ failures + 1 >= MaxFailures
      <3> DEFINE V == {p \in Operators : pc[p] = "validating"}
      <3>1. failures' = 0 /\ lockedOut' = TRUE /\ covered' = V \ {o}
        BY <2>3, <2>4, <2>7, MaxFailuresAssumption DEF RegisterFailedUnlock
      <3>2. guesses + Cardinality(covered) <= failures + Others /\ Cardinality(covered) \in Nat
        BY <2>1, <2>3, <2>7, Counting DEF Inv, Throttle
      <3>3. Cardinality(covered') <= Others /\ Cardinality(covered') \in Nat
        BY <3>1, Counting
      <3>4. \A p \in Operators : pc'[p] = "validating" => p \in covered'
        BY <2>2, <3>1
      <3>5. guesses' + Cardinality(covered') <= MaxFailures + 2 * Others
        BY <2>3, <2>4, <3>2, <3>3, Counting, MaxFailuresAssumption
      <3> QED BY <3>1, <3>3, <3>4, <3>5 DEF Throttle
    <2> QED BY <2>3, <2>5, <2>6, <2>7, MaxFailuresAssumption
  <1>7. ASSUME NEW o \in Operators, RightPassword(o),
               UNCHANGED <<tables, form, edits, locals, had, history>>
        PROVE Throttle'
    BY <1>7, Counting DEF Throttle, RightPassword
  <1>7b. ASSUME NEW o \in Operators, RateLimitUnavailable(o),
               UNCHANGED <<tables, form, edits, locals, had, history>>
        PROVE Throttle'
    <2>1. covered' = covered \ {o} /\ UNCHANGED <<failures, lockedOut, guesses>>
      BY <1>7b DEF RateLimitUnavailable
    <2>2. covered \in SUBSET Operators /\ failures \in Nat /\ guesses \in Nat
      BY DEF Inv, TypeOK
    <2>3. /\ Cardinality(covered') \in Nat /\ Cardinality(covered) \in Nat
          /\ Cardinality(covered') <= Cardinality(covered)
      <3>1. CASE o \in covered
        BY <2>1, <2>2, <3>1, Counting
      <3>2. CASE o \notin covered
        <4>1. covered' = covered
          BY <2>1, <3>2
        <4> QED BY <2>2, <4>1, Counting
      <3> QED BY <3>1, <3>2
    <2>4. lockedOut => \A p \in Operators : pc'[p] = "validating" => p \in covered'
      BY <1>7b, <2>1 DEF Inv, TypeOK, Throttle, RateLimitUnavailable, Goto
    <2> QED BY <2>1, <2>2, <2>3, <2>4, Counting, MaxFailuresAssumption DEF Inv, Throttle
  <1>8. ASSUME NEW o \in Operators, SetKey(o),
               UNCHANGED <<tables, form, edits, locals, had, history>>
        PROVE Throttle'
    <2>1. \A p \in Operators : pc'[p] = "validating" => pc[p] = "validating" \/ ~lockedOut
      BY <1>8 DEF SetKey, Goto
    <2> QED BY <1>8, <2>1, ThrottleFrame DEF SetKey
  <1>9. ASSUME NEW o \in Operators, NewSession(o),
               UNCHANGED <<tables, form, edits, locals, had, history>>
        PROVE Throttle'
    <2>1. \A p \in Operators : pc'[p] = "validating" => pc[p] = "validating" \/ ~lockedOut
      BY <1>9 DEF NewSession, Goto
    <2> QED BY <1>9, <2>1, ThrottleFrame DEF NewSession
  <1>10. ASSUME NEW o \in Operators, SessionExpires(o),
               UNCHANGED <<tables, form, edits, locals, had, history>>
        PROVE Throttle'
    <2>1. \A p \in Operators : pc'[p] = "validating" => pc[p] = "validating" \/ ~lockedOut
      BY <1>10 DEF SessionExpires, requests
    <2> QED BY <1>10, <2>1, ThrottleFrame DEF SessionExpires
  <1>11. ASSUME NEW o \in Operators, Lock(o),
               UNCHANGED <<tables, form, edits, locals, had, history>>
        PROVE Throttle'
    <2>1. \A p \in Operators : pc'[p] = "validating" => pc[p] = "validating" \/ ~lockedOut
      BY <1>11 DEF Lock, requests
    <2> QED BY <1>11, <2>1, ThrottleFrame DEF Lock
  <1>12. ASSUME NEW o \in Operators, BeginSecret(o) PROVE Throttle'
    <2>1. \A p \in Operators : pc'[p] = "validating" => pc[p] = "validating" \/ ~lockedOut
      BY <1>12 DEF BeginSecret, BeginSave, Goto
    <2> QED BY <1>12, <2>1, ThrottleFrame DEF BeginSecret, BeginSave
  <1>13. ASSUME NEW o \in Operators, SealSecret(o) PROVE Throttle'
    <2>1. \A p \in Operators : pc'[p] = "validating" => pc[p] = "validating" \/ ~lockedOut
      BY <1>13 DEF SealSecret, Goto
    <2> QED BY <1>13, <2>1, ThrottleFrame DEF SealSecret
  <1>14. ASSUME NEW o \in Operators, CheckConfiguration(o) PROVE Throttle'
    <2>1. \A p \in Operators : pc'[p] = "validating" => pc[p] = "validating" \/ ~lockedOut
      BY <1>14 DEF CheckConfiguration, Goto
    <2> QED BY <1>14, <2>1, ThrottleFrame DEF CheckConfiguration
  <1>15. ASSUME NEW o \in Operators, PutSecret(o) PROVE Throttle'
    <2>1. \A p \in Operators : pc'[p] = "validating" => pc[p] = "validating" \/ ~lockedOut
      BY <1>15 DEF PutSecret, Goto
    <2> QED BY <1>15, <2>1, ThrottleFrame DEF PutSecret
  <1>16. ASSUME NEW o \in Operators, DeleteSecret(o) PROVE Throttle'
    <2> QED BY <1>16, ThrottleFrame DEF DeleteSecret, vault, attempts
  <1>17. ASSUME NEW o \in Operators, BeginConfiguration(o) PROVE Throttle'
    <2>1. \A p \in Operators : pc'[p] = "validating" => pc[p] = "validating" \/ ~lockedOut
      BY <1>17 DEF BeginConfiguration, BeginSave, Goto
    <2> QED BY <1>17, <2>1, ThrottleFrame DEF BeginConfiguration, BeginSave
  <1>18. ASSUME NEW o \in Operators, CheckSecret(o) PROVE Throttle'
    <2>1. \A p \in Operators : pc'[p] = "validating" => pc[p] = "validating" \/ ~lockedOut
      BY <1>18 DEF CheckSecret, Goto
    <2> QED BY <1>18, <2>1, ThrottleFrame DEF CheckSecret
  <1>19. ASSUME NEW o \in Operators, PutConfiguration(o) PROVE Throttle'
    <2>1. \A p \in Operators : pc'[p] = "validating" => pc[p] = "validating" \/ ~lockedOut
      BY <1>19 DEF PutConfiguration, Goto
    <2> QED BY <1>19, <2>1, ThrottleFrame DEF PutConfiguration
  <1>20. ASSUME NEW o \in Operators, DeleteConfiguration(o) PROVE Throttle'
    <2> QED BY <1>20, ThrottleFrame DEF DeleteConfiguration, vault, attempts
  <1>21. CASE Job
    BY <1>21, JobFrame, ThrottleFrame DEF vault, attempts
  <1>22. CASE Restart
    <2>1. UNCHANGED <<failures, lockedOut, guesses>> /\ covered' = {}
      BY <1>22 DEF Restart, ProcessRestarts
    <2>2. Cardinality(covered') = 0 /\ Cardinality(covered) \in Nat
      BY <2>1, Counting DEF Inv, TypeOK
    <2>3. \A p \in Operators : pc'[p] # "validating"
      BY <1>22 DEF Restart, ProcessRestarts
    <2>4. failures \in Nat /\ guesses \in Nat
      BY DEF Inv, TypeOK
    <2> QED BY <2>1, <2>2, <2>3, <2>4, Counting, MaxFailuresAssumption DEF Inv, Throttle
  <1> QED
    BY <1>1, <1>2, <1>3, <1>4, <1>5, <1>6, <1>7, <1>7b, <1>8, <1>9, <1>10, <1>11, <1>12, <1>13, <1>14,
       <1>15, <1>16, <1>17, <1>18, <1>19, <1>20, <1>21, <1>22 DEF Next, Vaults, VaultStep, Edit

\* What the tables get while a job is running is noted.
LEMMA NoteAssembly ==
    ASSUME Inv, Note, UNCHANGED locals
    PROVE  Assembly'
  <1>1. CASE job = "idle"
    BY <1>1 DEF Assembly, locals
  <1>2. CASE job # "idle"
    <2>1. ASSUME NEW n \in Names
          PROVE  /\ secretHad[n] \subseteq secretHad'[n] /\ publicHad[n] \subseteq publicHad'[n]
                 /\ secrets'[n].value \in secretHad'[n] /\ config'[n] \in publicHad'[n]
      BY <1>2 DEF Note
    <2> QED BY <2>1 DEF Inv, Assembly, locals
  <1> QED BY <1>1, <1>2

\* A step that changes neither the tables nor the job.
LEMMA AssemblyFrame ==
    ASSUME Inv, UNCHANGED <<tables, locals, had>>
    PROVE  Assembly'
  BY DEF Inv, Assembly, tables, locals, had

\* An idle worker has nothing assembled.
LEMMA JobEndsAssembly == JobEnds => Assembly'
  BY DEF JobEnds, Assembly

\* Every step keeps what the job has read.
LEMMA NextAssembly ==
    ASSUME Inv, [Next]_vars
    PROVE  Assembly'
  <1>1. CASE UNCHANGED vars
    BY <1>1, AssemblyFrame DEF vars, tables, locals, had
  <1>2. CASE Vaults
    BY <1>2, VaultsFrame, AssemblyFrame
  <1>3. ASSUME NEW o \in Operators, BeginSecret(o) PROVE Assembly'
    BY <1>3, AssemblyFrame DEF BeginSecret, BeginSave
  <1>4. ASSUME NEW o \in Operators, SealSecret(o) PROVE Assembly'
    BY <1>4, AssemblyFrame DEF SealSecret
  <1>5. ASSUME NEW o \in Operators, CheckConfiguration(o) PROVE Assembly'
    BY <1>5, AssemblyFrame DEF CheckConfiguration
  <1>6. ASSUME NEW o \in Operators, PutSecret(o) PROVE Assembly'
    BY <1>6, NoteAssembly DEF PutSecret
  <1>7. ASSUME NEW o \in Operators, DeleteSecret(o) PROVE Assembly'
    BY <1>7, NoteAssembly DEF DeleteSecret
  <1>8. ASSUME NEW o \in Operators, BeginConfiguration(o) PROVE Assembly'
    BY <1>8, AssemblyFrame DEF BeginConfiguration, BeginSave
  <1>9. ASSUME NEW o \in Operators, CheckSecret(o) PROVE Assembly'
    BY <1>9, AssemblyFrame DEF CheckSecret
  <1>10. ASSUME NEW o \in Operators, PutConfiguration(o) PROVE Assembly'
    BY <1>10, NoteAssembly DEF PutConfiguration
  <1>11. ASSUME NEW o \in Operators, DeleteConfiguration(o) PROVE Assembly'
    BY <1>11, NoteAssembly DEF DeleteConfiguration
  <1>12. CASE BeginJob
    BY <1>12 DEF Assembly, BeginJob, tables
  <1>13. CASE ListSecrets
    <2>1. \A n \in Names : n \notin pending' => secrets[n].value = 0
      BY <1>13 DEF ListSecrets, NoSecret
    <2>2. \A n \in Names : secrets[n].value \in secretHad[n] /\ unsealed'[n] = 0
      BY <1>13 DEF Inv, Assembly, ListSecrets, Nothing
    <2> QED BY <1>13, <2>1, <2>2 DEF Inv, Assembly, ListSecrets, tables, had
  <1>14. CASE CopyKey
    <2>1. CASE key # NoKey
      BY <1>14, <2>1 DEF Inv, Assembly, CopyKey, tables, had
    <2> QED BY <1>14, <2>1, JobEndsAssembly DEF CopyKey
  <1>15. CASE ReadSecret
    <2> DEFINE n == Min(pending)
    <2>1. n \in pending /\ n \in Names
      BY <1>15, MinPending DEF Inv, TypeOK, ReadSecret
    <2> HIDE DEF n
    <2>2. CASE /\ secrets[n].key = jobKey
               /\ unsealed' = [unsealed EXCEPT ![n] = secrets[n].value]
               /\ pending' = pending \ {n}
               /\ job' = (IF pending' = {} THEN "assembled" ELSE "reading")
               /\ UNCHANGED <<public, jobKey, had>>
      <3>1. secrets[n] # NoSecret /\ job = "reading" /\ UNCHANGED tables
        BY <1>15, <2>2 DEF Inv, Assembly, ReadSecret, NoSecret
      <3>2. unsealed'[n] # 0 /\ unsealed'[n] \in secretHad[n]
        BY <2>1, <2>2, <3>1, ValuesAssumption DEF Inv, TypeOK, Sealed, Assembly
      <3> QED BY <2>2, <3>1, <3>2 DEF Inv, Assembly, tables, had
    <2> QED BY <1>15, <2>2, JobEndsAssembly DEF ReadSecret, n
  <1>16. CASE Deploy
    BY <1>16, JobEndsAssembly DEF Deploy, Record
  <1>17. CASE Rollback
    BY <1>17, JobEndsAssembly DEF Rollback, Record
  <1>18. CASE Restart
    BY <1>18, JobEndsAssembly DEF Restart
  <1> QED
    BY <1>1, <1>2, <1>3, <1>4, <1>5, <1>6, <1>7, <1>8, <1>9, <1>10, <1>11, <1>12, <1>13, <1>14,
       <1>15, <1>16, <1>17, <1>18 DEF Next, Edit, Job

\* What the history says of the last release.
History == Targets /\ DeploymentIsWhole /\ RollbackRestores

\* A recorded release is the latest, and the earlier ones stay.
LEMMA Recorded ==
    ASSUME TypeOK, NEW kind, NEW target, NEW manifest, NEW env, Record(kind, target, manifest, env)
    PROVE  /\ Latest' = [manifest |-> manifest, env |-> env]
           /\ Len(releases') # 0
           /\ \A t \in DOMAIN releases : t \in DOMAIN releases' /\ releases'[t] = releases[t]
           /\ last'.kind = kind /\ last'.target = target
           /\ last'.secretHad = secretHad /\ last'.publicHad = publicHad
  <1> QED BY DEF Latest, Record

\* A deployed release has what the job put together.
LEMMA DeployHistory ==
    ASSUME Inv, Deploy
    PROVE  History'
  <1>1. Record("deploy", 0, public, Over(unsealed, public)) /\ job = "assembled"
    BY DEF Deploy
  <1>2. /\ Latest'.env = Over(unsealed, public) /\ Len(releases') # 0
        /\ last'.kind = "deploy" /\ last'.secretHad = secretHad /\ last'.publicHad = publicHad
    BY <1>1, Recorded DEF Inv
  <1>3. ASSUME NEW n \in Names
        PROVE  /\ 0 \notin secretHad[n] => Over(unsealed, public)[n] \in secretHad[n]
               /\ Over(unsealed, public)[n] \in secretHad[n] \cup publicHad[n]
    BY <1>1 DEF Inv, Assembly, Over
  <1> QED BY <1>2, <1>3 DEF History, Targets, DeploymentIsWhole, RollbackRestores

\* A rollback has what its target recorded.
LEMMA RollbackHistory ==
    ASSUME Inv, Rollback
    PROVE  History'
  <1>1. PICK t \in DOMAIN releases :
           Record("rollback", t, releases[t].manifest,
                  RollbackConfiguration(Over(unsealed, public), public, releases[t].manifest))
    BY DEF Rollback
  <1> DEFINE recorded == releases[t].manifest
             env == RollbackConfiguration(Over(unsealed, public), public, recorded)
  <1>2. /\ Latest' = [manifest |-> recorded, env |-> env] /\ Len(releases') # 0
        /\ t \in DOMAIN releases' /\ releases'[t] = releases[t]
        /\ last'.kind = "rollback" /\ last'.target = t /\ last'.secretHad = secretHad
    BY <1>1, Recorded DEF Inv
  <1>3. ASSUME NEW n \in Names
        PROVE  IF recorded[n] # 0 THEN env[n] = recorded[n] ELSE env[n] \in secretHad[n] \cup {0}
    <2>1. env[n] = IF recorded[n] # 0 THEN recorded[n]
                   ELSE IF public[n] # 0 THEN 0 ELSE Over(unsealed, public)[n]
      BY DEF RollbackConfiguration, Over
    <2>2. Over(unsealed, public)[n] = IF unsealed[n] # 0 THEN unsealed[n] ELSE public[n]
      BY DEF Over
    <2>3. unsealed[n] # 0 => unsealed[n] \in secretHad[n]
      BY DEF Inv, Assembly, Rollback
    <2> QED BY <2>1, <2>2, <2>3
  <1> HIDE DEF env
  <1> QED BY <1>2, <1>3 DEF History, Targets, DeploymentIsWhole, RollbackRestores

\* Nothing else touches the history.
LEMMA NextHistory ==
    ASSUME Inv, [Next]_vars
    PROVE  History'
  <1>1. CASE UNCHANGED history
    BY <1>1 DEF Inv, History, Targets, DeploymentIsWhole, RollbackRestores, Latest, history
  <1>2. CASE Job
    <2>1. CASE BeginJob \/ ListSecrets \/ CopyKey \/ ReadSecret
      BY <1>1, <2>1 DEF BeginJob, ListSecrets, CopyKey, ReadSecret
    <2> QED BY <1>2, <2>1, DeployHistory, RollbackHistory DEF Job
  <1>3. CASE UNCHANGED vars
    BY <1>1, <1>3 DEF vars, history
  <1>4. CASE Vaults
    BY <1>1, <1>4, VaultsFrame
  <1>5. ASSUME NEW o \in Operators, Edit(o) PROVE UNCHANGED history
    BY <1>5, EditFrame
  <1>6. CASE Restart
    BY <1>1, <1>6 DEF Restart
  <1> QED BY <1>1, <1>2, <1>3, <1>4, <1>5, <1>6 DEF Next

-----------------------------------------------------------------------------
\* A fresh database without a release.
LEMMA InitInv == Init => Inv
  <1> SUFFICES ASSUME Init PROVE Inv
    OBVIOUS
  <1>1. TypeOK
    <2>1. failures \in 0 .. MaxFailures - 1 /\ guesses \in Nat
      BY MaxFailuresAssumption DEF Init, VaultInit
    <2>2. unlocks \in Nat /\ restarts \in Nat /\ edits \in Nat /\ jobs \in Nat
      BY BudgetsAssumption DEF Init
    <2>3. lockedOut \in BOOLEAN /\ covered \subseteq Operators /\ sessions \subseteq Operators
      BY DEF Init, VaultInit
    <2> QED BY <2>1, <2>2, <2>3 DEF Init, VaultInit, TypeOK, Keys, VaultSteps, JobSteps, Optional,
               Nothing, NoForm, NoSecret
  <1>2. Keyed /\ Sealed /\ Forms
    BY DEF Init, VaultInit, Keyed, KeyIsVerified, Sealed, Forms, SaveSteps
  <1>3. Throttle
    BY Counting DEF Init, VaultInit, Throttle
  <1>4. Assembly
    BY DEF Init, Assembly
  <1>5. Targets /\ DeploymentIsWhole /\ RollbackRestores
    BY DEF Init, NoRelease, Targets, DeploymentIsWhole, RollbackRestores
  <1> QED BY <1>1, <1>2, <1>3, <1>4, <1>5 DEF Inv

\* The invariant is inductive.
THEOREM Invariance == Spec => []Inv
  <1>1. Inv /\ [Next]_vars => Inv'
    BY NextTypes, NextKeyed, NextSealed, NextForms, NextThrottle, NextAssembly, NextHistory DEF
       Inv, History
  <1> QED BY <1>1, InitInv, PTL DEF Spec

\* Every state that setups, unlocks, saves, jobs and restarts reach is well typed.
THEOREM TypeCorrect == Spec => []TypeOK
  <1>1. Inv => TypeOK
    BY DEF Inv
  <1> QED BY <1>1, Invariance, PTL

\* Whatever races with the first setup or a lock, the process holds the verified key or
\* none, and every stored secret opens with it.
THEOREM ReadableSecrets == Spec => []SecretsReadable
  <1>1. Inv => SecretsReadable
    BY DEF Inv, Keyed, Sealed, SecretsReadable
  <1> QED BY <1>1, Invariance, PTL

\* Concurrent guesses and restarts never get past the throttle by more than the
\* requests that were in flight when a lockout began.
THEOREM BoundedGuesses == Spec => []GuessesBounded
  <1>1. Inv => GuessesBounded
    <2> SUFFICES ASSUME Inv PROVE GuessesBounded
      OBVIOUS
    <2>1. guesses \in Nat /\ failures \in 0 .. MaxFailures - 1 /\ Cardinality(covered) \in Nat
      BY Counting DEF Inv, TypeOK
    <2>2. guesses <= MaxFailures + 2 * Others
      BY <2>1, Counting, MaxFailuresAssumption DEF Inv, Throttle
    <2> QED BY <2>2 DEF GuessesBounded, Others
  <1> QED BY <1>1, Invariance, PTL

\* However edits and locks interleave with the job, a deployed release has every secret
\* that existed all the while, and only values that were stored meanwhile.
THEOREM WholeDeployment == Spec => []DeploymentIsWhole
  <1>1. Inv => DeploymentIsWhole
    BY DEF Inv
  <1> QED BY <1>1, Invariance, PTL

\* A rollback, to a rollback too, runs the public values that its target recorded.
THEOREM RestoringRollback == Spec => []RollbackRestores
  <1>1. Inv => RollbackRestores
    BY DEF Inv
  <1> QED BY <1>1, Invariance, PTL

=============================================================================
