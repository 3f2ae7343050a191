-------------------------------- MODULE Vault --------------------------------
(***************************************************************************)
(* The master key of MiniDock: first setup, unlocking with a throttle,     *)
(* locking and sessions (internal/app/server.go), with the verifier and    *)
(* the attempts that SQLite keeps (internal/store/store.go).               *)
(*                                                                         *)
(* Requests run concurrently.  A request derives its key for a long time   *)
(* without holding anything, so its steps interleave with everything else. *)
(* The key that a setup derives from its own fresh salt is named after the *)
(* request that made it; an unlock with the right password derives the key *)
(* that the verifier was made with.                                        *)
(***************************************************************************)
EXTENDS Integers, FiniteSets

CONSTANTS
    Operators,   \* concurrent requests, all from one origin
    NoKey,
    MaxFailures  \* wrong passwords that start a lockout (5 in the code)

ASSUME OperatorsAssumption == NoKey \notin Operators /\ IsFiniteSet(Operators) /\ Operators # {}
ASSUME MaxFailuresAssumption == MaxFailures \in Nat \ {0}

VARIABLES
    verifier,  \* the key that the stored verifier accepts
    failures,  \* unlock_attempts.failed_attempts
    lockedOut, \* is unlock_attempts.lockout_until in the future?
    covered,   \* requests in flight that arrived before that instant
    guesses,   \* passwords called wrong since the attempts were last forgiven
    key,       \* App.key
    sessions,  \* requests whose session App.sessions knows
    pc,
    derived,   \* the key a request holds
    unlocks,   \* bound: attempts to unlock that may still come
    restarts   \* bound: restarts that may still come

attempts == <<failures, lockedOut, covered, guesses>>
memory == <<key, sessions>>
requests == <<pc, derived>>
bounds == <<unlocks, restarts>>
vault == <<verifier, failures, lockedOut, covered, guesses, key, sessions, pc, derived,
           unlocks, restarts>>

Keys == Operators \cup {NoKey}

VaultSteps == {"idle", "settingUp", "validating", "keying", "opening"}

VaultInit ==
    /\ verifier = NoKey
    /\ failures = 0 /\ lockedOut = FALSE /\ covered = {} /\ guesses = 0
    /\ key = NoKey /\ sessions = {}
    /\ pc = [o \in Operators |-> "idle"]
    /\ derived = [o \in Operators |-> NoKey]

Goto(o, step) == pc' = [pc EXCEPT ![o] = step]

\* A session counts only while there is a key.
Authorized(o) == key # NoKey /\ o \in sessions

-----------------------------------------------------------------------------
(***************************************************************************)
(* setup.                                                                  *)
(***************************************************************************)

BeginSetup(o) ==
    /\ pc[o] = "idle"
    /\ verifier = NoKey
    /\ Goto(o, "settingUp")
    /\ UNCHANGED <<verifier, attempts, memory, derived, bounds>>

\* Mutant: the rows are replaced when they are already there.
InitializeByUpsert(o) ==
    /\ pc[o] = "settingUp"
    /\ verifier' = o
    /\ derived' = [derived EXCEPT ![o] = o]
    /\ Goto(o, "keying")
    /\ UNCHANGED <<attempts, memory, bounds>>

\* One transaction of three INSERTs: a second setup finds the rows and fails.
InitializeSecurity(o) ==
    /\ pc[o] = "settingUp"
    /\ \/ /\ verifier = NoKey
          /\ verifier' = o
          /\ derived' = [derived EXCEPT ![o] = o]
          /\ Goto(o, "keying")
       \/ /\ verifier # NoKey
          /\ Goto(o, "idle")
          /\ UNCHANGED <<verifier, derived>>
    /\ UNCHANGED <<attempts, memory, bounds>>

-----------------------------------------------------------------------------
(***************************************************************************)
(* unlock.  The lockout is read when the request arrives, and the arrival  *)
(* is the instant every later comparison uses.                             *)
(***************************************************************************)

BeginUnlock(o) ==
    /\ pc[o] = "idle"
    /\ ~lockedOut
    /\ verifier # NoKey
    /\ unlocks > 0
    /\ unlocks' = unlocks - 1
    /\ Goto(o, "validating")
    /\ UNCHANGED <<verifier, attempts, memory, derived, restarts>>

\* Mutant: the fifth failure is forgotten without a lockout.
RegisterWithoutLockout(o) ==
    /\ failures' = IF failures + 1 >= MaxFailures THEN 0 ELSE failures + 1
    /\ UNCHANGED <<lockedOut, covered>>

\* A request that arrived before the end of a lockout changes nothing.  Any
\* other one overwrites the row, and the last of MaxFailures locks everybody
\* out: those who are already here are covered by it.
RegisterFailedUnlock(o) ==
    \/ /\ o \in covered
       /\ covered' = covered \ {o}
       /\ UNCHANGED <<failures, lockedOut>>
    \/ /\ o \notin covered
       /\ failures + 1 < MaxFailures
       /\ failures' = failures + 1
       /\ lockedOut' = FALSE
       /\ covered' = {}
    \/ /\ o \notin covered
       /\ failures + 1 >= MaxFailures
       /\ failures' = 0
       /\ lockedOut' = TRUE
       /\ covered' = {p \in Operators : pc[p] = "validating"} \ {o}

WrongPassword(o) ==
    /\ pc[o] = "validating"
    /\ RegisterFailedUnlock(o)
    /\ guesses' = guesses + 1
    /\ Goto(o, "idle")
    /\ UNCHANGED <<verifier, memory, derived, bounds>>

\* ClearUnlockFailures deletes the row, with a lockout that began meanwhile.
RightPassword(o) ==
    /\ pc[o] = "validating"
    /\ failures' = 0 /\ lockedOut' = FALSE /\ covered' = {} /\ guesses' = 0
    /\ derived' = [derived EXCEPT ![o] = verifier]
    /\ Goto(o, "keying")
    /\ UNCHANGED <<verifier, memory, bounds>>

\* The failure of a wrong password cannot be counted, or that of a right one cannot be
\* cleared: the same answer for both, and the key is thrown away.
RateLimitUnavailable(o) ==
    /\ pc[o] = "validating"
    /\ covered' = covered \ {o}
    /\ Goto(o, "idle")
    /\ UNCHANGED <<verifier, failures, lockedOut, guesses, memory, derived, bounds>>

LockoutExpires ==
    /\ lockedOut
    /\ lockedOut' = FALSE
    /\ guesses' = 0
    /\ UNCHANGED <<verifier, failures, covered, memory, requests, bounds>>

-----------------------------------------------------------------------------
(***************************************************************************)
(* The key and the sessions of the process, under App.mu one at a time.    *)
(***************************************************************************)

SetKey(o) ==
    /\ pc[o] = "keying"
    /\ key' = derived[o]
    /\ derived' = [derived EXCEPT ![o] = NoKey]
    /\ Goto(o, "opening")
    /\ UNCHANGED <<verifier, attempts, sessions, bounds>>

NewSession(o) ==
    /\ pc[o] = "opening"
    /\ sessions' = sessions \cup {o}
    /\ Goto(o, "idle")
    /\ UNCHANGED <<verifier, attempts, key, derived, bounds>>

SessionExpires(o) ==
    /\ o \in sessions
    /\ sessions' = sessions \ {o}
    /\ UNCHANGED <<verifier, attempts, key, requests, bounds>>

Lock(o) ==
    /\ pc[o] = "idle"
    /\ Authorized(o)
    /\ key' = NoKey
    /\ sessions' = {}
    /\ UNCHANGED <<verifier, attempts, requests, bounds>>

\* Everything in memory is lost; SQLite keeps the verifier and the attempts.
ProcessRestarts ==
    /\ restarts > 0
    /\ restarts' = restarts - 1
    /\ key' = NoKey
    /\ sessions' = {}
    /\ pc' = [o \in Operators |-> "idle"]
    /\ derived' = [o \in Operators |-> NoKey]
    /\ covered' = {}
    /\ UNCHANGED <<verifier, failures, lockedOut, guesses, unlocks>>

VaultStep(o) ==
    \/ BeginSetup(o) \/ InitializeSecurity(o)
    \/ BeginUnlock(o) \/ WrongPassword(o) \/ RightPassword(o) \/ RateLimitUnavailable(o)
    \/ SetKey(o) \/ NewSession(o) \/ SessionExpires(o) \/ Lock(o)

-----------------------------------------------------------------------------
(***************************************************************************)
(* Properties.                                                             *)
(***************************************************************************)

\* However setups, unlocks, locks and restarts interleave, the process holds the
\* key that the stored verifier accepts, or none: a setup that lost the race, or
\* a stale unlock, never installs another one.
KeyIsVerified == key \in {NoKey, verifier}

\* Requests that were already past the lockout check when it began are the only
\* guesses beyond the limit, across restarts too.  A guess is one that is told to be
\* wrong: a request whose attempt cannot be recorded is told nothing of its password.
GuessesBounded == guesses <= MaxFailures + 2 * (Cardinality(Operators) - 1)

=============================================================================
