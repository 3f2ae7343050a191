--------------------------- MODULE BlueGreenProofs ---------------------------
(***************************************************************************)
(* For any scenarios and any number of releases: what a Start that         *)
(* reports success leaves, which release a failed one leaves in its place, *)
(* where the route leads meanwhile, and what a first restart finds.        *)
(***************************************************************************)
EXTENDS BlueGreen, TLAPS

\* Start works on one of two pairs of names, in a process that is up, and has no
\* outcome yet.
Colours ==
    /\ <<active, staging>> \in {<<"primary", "candidate">>, <<"candidate", "next">>}
    /\ pc # "idle" => up /\ outcome = "none"
    /\ ~up => outcome = "none" /\ ~cancelled

\* From the captured address to the end of Start the staged container is the target,
\* and unless Caddy forgets it the route leads there once it has been applied.
Staged ==
    /\ pc \in {"waiting", "addressing"} => slot[staging] # 0
    /\ pc \in {"switching", "probing", "restoring", "retiring", "promoting"} =>
          target # 0 /\ slot[staging] = target
    /\ pc \in {"retiring", "promoting"} => verified = target
    /\ "reload" \notin Faults /\ pc \in {"probing", "restoring", "retiring", "promoting"} =>
          route = target

\* While only Caddy fails, the proven release keeps the name -candidate until its
\* successor is about to take it.
KeepsName ==
    OnlyCaddyFails =>
        /\ up /\ ~cancelled
        /\ slot["primary"] = 0 /\ slot["previous"] = 0
        /\ pc # "idle" /\ proven # 0 => staging = "next"
        /\ pc # "promoting" /\ proven # 0 => slot["candidate"] = proven
        /\ pc = "promoting" /\ staging = "next" => slot["candidate"] = 0

\* While nothing but releases fails, the route leads to the proven release or to the
\* staged one.
KeepsRoute ==
    /\ OnlyReleasesFail /\ crashes = 0 /\ proven # 0
    /\ pc \notin {"probing", "restoring", "retiring", "promoting"}
    => route = proven

\* What a first crash leaves of a switch.
FirstCrash ==
    OnlyReleasesFail /\ ~up /\ crashes <= 1 /\ proven # 0 =>
        \/ slot["candidate"] = proven
        \/ /\ slot["candidate"] = 0 /\ slot["primary"] = 0 /\ slot["previous"] = 0
           /\ route # 0 /\ slot["next"] = route /\ route = verified

Inv == TypeOK /\ Colours /\ Staged /\ SuccessServes /\ KeepsName /\ KeepsRoute /\ FirstCrash

-----------------------------------------------------------------------------
\* The releases of every scenario satisfy the invariant at first.
LEMMA InitInv == Init => Inv
  <1> SUFFICES ASSUME Init PROVE Inv
    OBVIOUS
  <1>1. scenario.crashes \in Nat /\ scenario \in Scenarios
    BY ScenariosAssumption DEF Init
  <1>2. TypeOK
    <2>1. /\ slot \in [Names -> 0 .. created] /\ route \in 0 .. created /\ created \in Nat
          /\ up \in BOOLEAN
      BY DEF Init, Empty
    <2>2. cancelled \in BOOLEAN
      BY DEF Init
    <2>3. /\ crashes \in 0 .. scenario.crashes /\ target \in 0 .. created
          /\ observed \in 0 .. created
      BY <1>1 DEF Init
    <2> QED BY <2>1, <2>2, <2>3 DEF Init, TypeOK, Names, Steps
  <1>3. Colours /\ Staged /\ SuccessServes
    BY DEF Init, Colours, Staged, SuccessServes
  <1>4. KeepsName /\ KeepsRoute /\ FirstCrash
    BY DEF Init, KeepsName, KeepsRoute, FirstCrash, OnlyCaddyFails, OnlyReleasesFail, Recent,
       Empty, Names, Exists
  <1> QED BY <1>2, <1>3, <1>4 DEF Inv

\* Every step keeps the types.
LEMMA NextTypes == Inv /\ [Next]_vars => TypeOK'
  <1> SUFFICES ASSUME Inv, [Next]_vars PROVE TypeOK'
    OBVIOUS
  <1>1. CASE UNCHANGED vars
    BY <1>1 DEF Inv, TypeOK, vars
  <1>2. CASE EnsureDockerNetworkFails /\ UNCHANGED scenario
    BY <1>2 DEF Inv, TypeOK, host, process, evidence, EnsureDockerNetworkFails
  <1>3. CASE BeginStart /\ UNCHANGED scenario
    <2>1. active' \in Names /\ staging' \in Names
      BY <1>3 DEF BeginStart, ActiveFor, StagingFor, Names
    <2>2. cancelled' \in BOOLEAN
      BY <1>3 DEF BeginStart
    <2> QED BY <1>3, <2>1, <2>2 DEF Inv, TypeOK, Steps, host, process, evidence, BeginStart, Goto
  <1>4. CASE ClearStaging /\ UNCHANGED scenario
    BY <1>4 DEF Inv, TypeOK, Steps, process, evidence, ClearStaging, TryRemove, Removed, Goto
  <1>5. CASE RunDockerContainer /\ UNCHANGED scenario
    BY <1>5 DEF Inv, TypeOK, Steps, process, evidence, RunDockerContainer, Goto, Fail
  <1>6. CASE RunDockerContainerFails /\ UNCHANGED scenario
    BY <1>6 DEF Inv, TypeOK, Steps, host, process, evidence, RunDockerContainerFails, Fail
  <1>7. CASE WaitHealthy /\ UNCHANGED scenario
    BY <1>7 DEF Inv, TypeOK, Steps, host, process, evidence, WaitHealthy, Goto
  <1>8. CASE DockerContainerTarget /\ UNCHANGED scenario
    BY <1>8 DEF Inv, TypeOK, Steps, host, process, evidence, DockerContainerTarget, Goto, Fail
  <1>9. CASE ApplyRoute /\ UNCHANGED scenario
    BY <1>9 DEF Inv, TypeOK, Steps, host, process, evidence, ApplyRoute, Goto
  <1>10. CASE VerifyRoute /\ UNCHANGED scenario
    BY <1>10 DEF Inv, TypeOK, Steps, host, process, VerifyRoute, Goto
  <1>11. CASE RestoreRoute /\ UNCHANGED scenario
    BY <1>11 DEF Inv, TypeOK, Steps, host, process, evidence, RestoreRoute, Goto
  <1>12. CASE DiscardStaging /\ UNCHANGED scenario
    BY <1>12 DEF Inv, TypeOK, Steps, process, evidence, DiscardStaging, TryRemove, Removed, Fail
  <1>13. CASE RetireActive /\ UNCHANGED scenario
    BY <1>13 DEF Inv, TypeOK, Steps, process, evidence, RetireActive, Goto, Fail, Removed
  <1>14. CASE PromoteStaging /\ UNCHANGED scenario
    BY <1>14 DEF Inv, TypeOK, Names, Steps, process, evidence, PromoteStaging, Succeed, Fail,
       Renamed
  <1>15. CASE ReconcileCandidate /\ UNCHANGED scenario
    BY <1>15 DEF Inv, TypeOK, Names, call, evidence, ReconcileCandidate, Reconciled, Removed
  <1>16. CASE ReconcilePrimary /\ UNCHANGED scenario
    BY <1>16 DEF Inv, TypeOK, Names, call, evidence, ReconcilePrimary, Reconciled, Removed
  <1>17. CASE ReconcilePrevious /\ UNCHANGED scenario
    BY <1>17 DEF Inv, TypeOK, Names, call, evidence, ReconcilePrevious, Reconciled, Renamed
  <1>18. CASE ReconcileNothing /\ UNCHANGED scenario
    BY <1>18 DEF Inv, TypeOK, call, evidence, ReconcileNothing, Reconciled
  <1>19. CASE CancelJob /\ UNCHANGED scenario
    BY <1>19 DEF Inv, TypeOK, host, process, evidence, CancelJob
  <1>20. CASE Crash /\ UNCHANGED scenario
    <2>1. crashes' \in 0 .. scenario'.crashes
      BY <1>20, ScenariosAssumption DEF Inv, TypeOK, Crash
    <2>2. cancelled' \in BOOLEAN /\ up' \in BOOLEAN
      BY <1>20 DEF Crash
    <2> QED BY <1>20, <2>1, <2>2 DEF Inv, TypeOK, Names, Steps, host, evidence, Crash
  <1>21. CASE CaddyRestart /\ UNCHANGED scenario
    BY <1>21 DEF Inv, TypeOK, host, call, process, evidence, CaddyRestart
  <1> QED
    BY <1>1, <1>2, <1>3, <1>4, <1>5, <1>6, <1>7, <1>8, <1>9, <1>10, <1>11, <1>12, <1>13, <1>14,
       <1>15, <1>16, <1>17, <1>18, <1>19, <1>20, <1>21 DEF Next, Start, Reconcile

\* What Start has staged stays staged, and its route applied, until it returns.
LEMMA NextStaged == Inv /\ [Next]_vars => (Colours /\ Staged)'
  <1> SUFFICES ASSUME Inv, [Next]_vars PROVE (Colours /\ Staged)'
    OBVIOUS
  <1>1. CASE UNCHANGED vars
    BY <1>1 DEF Inv, Colours, Staged, Faults, vars
  <1>2. CASE EnsureDockerNetworkFails /\ UNCHANGED scenario
    BY <1>2 DEF Inv, Colours, Staged, process, EnsureDockerNetworkFails
  <1>3. CASE BeginStart /\ UNCHANGED scenario
    BY <1>3 DEF Colours, Staged, process, BeginStart, StagingFor, ActiveFor, Goto
  <1>4. CASE ClearStaging /\ UNCHANGED scenario
    BY <1>4 DEF Inv, Colours, Staged, process, ClearStaging, Goto
  <1>5. CASE RunDockerContainer /\ UNCHANGED scenario
    BY <1>5 DEF Inv, TypeOK, Colours, Staged, process, RunDockerContainer, Goto, Fail
  <1>6. CASE RunDockerContainerFails /\ UNCHANGED scenario
    BY <1>6 DEF Inv, Colours, Staged, process, RunDockerContainerFails, Fail
  <1>7. CASE WaitHealthy /\ UNCHANGED scenario
    BY <1>7 DEF Inv, Colours, Staged, host, process, WaitHealthy, Goto
  <1>8. CASE DockerContainerTarget /\ UNCHANGED scenario
    BY <1>8 DEF Inv, Colours, Staged, host, process, DockerContainerTarget, Goto, Fail
  <1>9. CASE ApplyRoute /\ UNCHANGED scenario
    BY <1>9 DEF Inv, Colours, Staged, host, process, ApplyRoute, Goto
  <1>10. CASE VerifyRoute /\ UNCHANGED scenario
    BY <1>10 DEF Inv, Colours, Staged, Faults, host, process, VerifyRoute, Goto
  <1>11. CASE RestoreRoute /\ UNCHANGED scenario
    BY <1>11 DEF Inv, Colours, Staged, process, RestoreRoute, Goto
  <1>12. CASE DiscardStaging /\ UNCHANGED scenario
    BY <1>12 DEF Inv, Colours, Staged, process, DiscardStaging, Fail
  <1>13. CASE RetireActive /\ UNCHANGED scenario
    BY <1>13 DEF Inv, TypeOK, Colours, Staged, Faults, process, evidence, RetireActive, Fail,
       Removed
  <1>14. CASE PromoteStaging /\ UNCHANGED scenario
    BY <1>14 DEF Inv, Colours, Staged, process, PromoteStaging, Succeed, Fail
  <1>15. CASE ReconcileCandidate /\ UNCHANGED scenario
    BY <1>15 DEF Inv, Colours, Staged, call, ReconcileCandidate, Reconciled
  <1>16. CASE ReconcilePrimary /\ UNCHANGED scenario
    BY <1>16 DEF Inv, Colours, Staged, call, ReconcilePrimary, Reconciled
  <1>17. CASE ReconcilePrevious /\ UNCHANGED scenario
    BY <1>17 DEF Inv, Colours, Staged, call, ReconcilePrevious, Reconciled
  <1>18. CASE ReconcileNothing /\ UNCHANGED scenario
    BY <1>18 DEF Inv, Colours, Staged, call, ReconcileNothing, Reconciled
  <1>19. CASE CancelJob /\ UNCHANGED scenario
    BY <1>19 DEF Inv, Colours, Staged, Faults, host, process, evidence, CancelJob
  <1>20. CASE Crash /\ UNCHANGED scenario
    BY <1>20 DEF Colours, Staged, Crash
  <1>21. CASE CaddyRestart /\ UNCHANGED scenario
    BY <1>21 DEF Inv, Colours, Staged, Faults, host, call, process, evidence, CaddyRestart
  <1> QED
    BY <1>1, <1>2, <1>3, <1>4, <1>5, <1>6, <1>7, <1>8, <1>9, <1>10, <1>11, <1>12, <1>13, <1>14,
       <1>15, <1>16, <1>17, <1>18, <1>19, <1>20, <1>21 DEF Next, Start, Reconcile

\* A Start that succeeds has routed and named its own container.
LEMMA NextSuccess == Inv /\ [Next]_vars => SuccessServes'
  <1> SUFFICES ASSUME Inv, [Next]_vars PROVE SuccessServes'
    OBVIOUS
  <1>1. CASE UNCHANGED vars
    BY <1>1 DEF Inv, SuccessServes, Faults, vars
  <1>2. CASE EnsureDockerNetworkFails /\ UNCHANGED scenario
    BY <1>2 DEF SuccessServes, EnsureDockerNetworkFails
  <1>3. CASE BeginStart /\ UNCHANGED scenario
    BY <1>3 DEF SuccessServes, BeginStart
  <1>4. CASE ClearStaging /\ UNCHANGED scenario
    BY <1>4 DEF Inv, Colours, SuccessServes, ClearStaging
  <1>5. CASE RunDockerContainer /\ UNCHANGED scenario
    BY <1>5 DEF Inv, Colours, SuccessServes, RunDockerContainer, Fail
  <1>6. CASE RunDockerContainerFails /\ UNCHANGED scenario
    BY <1>6 DEF SuccessServes, RunDockerContainerFails, Fail
  <1>7. CASE WaitHealthy /\ UNCHANGED scenario
    BY <1>7 DEF Inv, Colours, SuccessServes, WaitHealthy
  <1>8. CASE DockerContainerTarget /\ UNCHANGED scenario
    BY <1>8 DEF Inv, Colours, SuccessServes, DockerContainerTarget, Fail
  <1>9. CASE ApplyRoute /\ UNCHANGED scenario
    BY <1>9 DEF Inv, Colours, SuccessServes, ApplyRoute
  <1>10. CASE VerifyRoute /\ UNCHANGED scenario
    BY <1>10 DEF Inv, Colours, SuccessServes, VerifyRoute
  <1>11. CASE RestoreRoute /\ UNCHANGED scenario
    BY <1>11 DEF Inv, Colours, SuccessServes, RestoreRoute
  <1>12. CASE DiscardStaging /\ UNCHANGED scenario
    BY <1>12 DEF SuccessServes, DiscardStaging, Fail
  <1>13. CASE RetireActive /\ UNCHANGED scenario
    BY <1>13 DEF Inv, Colours, SuccessServes, RetireActive, Fail
  <1>14. CASE PromoteStaging /\ UNCHANGED scenario
    BY <1>14 DEF Inv, TypeOK, Staged, SuccessServes, Faults, Names, PromoteStaging, Succeed, Fail,
       Renamed
  <1>15. CASE ReconcileCandidate /\ UNCHANGED scenario
    BY <1>15 DEF Inv, Colours, SuccessServes, call, ReconcileCandidate, Reconciled
  <1>16. CASE ReconcilePrimary /\ UNCHANGED scenario
    BY <1>16 DEF Inv, Colours, SuccessServes, call, ReconcilePrimary, Reconciled
  <1>17. CASE ReconcilePrevious /\ UNCHANGED scenario
    BY <1>17 DEF Inv, Colours, SuccessServes, call, ReconcilePrevious, Reconciled
  <1>18. CASE ReconcileNothing /\ UNCHANGED scenario
    BY <1>18 DEF Inv, SuccessServes, Faults, call, evidence, ReconcileNothing, Reconciled
  <1>19. CASE CancelJob /\ UNCHANGED scenario
    BY <1>19 DEF Inv, Colours, SuccessServes, CancelJob
  <1>20. CASE Crash /\ UNCHANGED scenario
    BY <1>20 DEF SuccessServes, Crash
  <1>21. CASE CaddyRestart /\ UNCHANGED scenario
    BY <1>21 DEF SuccessServes, Faults, CaddyRestart
  <1> QED
    BY <1>1, <1>2, <1>3, <1>4, <1>5, <1>6, <1>7, <1>8, <1>9, <1>10, <1>11, <1>12, <1>13, <1>14,
       <1>15, <1>16, <1>17, <1>18, <1>19, <1>20, <1>21 DEF Next, Start, Reconcile

\* Only a container that answered takes the name of the proven release.
LEMMA NextKeepsName == Inv /\ [Next]_vars => KeepsName'
  <1> SUFFICES ASSUME Inv, [Next]_vars PROVE KeepsName'
    OBVIOUS
  <1>1. CASE UNCHANGED vars
    BY <1>1 DEF Inv, KeepsName, OnlyCaddyFails, Recent, Faults, vars
  <1>2. CASE EnsureDockerNetworkFails /\ UNCHANGED scenario
    BY <1>2 DEF Inv, KeepsName, OnlyCaddyFails, Recent, Faults, host, process, evidence,
       EnsureDockerNetworkFails
  <1>3. CASE BeginStart /\ UNCHANGED scenario
    BY <1>3 DEF Inv, KeepsName, OnlyCaddyFails, Recent, Faults, host, process, evidence,
       BeginStart, StagingFor, Goto, Exists
  <1>4. CASE ClearStaging /\ UNCHANGED scenario
    BY <1>4 DEF Inv, TypeOK, KeepsName, OnlyCaddyFails, Recent, Faults, Names, process, evidence,
       ClearStaging, TryRemove, Removed, Goto
  <1>5. CASE RunDockerContainer /\ UNCHANGED scenario
    BY <1>5 DEF Inv, Colours, KeepsName, OnlyCaddyFails, Recent, Faults, process, evidence,
       RunDockerContainer, Goto, Fail
  <1>6. CASE RunDockerContainerFails /\ UNCHANGED scenario
    BY <1>6 DEF Inv, KeepsName, OnlyCaddyFails, Recent, Faults, host, process, evidence,
       RunDockerContainerFails, Fail
  <1>7. CASE WaitHealthy /\ UNCHANGED scenario
    BY <1>7 DEF Inv, KeepsName, OnlyCaddyFails, Recent, Faults, host, process, evidence,
       WaitHealthy, Goto
  <1>8. CASE DockerContainerTarget /\ UNCHANGED scenario
    BY <1>8 DEF Inv, KeepsName, OnlyCaddyFails, Recent, Faults, host, process, evidence,
       DockerContainerTarget, Goto, Fail
  <1>9. CASE ApplyRoute /\ UNCHANGED scenario
    BY <1>9 DEF Inv, KeepsName, OnlyCaddyFails, Recent, Faults, host, process, evidence,
       ApplyRoute, Goto
  <1>10. CASE VerifyRoute /\ UNCHANGED scenario
    BY <1>10 DEF Inv, KeepsName, OnlyCaddyFails, Recent, Faults, host, process, VerifyRoute, Goto
  <1>11. CASE RestoreRoute /\ UNCHANGED scenario
    BY <1>11 DEF Inv, KeepsName, OnlyCaddyFails, Recent, Faults, host, process, evidence,
       RestoreRoute, Goto
  <1>12. CASE DiscardStaging /\ UNCHANGED scenario
    BY <1>12 DEF Inv, TypeOK, KeepsName, OnlyCaddyFails, Recent, Faults, Names, process, evidence,
       DiscardStaging, TryRemove, Removed, Fail
  <1>13. CASE RetireActive /\ UNCHANGED scenario
    BY <1>13 DEF Inv, TypeOK, Colours, KeepsName, OnlyCaddyFails, Recent, Faults, Names, process,
       evidence, RetireActive, Goto, DockerContainerMissing, DockerMayFail, Exists, Removed
  <1>14. CASE PromoteStaging /\ UNCHANGED scenario
    BY <1>14 DEF Inv, TypeOK, Staged, KeepsName, OnlyCaddyFails, Recent, Faults, Names, process,
       PromoteStaging, Succeed, DockerMayFail, Exists, Renamed
  <1>15. CASE ReconcileCandidate /\ UNCHANGED scenario
    BY <1>15 DEF Inv, KeepsName, OnlyCaddyFails, Recent, Faults, ReconcileCandidate, Reconciled
  <1>16. CASE ReconcilePrimary /\ UNCHANGED scenario
    BY <1>16 DEF Inv, KeepsName, OnlyCaddyFails, Recent, Faults, ReconcilePrimary, Reconciled
  <1>17. CASE ReconcilePrevious /\ UNCHANGED scenario
    BY <1>17 DEF Inv, KeepsName, OnlyCaddyFails, Recent, Faults, ReconcilePrevious, Reconciled
  <1>18. CASE ReconcileNothing /\ UNCHANGED scenario
    BY <1>18 DEF Inv, KeepsName, OnlyCaddyFails, Recent, Faults, ReconcileNothing, Reconciled
  <1>19. CASE CancelJob /\ UNCHANGED scenario
    BY <1>19 DEF KeepsName, OnlyCaddyFails, Faults, CancelJob
  <1>20. CASE Crash /\ UNCHANGED scenario
    BY <1>20 DEF Inv, TypeOK, KeepsName, OnlyCaddyFails, Crash
  <1>21. CASE CaddyRestart /\ UNCHANGED scenario
    BY <1>21 DEF Inv, KeepsName, OnlyCaddyFails, Recent, Faults, host, call, process, evidence,
       CaddyRestart
  <1> QED
    BY <1>1, <1>2, <1>3, <1>4, <1>5, <1>6, <1>7, <1>8, <1>9, <1>10, <1>11, <1>12, <1>13, <1>14,
       <1>15, <1>16, <1>17, <1>18, <1>19, <1>20, <1>21 DEF Next, Start, Reconcile

\* A route that was moved comes back when the new release does not answer.
LEMMA NextKeepsRoute == Inv /\ [Next]_vars => KeepsRoute'
  <1> SUFFICES ASSUME Inv, [Next]_vars PROVE KeepsRoute'
    OBVIOUS
  <1>1. CASE UNCHANGED vars
    BY <1>1 DEF Inv, KeepsRoute, OnlyReleasesFail, Recent, Faults, vars
  <1>2. CASE EnsureDockerNetworkFails /\ UNCHANGED scenario
    BY <1>2 DEF Inv, KeepsRoute, OnlyReleasesFail, Recent, Faults, process, evidence,
       EnsureDockerNetworkFails
  <1>3. CASE BeginStart /\ UNCHANGED scenario
    BY <1>3 DEF Inv, KeepsRoute, OnlyReleasesFail, Recent, Faults, process, evidence, BeginStart
  <1>4. CASE ClearStaging /\ UNCHANGED scenario
    BY <1>4 DEF Inv, KeepsRoute, OnlyReleasesFail, Recent, Faults, process, evidence, ClearStaging
  <1>5. CASE RunDockerContainer /\ UNCHANGED scenario
    BY <1>5 DEF Inv, KeepsRoute, OnlyReleasesFail, Recent, Faults, process, evidence,
       RunDockerContainer
  <1>6. CASE RunDockerContainerFails /\ UNCHANGED scenario
    BY <1>6 DEF Inv, KeepsRoute, OnlyReleasesFail, Recent, Faults, process, evidence,
       RunDockerContainerFails
  <1>7. CASE WaitHealthy /\ UNCHANGED scenario
    BY <1>7 DEF Inv, KeepsRoute, OnlyReleasesFail, Recent, Faults, process, evidence, WaitHealthy
  <1>8. CASE DockerContainerTarget /\ UNCHANGED scenario
    BY <1>8 DEF Inv, KeepsRoute, OnlyReleasesFail, Recent, Faults, process, evidence,
       DockerContainerTarget
  <1>9. CASE ApplyRoute /\ UNCHANGED scenario
    BY <1>9 DEF Inv, KeepsName, KeepsRoute, OnlyCaddyFails, OnlyReleasesFail, Recent, Faults,
       process, ApplyRoute, Goto, CaddyMayFail
  <1>10. CASE VerifyRoute /\ UNCHANGED scenario
    BY <1>10 DEF KeepsRoute, VerifyRoute, Goto
  <1>11. CASE RestoreRoute /\ UNCHANGED scenario
    BY <1>11 DEF Inv, Colours, KeepsName, KeepsRoute, OnlyCaddyFails, OnlyReleasesFail, Recent,
       Faults, process, evidence, RestoreRoute, CaddyMayFail, DockerContainerMissing,
       DockerMayFail, Exists
  <1>12. CASE DiscardStaging /\ UNCHANGED scenario
    BY <1>12 DEF Inv, KeepsRoute, OnlyReleasesFail, Recent, Faults, process, evidence,
       DiscardStaging
  <1>13. CASE RetireActive /\ UNCHANGED scenario
    BY <1>13 DEF Inv, KeepsName, KeepsRoute, OnlyCaddyFails, OnlyReleasesFail, Recent, Faults,
       process, RetireActive, Goto, DockerMayFail
  <1>14. CASE PromoteStaging /\ UNCHANGED scenario
    BY <1>14 DEF Inv, Staged, KeepsName, KeepsRoute, OnlyCaddyFails, OnlyReleasesFail, Recent,
       Faults, process, PromoteStaging, Succeed, DockerMayFail, Exists
  <1>15. CASE ReconcileCandidate /\ UNCHANGED scenario
    BY <1>15 DEF Inv, KeepsName, KeepsRoute, OnlyCaddyFails, OnlyReleasesFail, Recent, Faults,
       ReconcileCandidate, Reconciled
  <1>16. CASE ReconcilePrimary /\ UNCHANGED scenario
    BY <1>16 DEF Inv, KeepsName, KeepsRoute, OnlyCaddyFails, OnlyReleasesFail, Recent, Faults,
       ReconcilePrimary, Reconciled
  <1>17. CASE ReconcilePrevious /\ UNCHANGED scenario
    BY <1>17 DEF Inv, KeepsName, KeepsRoute, OnlyCaddyFails, OnlyReleasesFail, Recent, Faults,
       ReconcilePrevious, Reconciled
  <1>18. CASE ReconcileNothing /\ UNCHANGED scenario
    BY <1>18 DEF Inv, KeepsRoute, OnlyReleasesFail, Recent, Faults, call, evidence,
       ReconcileNothing, Reconciled
  <1>19. CASE CancelJob /\ UNCHANGED scenario
    BY <1>19 DEF KeepsRoute, OnlyReleasesFail, Faults, CancelJob
  <1>20. CASE Crash /\ UNCHANGED scenario
    BY <1>20 DEF Inv, TypeOK, KeepsRoute, Crash
  <1>21. CASE CaddyRestart /\ UNCHANGED scenario
    BY <1>21 DEF KeepsRoute, OnlyReleasesFail, Faults, CaddyRestart
  <1> QED
    BY <1>1, <1>2, <1>3, <1>4, <1>5, <1>6, <1>7, <1>8, <1>9, <1>10, <1>11, <1>12, <1>13, <1>14,
       <1>15, <1>16, <1>17, <1>18, <1>19, <1>20, <1>21 DEF Next, Start, Reconcile

\* A first crash finds the proven release or its verified successor.
LEMMA NextFirstCrash == Inv /\ [Next]_vars => FirstCrash'
  <1> SUFFICES ASSUME Inv, [Next]_vars PROVE FirstCrash'
    OBVIOUS
  <1>1. CASE UNCHANGED vars
    BY <1>1 DEF Inv, FirstCrash, OnlyReleasesFail, Recent, Faults, vars
  <1>2. CASE EnsureDockerNetworkFails /\ UNCHANGED scenario
    BY <1>2 DEF FirstCrash, process, EnsureDockerNetworkFails
  <1>3. CASE BeginStart /\ UNCHANGED scenario
    BY <1>3 DEF FirstCrash, process, BeginStart
  <1>4. CASE ClearStaging /\ UNCHANGED scenario
    BY <1>4 DEF Inv, Colours, FirstCrash, process, ClearStaging
  <1>5. CASE RunDockerContainer /\ UNCHANGED scenario
    BY <1>5 DEF Inv, Colours, FirstCrash, process, RunDockerContainer
  <1>6. CASE RunDockerContainerFails /\ UNCHANGED scenario
    BY <1>6 DEF Inv, Colours, FirstCrash, process, RunDockerContainerFails
  <1>7. CASE WaitHealthy /\ UNCHANGED scenario
    BY <1>7 DEF Inv, Colours, FirstCrash, process, WaitHealthy
  <1>8. CASE DockerContainerTarget /\ UNCHANGED scenario
    BY <1>8 DEF Inv, Colours, FirstCrash, process, DockerContainerTarget
  <1>9. CASE ApplyRoute /\ UNCHANGED scenario
    BY <1>9 DEF Inv, Colours, FirstCrash, process, ApplyRoute
  <1>10. CASE VerifyRoute /\ UNCHANGED scenario
    BY <1>10 DEF Inv, Colours, FirstCrash, process, VerifyRoute
  <1>11. CASE RestoreRoute /\ UNCHANGED scenario
    BY <1>11 DEF Inv, Colours, FirstCrash, process, RestoreRoute
  <1>12. CASE DiscardStaging /\ UNCHANGED scenario
    BY <1>12 DEF Inv, Colours, FirstCrash, process, DiscardStaging
  <1>13. CASE RetireActive /\ UNCHANGED scenario
    BY <1>13 DEF Inv, Colours, FirstCrash, process, RetireActive
  <1>14. CASE PromoteStaging /\ UNCHANGED scenario
    BY <1>14 DEF Inv, Colours, FirstCrash, process, PromoteStaging
  <1>15. CASE ReconcileCandidate /\ UNCHANGED scenario
    BY <1>15 DEF FirstCrash, ReconcileCandidate, Reconciled
  <1>16. CASE ReconcilePrimary /\ UNCHANGED scenario
    BY <1>16 DEF FirstCrash, ReconcilePrimary, Reconciled
  <1>17. CASE ReconcilePrevious /\ UNCHANGED scenario
    BY <1>17 DEF FirstCrash, ReconcilePrevious, Reconciled
  <1>18. CASE ReconcileNothing /\ UNCHANGED scenario
    BY <1>18 DEF FirstCrash, ReconcileNothing, Reconciled
  <1>19. CASE CancelJob /\ UNCHANGED scenario
    BY <1>19 DEF Inv, Colours, FirstCrash, process, CancelJob
  <1>20. CASE Crash /\ UNCHANGED scenario
    BY <1>20 DEF Inv, TypeOK, Staged, KeepsName, FirstCrash, OnlyCaddyFails, OnlyReleasesFail,
       Recent, Faults, host, evidence, Crash
  <1>21. CASE CaddyRestart /\ UNCHANGED scenario
    BY <1>21 DEF FirstCrash, OnlyReleasesFail, Faults, CaddyRestart
  <1> QED
    BY <1>1, <1>2, <1>3, <1>4, <1>5, <1>6, <1>7, <1>8, <1>9, <1>10, <1>11, <1>12, <1>13, <1>14,
       <1>15, <1>16, <1>17, <1>18, <1>19, <1>20, <1>21 DEF Next, Start, Reconcile

\* The invariant is inductive.
LEMMA NextInv == Inv /\ [Next]_vars => Inv'
  BY NextTypes, NextStaged, NextSuccess, NextKeepsName, NextKeepsRoute, NextFirstCrash DEF Inv

-----------------------------------------------------------------------------
\* The inductive invariant holds in every reachable state.
THEOREM Invariance == Spec => []Inv
  BY InitInv, NextInv, PTL DEF Spec

\* The names, the route and the locals of Start keep their types.
THEOREM TypeCorrect == Spec => []TypeOK
  <1>1. Inv => TypeOK
    BY DEF Inv
  <1> QED BY <1>1, Invariance, PTL

\* Whatever Docker, Caddy's API and cancellations do, a Start that returns nil leaves the
\* route on its container and its container under -candidate.
THEOREM Success == Spec => []SuccessServes
  <1>1. Inv => SuccessServes
    BY DEF Inv
  <1> QED BY <1>1, Invariance, PTL

\* Whatever Caddy does, the release of the last successful Start keeps the name under
\* which the next Start and a restart look for it.
THEOREM Kept == Spec => []ReleaseKept
  <1>1. Inv => ReleaseKept
    BY DEF Inv, KeepsName, ReleaseKept
  <1> QED BY <1>1, Invariance, PTL

\* While only releases fail, a Start that failed leaves the route where the last
\* successful one had put it.
THEOREM IdleRoute == Spec => []IdleRouteIsProven
  <1>1. Inv => IdleRouteIsProven
    BY DEF Inv, KeepsRoute, IdleRouteIsProven
  <1> QED BY <1>1, Invariance, PTL

\* While only releases fail, the route of a released application leads to an existing
\* container in every step of a switch and of its reversal.
THEOREM Serving == Spec => []RouteServes
  <1>1. Inv => RouteServes
    <2> SUFFICES ASSUME Inv, OnlyReleasesFail, crashes = 0, proven # 0
                 PROVE  route \in Containers
      BY DEF RouteServes
    <2>1. CASE pc \in {"probing", "restoring", "retiring", "promoting"}
      <3>1. route = slot[staging] /\ route # 0 /\ staging \in Names
        BY <2>1 DEF Inv, TypeOK, Staged, OnlyReleasesFail
      <3> QED BY <3>1 DEF Containers
    <2>2. CASE pc \notin {"probing", "restoring", "retiring", "promoting"}
      <3>1. OnlyCaddyFails
        BY DEF OnlyReleasesFail, OnlyCaddyFails
      <3>2. route = proven /\ slot["candidate"] = proven
        BY <2>2, <3>1 DEF Inv, KeepsRoute, KeepsName
      <3> QED BY <3>2 DEF Containers, Names
    <2> QED BY <2>1, <2>2
  <1> QED BY <1>1, Invariance, PTL

\* Wherever in a switch the process dies for the first time, Reconcile leads the route
\* to a container that has answered through Caddy and still exists.
THEOREM FirstRestart == Spec => RestartServes
  <1>1. ASSUME Inv, Reconcile, OnlyReleasesFail, crashes <= 1, proven # 0
        PROVE  route' \in {proven, verified} \cap Containers'
    <2>1. ~up /\ ~cancelled /\ "docker" \notin Faults /\ "caddy" \notin Faults
      BY <1>1 DEF Inv, Colours, Reconcile, ReconcileCandidate, ReconcilePrimary,
         ReconcilePrevious, ReconcileNothing, Reconciled, OnlyReleasesFail
    <2>2. CASE slot["candidate"] = proven
      <3>1. Exists("candidate") /\ ~DockerContainerMissing("candidate")
        BY <1>1, <2>1, <2>2 DEF Exists, DockerContainerMissing, DockerMayFail
      <3>2. ReconcileCandidate
        BY <1>1, <3>1 DEF Reconcile, ReconcilePrimary, ReconcilePrevious, ReconcileNothing
      <3>3. route' = proven /\ slot'["candidate"] = proven
        BY <1>1, <2>1, <2>2, <3>2 DEF ReconcileCandidate, Removed, Inv, TypeOK, Names
      <3> QED BY <1>1, <3>3 DEF Containers, Names
    <2>3. CASE /\ slot["candidate"] = 0 /\ slot["primary"] = 0 /\ slot["previous"] = 0
               /\ route # 0 /\ slot["next"] = route /\ route = verified
      <3>1. ReconcileNothing
        BY <1>1, <2>3 DEF Reconcile, ReconcileCandidate, ReconcilePrimary, ReconcilePrevious,
           Exists
      <3>2. route' = verified /\ slot'["next"] = verified /\ verified # 0
        BY <2>3, <3>1 DEF ReconcileNothing
      <3> QED BY <3>2 DEF Containers, Names
    <2> QED BY <1>1, <2>1, <2>2, <2>3 DEF Inv, FirstCrash
  <1>2. Inv /\ [Next]_vars =>
          [OnlyReleasesFail /\ Reconcile /\ crashes <= 1 /\ proven # 0 =>
              route' \in {proven, verified} \cap Containers']_vars
    BY <1>1
  <1> QED BY <1>2, Invariance, PTL DEF Spec, RestartServes

=============================================================================
