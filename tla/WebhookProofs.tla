---------------------------- MODULE WebhookProofs ----------------------------
(***************************************************************************)
(* For any requests, deliveries, rate limit, changes and crashes: the      *)
(* webhook starts at most one deployment per delivery, exceeds its rate    *)
(* limit by no more than the requests at the start of a window, refuses    *)
(* only over the limit, and deploys only what was allowed.                 *)
(***************************************************************************)
EXTENDS Webhook, FiniteSetTheorems, TLAPS

\* The steps behind the lookup of the application, and those behind the lock.
Counting == {"counting", "limiting", "checking", "unlocking", "matching", "queueing"}
Matching == {"matching", "queueing"}

\* What the settings allow now.
Permitted == (IF push /\ ~confirm THEN {"push"} ELSE {})
             \cup (IF ~locked \/ ~secrets THEN {"key"} ELSE {})

\* The requests that were counted in window w.
CountedIn(w) == {r \in Requests : countedIn[r] = w}
Counted == {r \in Requests : countedIn[r] # 0}

\* A request owns its delivery from the claim to the row it queues.
Owns(r) == pc[r] \in Handling \ {"claiming"} \/ r \in queuedBy

\* The types, with counters whose bounds follow from Tally.
Types ==
    /\ claimed \subseteq Identified
    /\ requests \in Nat /\ expired \in BOOLEAN /\ window \in Nat
    /\ push \in BOOLEAN /\ confirm \in BOOLEAN /\ secrets \in BOOLEAN
    /\ locked \in BOOLEAN /\ active \in BOOLEAN
    /\ pc \in [Requests -> {"new"} \cup Handling \cup Answers]
    /\ delivery \in [Requests -> Deliveries]
    /\ \A r \in Requests : pc[r] = "claiming" => delivery[r] \in Identified
    /\ confirms \in [Requests -> BOOLEAN]
    /\ countedIn \in [Requests -> Nat]
    /\ passedIn \in [Requests -> Nat] /\ refusedIn \in [Requests -> Nat]
    /\ \A r \in Requests :
                countedIn[r] <= window /\ passedIn[r] <= window /\ refusedIn[r] <= window
    /\ seen \in [Requests -> SUBSET {"push", "key"}]
    /\ queuedBy \subseteq Requests
    /\ changes \in 0 .. MaxChanges /\ crashes \in 0 .. MaxCrashes

\* The counter is the number of requests of its window, and no window is empty.
Tally ==
    /\ window = 0 => expired /\ requests = 0
    /\ window # 0 => requests = Cardinality(CountedIn(window))
    /\ window <= Cardinality(Counted)
    /\ \A r \in Requests : pc[r] \in {"new", "claiming", "looking", "counting"} =>
          countedIn[r] = 0 /\ passedIn[r] = 0 /\ refusedIn[r] = 0
    /\ \A r \in Requests : pc[r] = "limiting" =>
          countedIn[r] # 0 /\ passedIn[r] = 0 /\ refusedIn[r] = 0
    /\ \A r \in Requests : passedIn[r] # 0 =>
          countedIn[r] # 0 /\ countedIn[r] <= passedIn[r] /\ refusedIn[r] = 0

\* A delivery that somebody owns is claimed, and nobody else owns it.
Ownership ==
    /\ \A r \in queuedBy : pc[r] = "accepted"
    /\ \A r \in Requests : Owns(r) /\ delivery[r] \in Identified => delivery[r] \in claimed
    /\ \A q, r \in Requests :
          Owns(q) /\ Owns(r) /\ delivery[q] = delivery[r] /\ delivery[r] \in Identified => q = r

\* A request in flight has seen what is allowed now; what it has passed was allowed.
Permission ==
    /\ ~(push /\ confirm)
    /\ \A r \in Requests : pc[r] \in Handling => Permitted \subseteq seen[r]
    /\ \A r \in Requests : pc[r] \in Counting => "push" \in seen[r]
    /\ \A r \in Requests : pc[r] \in Matching => "key" \in seen[r]
    /\ \A r \in queuedBy : seen[r] = {"push", "key"}

\* What a window does with the requests it counted itself.
Limits == RateBounded /\ RefusedOnlyOverLimit

Inv == Types /\ Tally /\ Limits /\ Ownership /\ Permission

-----------------------------------------------------------------------------
\* The initial state satisfies the invariant.
LEMMA InitInv == Init => Inv
  <1> SUFFICES ASSUME Init PROVE Inv
    OBVIOUS
  <1>1. Types
    <2>1. /\ changes \in 0 .. MaxChanges /\ crashes \in 0 .. MaxCrashes
          /\ \A r \in Requests :
                countedIn[r] <= window /\ passedIn[r] <= window /\ refusedIn[r] <= window
      BY BoundsAssumption DEF Init
    <2> QED BY <2>1 DEF Init, Types
  <1>2. Counted = {} /\ Cardinality(Counted) = 0
    BY FS_EmptySet DEF Init, Counted
  <1>3. Tally
    BY <1>2 DEF Init, Tally
  <1>4. Limits
    BY DEF Init, Limits, RateBounded, RefusedOnlyOverLimit
  <1>5. Ownership
    BY DEF Init, Ownership, Owns, Handling
  <1>6. Permission
    BY DEF Init, Permission, Handling, Counting, Matching
  <1> QED BY <1>1, <1>3, <1>4, <1>5, <1>6 DEF Inv

\* Every step keeps the types.
LEMMA NextTypes == Types /\ [Next]_vars => Types'
  <1> SUFFICES ASSUME Types, [Next]_vars PROVE Types'
    OBVIOUS
  <1>1. CASE UNCHANGED vars
    BY <1>1 DEF Types, vars, counter, settings, evidence, bounds
  <1>2. ASSUME NEW r \in Requests, Receive(r) PROVE Types'
    BY <1>2 DEF Types, Receive, counter, settings, evidence, bounds, Handling, Answers, Note,
       Allowed
  <1>3. ASSUME NEW r \in Requests, ClaimWebhookDelivery(r) PROVE Types'
    BY <1>3 DEF Types, ClaimWebhookDelivery, counter, settings, evidence, bounds, Goto, Handling,
       Answers
  <1>4. ASSUME NEW r \in Requests, LookUpApplication(r) PROVE Types'
    BY <1>4 DEF Types, LookUpApplication, counter, settings, evidence, bounds, Goto, Handling,
       Answers
  <1>5. ASSUME NEW r \in Requests, CountWebhookRequest(r) PROVE Types'
    <2>1. requests' \in Nat /\ window' \in Nat /\ window' \in {window, window + 1}
      BY <1>5 DEF Types, CountWebhookRequest
    <2>2. /\ countedIn' \in [Requests -> Nat]
          /\ \A q \in Requests :
                countedIn'[q] <= window' /\ passedIn[q] <= window' /\ refusedIn[q] <= window'
      BY <1>5 DEF Types, CountWebhookRequest
    <2> QED
      BY <1>5, <2>1, <2>2 DEF Types, CountWebhookRequest, settings, bounds, Goto, Handling
  <1>6. ASSUME NEW r \in Requests, AllowWebhookRequest(r) PROVE Types'
    BY <1>6 DEF Types, AllowWebhookRequest, counter, settings, bounds, Goto, Handling, Answers
  <1>7. ASSUME NEW r \in Requests, CheckLock(r) PROVE Types'
    BY <1>7 DEF Types, CheckLock, counter, settings, evidence, bounds, Goto, Handling
  <1>8. ASSUME NEW r \in Requests, HasSecrets(r) PROVE Types'
    BY <1>8 DEF Types, HasSecrets, counter, settings, evidence, bounds, Goto, Handling, Answers
  <1>9. ASSUME NEW r \in Requests, MatchPush(r) PROVE Types'
    BY <1>9 DEF Types, MatchPush, counter, settings, evidence, bounds, Goto, Handling, Answers
  <1>10. ASSUME NEW r \in Requests, QueuePush(r) PROVE Types'
    BY <1>10 DEF Types, QueuePush, counter, settings, evidence, bounds, Goto, Answers
  <1>11. ASSUME NEW r \in Requests, StatementFails(r) PROVE Types'
    BY <1>11 DEF Types, StatementFails, counter, settings, evidence, bounds, Goto, Answers
  <1>12. CASE WindowPasses
    BY <1>12 DEF Types, WindowPasses, settings, evidence, bounds
  <1>13. CASE OperatorChanges
    BY <1>13, BoundsAssumption DEF Types, OperatorChanges, counter, evidence,
       UpdateApplicationAutomation, UpdateVault, Note, Allowed
  <1>14. CASE DeploymentEnds
    BY <1>14 DEF Types, DeploymentEnds, counter, settings, evidence, bounds, Handling, Answers
  <1>15. CASE Crash
    BY <1>15, BoundsAssumption DEF Types, Crash, counter, evidence, Answers
  <1> QED
    BY <1>1, <1>2, <1>3, <1>4, <1>5, <1>6, <1>7, <1>8, <1>9, <1>10, <1>11, <1>12, <1>13, <1>14,
       <1>15 DEF Next, GithubWebhook

\* The requests of a window are finitely many, and so are those of all windows.
LEMMA Finite ==
    ASSUME NEW S \in SUBSET Requests
    PROVE  IsFiniteSet(S) /\ Cardinality(S) \in Nat /\ Cardinality(S) <= Cardinality(Requests)
  BY RequestsAssumption, FS_Subset, FS_CardinalityType

\* The upsert counts its request in the window it leaves open.
LEMMA CountTally ==
    ASSUME Types, Types', Tally, NEW r \in Requests, CountWebhookRequest(r)
    PROVE  Tally'
  <1>1. /\ countedIn[r] = 0 /\ passedIn[r] = 0 /\ refusedIn[r] = 0
        /\ countedIn' = [countedIn EXCEPT ![r] = window']
        /\ pc' = [pc EXCEPT ![r] = "limiting"]
        /\ UNCHANGED <<passedIn, refusedIn>>
    BY DEF Tally, CountWebhookRequest, Goto
  <1>2. window' # 0 /\ ~expired'
    BY DEF Types, Tally, CountWebhookRequest
  <1>3. requests' = Cardinality(CountedIn(window)')
    <2>1. CASE expired
      <3>1. CountedIn(window)' = {r}
        <4>1. /\ window' = window + 1
              /\ \A q \in Requests : countedIn[q] <= window /\ countedIn[q] \in Nat
          BY <2>1 DEF Types, CountWebhookRequest
        <4> QED BY <1>1, <4>1 DEF Types, CountedIn
      <3> QED BY <2>1, <3>1, FS_Singleton DEF CountWebhookRequest
    <2>2. CASE ~expired
      <3>1. window' = window /\ window # 0 /\ requests' = requests + 1
        BY <2>2 DEF Tally, CountWebhookRequest
      <3>2. CountedIn(window)' = CountedIn(window) \cup {r} /\ r \notin CountedIn(window)
        BY <1>1, <3>1 DEF Types, CountedIn
      <3>3. IsFiniteSet(CountedIn(window))
        BY Finite DEF CountedIn
      <3>4. Cardinality(CountedIn(window) \cup {r}) = Cardinality(CountedIn(window)) + 1
        BY <3>2, <3>3, FS_AddElement
      <3> QED BY <3>1, <3>2, <3>4 DEF Tally
    <2> QED BY <2>1, <2>2
  <1>4. window' <= Cardinality(Counted')
    <2>1. Counted' = Counted \cup {r} /\ r \notin Counted
      BY <1>1, <1>2 DEF Types, Counted
    <2>2. IsFiniteSet(Counted) /\ Cardinality(Counted) \in Nat
      BY Finite DEF Counted
    <2>3. Cardinality(Counted \cup {r}) = Cardinality(Counted) + 1
      BY <2>1, <2>2, FS_AddElement
    <2>4. window' \in {window, window + 1}
      BY DEF CountWebhookRequest
    <2> QED BY <2>1, <2>2, <2>3, <2>4 DEF Types, Tally
  <1>5. \A q \in Requests : pc'[q] \in {"new", "claiming", "looking", "counting"} =>
           countedIn'[q] = 0 /\ passedIn'[q] = 0 /\ refusedIn'[q] = 0
    BY <1>1 DEF Types, Tally
  <1>6. \A q \in Requests : pc'[q] = "limiting" =>
           countedIn'[q] # 0 /\ passedIn'[q] = 0 /\ refusedIn'[q] = 0
    BY <1>1, <1>2 DEF Types, Tally
  <1>7. \A q \in Requests : passedIn'[q] # 0 =>
           countedIn'[q] # 0 /\ countedIn'[q] <= passedIn'[q] /\ refusedIn'[q] = 0
    BY <1>1 DEF Types, Tally
  <1> QED BY <1>2, <1>3, <1>4, <1>5, <1>6, <1>7 DEF Tally

\* The counter stays the number of requests of its window.
LEMMA NextTally == Types /\ Types' /\ Tally /\ [Next]_vars => Tally'
  <1> SUFFICES ASSUME Types, Types', Tally, [Next]_vars PROVE Tally'
    OBVIOUS
  <1>1. CASE UNCHANGED vars
    BY <1>1 DEF Tally, CountedIn, Counted, vars, counter, evidence
  <1>2. ASSUME NEW r \in Requests, Receive(r) PROVE Tally'
    BY <1>2 DEF Types, Tally, CountedIn, Counted, Receive, counter, evidence
  <1>3. ASSUME NEW r \in Requests, ClaimWebhookDelivery(r) PROVE Tally'
    BY <1>3 DEF Tally, CountedIn, Counted, ClaimWebhookDelivery, counter, evidence, Goto
  <1>4. ASSUME NEW r \in Requests, LookUpApplication(r) PROVE Tally'
    BY <1>4 DEF Tally, CountedIn, Counted, LookUpApplication, counter, evidence, Goto
  <1>5. ASSUME NEW r \in Requests, CheckLock(r) PROVE Tally'
    BY <1>5 DEF Tally, CountedIn, Counted, CheckLock, counter, evidence, Goto
  <1>6. ASSUME NEW r \in Requests, HasSecrets(r) PROVE Tally'
    BY <1>6 DEF Tally, CountedIn, Counted, HasSecrets, counter, evidence, Goto
  <1>7. ASSUME NEW r \in Requests, MatchPush(r) PROVE Tally'
    BY <1>7 DEF Tally, CountedIn, Counted, MatchPush, counter, evidence, Goto
  <1>8. ASSUME NEW r \in Requests, QueuePush(r) PROVE Tally'
    BY <1>8 DEF Tally, CountedIn, Counted, QueuePush, counter, evidence, Goto
  <1>9. ASSUME NEW r \in Requests, StatementFails(r) PROVE Tally'
    BY <1>9 DEF Tally, CountedIn, Counted, StatementFails, counter, evidence, Goto
  <1>10. ASSUME NEW r \in Requests, AllowWebhookRequest(r) PROVE Tally'
    BY <1>10 DEF Types, Tally, CountedIn, Counted, AllowWebhookRequest, counter, Goto
  <1>11. ASSUME NEW r \in Requests, CountWebhookRequest(r) PROVE Tally'
    BY <1>11, CountTally
  <1>12. CASE WindowPasses
    BY <1>12 DEF Tally, CountedIn, Counted, WindowPasses, evidence
  <1>13. CASE OperatorChanges
    BY <1>13 DEF Tally, CountedIn, Counted, OperatorChanges, counter, evidence
  <1>14. CASE DeploymentEnds
    BY <1>14 DEF Tally, CountedIn, Counted, DeploymentEnds, counter, evidence
  <1>15. CASE Crash
    BY <1>15 DEF Tally, CountedIn, Counted, Crash, counter, evidence
  <1> QED
    BY <1>1, <1>2, <1>3, <1>4, <1>5, <1>6, <1>7, <1>8, <1>9, <1>10, <1>11, <1>12, <1>13, <1>14,
       <1>15 DEF Next, GithubWebhook

\* No step but the two of AllowWebhookRequest touches the counter or its evidence.
LEMMA OthersKeepCounts ==
    ASSUME [Next]_vars
    PROVE  \/ UNCHANGED <<window, requests, countedIn, passedIn, refusedIn>>
           \/ \E r \in Requests : CountWebhookRequest(r) \/ AllowWebhookRequest(r)
  BY DEF Next, vars, GithubWebhook, Receive, ClaimWebhookDelivery, LookUpApplication, CheckLock,
     HasSecrets, MatchPush, QueuePush, StatementFails, WindowPasses, OperatorChanges,
     DeploymentEnds, Crash, counter, evidence

\* Whoever reads the count under the limit is among the requests that were counted.
LEMMA NextLimit == Types /\ Types' /\ Tally /\ Tally' /\ Limits /\ [Next]_vars => Limits'
  <1> SUFFICES ASSUME Types, Types', Tally, Tally', Limits, [Next]_vars PROVE Limits'
    OBVIOUS
  <1> DEFINE Admitted(w) == {r \in Requests : countedIn[r] = w /\ passedIn[r] = w}
  <1>1. CASE UNCHANGED <<window, requests, countedIn, passedIn, refusedIn>>
    BY <1>1 DEF Limits, RateBounded, RefusedOnlyOverLimit
  <1>2. ASSUME NEW r \in Requests, CountWebhookRequest(r) PROVE Limits'
    <2>1. /\ countedIn[r] = 0 /\ passedIn[r] = 0 /\ refusedIn[r] = 0
          /\ countedIn' = [countedIn EXCEPT ![r] = window']
          /\ window' \in {window, window + 1}
          /\ UNCHANGED <<passedIn, refusedIn>>
      BY <1>2 DEF Tally, CountWebhookRequest
    <2>2. RateBounded'
      <3> SUFFICES ASSUME NEW w \in 1 .. window' PROVE Cardinality(Admitted(w)') <= Limit
        BY DEF RateBounded
      <3>1. CASE w \in 1 .. window
        <4>1. Admitted(w)' \in SUBSET Admitted(w)
          BY <2>1
        <4>2. /\ IsFiniteSet(Admitted(w)) /\ Cardinality(Admitted(w)) \in Nat
              /\ Cardinality(Admitted(w)) <= Limit
          BY <3>1, Finite DEF Limits, RateBounded
        <4>3. IsFiniteSet(Admitted(w)') /\ Cardinality(Admitted(w)') <= Cardinality(Admitted(w))
          BY <4>1, <4>2, FS_Subset
        <4>4. Cardinality(Admitted(w)') \in Nat
          BY <4>3, FS_CardinalityType
        <4> QED BY <4>2, <4>3, <4>4, LimitAssumption
      <3>2. CASE w = window + 1
        <4>1. Admitted(w)' = {}
          BY <2>1, <3>2 DEF Types
        <4> QED BY <4>1, FS_EmptySet, LimitAssumption
      <3> QED BY <2>1, <3>1, <3>2 DEF Types
    <2>3. RefusedOnlyOverLimit'
      <3> SUFFICES ASSUME NEW p \in Requests, refusedIn[p] # 0
                   PROVE  Cardinality(CountedIn(refusedIn[p])') > Limit
        BY <2>1 DEF RefusedOnlyOverLimit, CountedIn
      <3>1. CountedIn(refusedIn[p]) \in SUBSET (CountedIn(refusedIn[p])')
        BY <2>1 DEF CountedIn
      <3>2. IsFiniteSet(CountedIn(refusedIn[p])') /\ IsFiniteSet(CountedIn(refusedIn[p]))
        BY Finite DEF CountedIn
      <3>3. Cardinality(CountedIn(refusedIn[p])) <= Cardinality(CountedIn(refusedIn[p])')
        BY <3>1, <3>2, FS_Subset
      <3>4. Cardinality(CountedIn(refusedIn[p])) > Limit
        BY DEF Limits, RefusedOnlyOverLimit, CountedIn
      <3>5. /\ Cardinality(CountedIn(refusedIn[p])) \in Nat
            /\ Cardinality(CountedIn(refusedIn[p])') \in Nat
        BY <3>2, FS_CardinalityType
      <3> QED BY <3>3, <3>4, <3>5, LimitAssumption
    <2> QED BY <2>2, <2>3 DEF Limits
  <1>3. ASSUME NEW r \in Requests, AllowWebhookRequest(r) PROVE Limits'
    <2>1. passedIn[r] = 0 /\ refusedIn[r] = 0 /\ UNCHANGED <<window, requests, countedIn>>
      BY <1>3 DEF Tally, AllowWebhookRequest, counter
    <2>2. CASE requests <= Limit
      <3>1. passedIn' = [passedIn EXCEPT ![r] = window] /\ UNCHANGED refusedIn
        BY <1>3, <2>2 DEF AllowWebhookRequest
      <3>2. ASSUME NEW w \in 1 .. window PROVE Cardinality(Admitted(w)') <= Limit
        <4>1. CASE w = window
          <5>1. Admitted(w)' \in SUBSET CountedIn(window) /\ window # 0
            BY <2>1, <4>1 DEF CountedIn
          <5>2. IsFiniteSet(CountedIn(window)) /\ Cardinality(CountedIn(window)) = requests
            BY Finite DEF CountedIn, Tally
          <5>3. IsFiniteSet(Admitted(w)') /\ Cardinality(Admitted(w)') <= requests
            BY <5>1, <5>2, FS_Subset
          <5>4. Cardinality(Admitted(w)') \in Nat
            BY <5>3, FS_CardinalityType
          <5> QED BY <2>2, <5>3, <5>4, LimitAssumption DEF Types
        <4>2. CASE w # window
          <5>1. Admitted(w)' = Admitted(w)
            BY <2>1, <3>1, <4>2
          <5> QED BY <5>1 DEF Limits, RateBounded
        <4> QED BY <4>1, <4>2
      <3> QED BY <2>1, <3>1, <3>2 DEF Limits, RateBounded, RefusedOnlyOverLimit
    <2>3. CASE requests > Limit
      <3>1. refusedIn' = [refusedIn EXCEPT ![r] = window] /\ UNCHANGED passedIn
        BY <1>3, <2>3, LimitAssumption DEF Types, AllowWebhookRequest
      <3>2. window # 0
        BY <2>3, LimitAssumption DEF Tally
      <3>3. Cardinality(CountedIn(window)) > Limit
        BY <2>3, <3>2 DEF Tally
      <3>4. RefusedOnlyOverLimit'
        BY <2>1, <3>1, <3>3 DEF Limits, RefusedOnlyOverLimit, CountedIn
      <3> QED BY <2>1, <3>1, <3>4 DEF Limits, RateBounded
    <2> QED BY <2>2, <2>3, LimitAssumption DEF Types
  <1> QED BY <1>1, <1>2, <1>3, OthersKeepCounts

\* A delivery that was claimed by one request is never owned by a second one.
LEMMA NextOwnership == Types /\ Types' /\ Ownership /\ [Next]_vars => Ownership'
  <1> SUFFICES ASSUME Types, Types', Ownership, [Next]_vars PROVE Ownership'
    OBVIOUS
  <1>1. CASE UNCHANGED vars
    BY <1>1 DEF Ownership, Owns, vars
  <1>2. ASSUME NEW r \in Requests, Receive(r) PROVE Ownership'
    BY <1>2 DEF Types, Ownership, Owns, Handling, Receive
  <1>3. ASSUME NEW r \in Requests, ClaimWebhookDelivery(r) PROVE Ownership'
    BY <1>3 DEF Ownership, Owns, Handling, ClaimWebhookDelivery, Goto
  <1>4. ASSUME NEW r \in Requests, LookUpApplication(r) PROVE Ownership'
    BY <1>4 DEF Ownership, Owns, Handling, LookUpApplication, Goto
  <1>5. ASSUME NEW r \in Requests, CountWebhookRequest(r) PROVE Ownership'
    BY <1>5 DEF Ownership, Owns, Handling, CountWebhookRequest, Goto
  <1>6. ASSUME NEW r \in Requests, AllowWebhookRequest(r) PROVE Ownership'
    BY <1>6 DEF Types, Ownership, Owns, Handling, AllowWebhookRequest, Goto
  <1>7. ASSUME NEW r \in Requests, CheckLock(r) PROVE Ownership'
    BY <1>7 DEF Ownership, Owns, Handling, CheckLock, Goto
  <1>8. ASSUME NEW r \in Requests, HasSecrets(r) PROVE Ownership'
    BY <1>8 DEF Ownership, Owns, Handling, HasSecrets, Goto
  <1>9. ASSUME NEW r \in Requests, MatchPush(r) PROVE Ownership'
    BY <1>9 DEF Ownership, Owns, Handling, MatchPush, Goto
  <1>10. ASSUME NEW r \in Requests, QueuePush(r) PROVE Ownership'
    BY <1>10 DEF Types, Ownership, Owns, Handling, QueuePush, Goto
  <1>11. ASSUME NEW r \in Requests, StatementFails(r) PROVE Ownership'
    BY <1>11 DEF Ownership, Owns, Handling, StatementFails, Goto, InFlight
  <1>12. CASE WindowPasses
    BY <1>12 DEF Ownership, Owns, WindowPasses
  <1>13. CASE OperatorChanges
    BY <1>13 DEF Ownership, Owns, OperatorChanges
  <1>14. CASE DeploymentEnds
    BY <1>14 DEF Ownership, Owns, DeploymentEnds
  <1>15. CASE Crash
    BY <1>15 DEF Types, Ownership, Owns, Handling, Crash, InFlight
  <1> QED
    BY <1>1, <1>2, <1>3, <1>4, <1>5, <1>6, <1>7, <1>8, <1>9, <1>10, <1>11, <1>12, <1>13, <1>14,
       <1>15 DEF Next, GithubWebhook

\* A request remembers what was allowed while it was in flight.
LEMMA NextPermission == Types /\ Types' /\ Permission /\ [Next]_vars => Permission'
  <1> SUFFICES ASSUME Types, Types', Permission, [Next]_vars PROVE Permission'
    OBVIOUS
  <1>1. CASE UNCHANGED vars
    BY <1>1 DEF Permission, Permitted, vars, settings
  <1>2. ASSUME NEW r \in Requests, Receive(r) PROVE Permission'
    BY <1>2 DEF Types, Permission, Permitted, Counting, Matching, Receive, settings, Note, Allowed
  <1>3. ASSUME NEW r \in Requests, ClaimWebhookDelivery(r) PROVE Permission'
    BY <1>3 DEF Permission, Permitted, Handling, Counting, Matching, ClaimWebhookDelivery,
       settings, Goto
  <1>4. ASSUME NEW r \in Requests, LookUpApplication(r) PROVE Permission'
    BY <1>4 DEF Permission, Permitted, Handling, Counting, Matching, LookUpApplication, settings,
       Goto
  <1>5. ASSUME NEW r \in Requests, CountWebhookRequest(r) PROVE Permission'
    BY <1>5 DEF Permission, Permitted, Handling, Counting, Matching, CountWebhookRequest,
       settings, Goto
  <1>6. ASSUME NEW r \in Requests, AllowWebhookRequest(r) PROVE Permission'
    BY <1>6 DEF Types, Permission, Permitted, Handling, Counting, Matching, AllowWebhookRequest,
       settings, Goto
  <1>7. ASSUME NEW r \in Requests, CheckLock(r) PROVE Permission'
    BY <1>7 DEF Permission, Permitted, Handling, Counting, Matching, CheckLock, settings, Goto
  <1>8. ASSUME NEW r \in Requests, HasSecrets(r) PROVE Permission'
    BY <1>8 DEF Permission, Permitted, Handling, Counting, Matching, HasSecrets, settings, Goto
  <1>9. ASSUME NEW r \in Requests, MatchPush(r) PROVE Permission'
    BY <1>9 DEF Permission, Permitted, Counting, Matching, MatchPush, settings, Goto
  <1>10. ASSUME NEW r \in Requests, QueuePush(r) PROVE Permission'
    BY <1>10 DEF Types, Permission, Permitted, Counting, Matching, QueuePush, settings, Goto
  <1>11. ASSUME NEW r \in Requests, StatementFails(r) PROVE Permission'
    BY <1>11 DEF Permission, Permitted, Handling, Counting, Matching, StatementFails, settings,
       Goto
  <1>12. CASE WindowPasses
    BY <1>12 DEF Permission, Permitted, WindowPasses, settings
  <1>13. CASE OperatorChanges
    BY <1>13 DEF Types, Permission, Permitted, OperatorChanges, UpdateApplicationAutomation,
       UpdateVault, Note, Allowed
  <1>14. CASE DeploymentEnds
    BY <1>14 DEF Permission, Permitted, DeploymentEnds, settings
  <1>15. CASE Crash
    BY <1>15 DEF Permission, Permitted, Handling, Counting, Matching, Crash
  <1> QED
    BY <1>1, <1>2, <1>3, <1>4, <1>5, <1>6, <1>7, <1>8, <1>9, <1>10, <1>11, <1>12, <1>13, <1>14,
       <1>15 DEF Next, GithubWebhook

\* The invariant is inductive.
LEMMA NextInv == Inv /\ [Next]_vars => Inv'
  BY NextTypes, NextTally, NextLimit, NextOwnership, NextPermission DEF Inv

-----------------------------------------------------------------------------
\* The inductive invariant holds in every reachable state.
THEOREM Invariance == Spec => []Inv
  BY InitInv, NextInv, PTL DEF Spec

\* The tables, the settings and every handler keep their types; there are never more
\* windows, nor more requests in one of them, than there are requests.
THEOREM TypeCorrect == Spec => []TypeOK
  <1>1. Inv => TypeOK
    <2> SUFFICES ASSUME Inv PROVE TypeOK
      OBVIOUS
    <2>1. Cardinality(Requests) \in Nat
      BY RequestsAssumption, FS_CardinalityType
    <2>2. /\ Cardinality(Counted) \in Nat /\ Cardinality(Counted) <= Cardinality(Requests)
          /\ Cardinality(CountedIn(window)) \in Nat
          /\ Cardinality(CountedIn(window)) <= Cardinality(Requests)
      BY Finite DEF Counted, CountedIn
    <2>3. requests \in 0 .. Cardinality(Requests) /\ window \in 0 .. Cardinality(Requests)
      BY <2>1, <2>2 DEF Inv, Types, Tally
    <2> QED BY <2>3 DEF Inv, Types, TypeOK
  <1> QED BY <1>1, Invariance, PTL

\* However often a delivery with an id is repeated, and whatever crashes come between,
\* it starts at most one deployment (ClaimWebhookDelivery).
THEOREM DeliveredOnce == Spec => []AtMostOnce
  <1>1. Inv => AtMostOnce
    BY DEF Inv, Types, Ownership, Owns, AtMostOnce
  <1> QED BY <1>1, Invariance, PTL

\* Whoever passes in a window was counted in it or straddles its start.
LEMMA Excess == Inv => ExcessBounded
  <1> SUFFICES ASSUME Inv, NEW w \in 1 .. window
               PROVE  Cardinality({r \in Requests : passedIn[r] = w})
                         <= Limit + Cardinality(Straddling(w))
    BY DEF ExcessBounded
  <1> DEFINE Passed == {r \in Requests : passedIn[r] = w}
             Own == {r \in Requests : countedIn[r] = w /\ passedIn[r] = w}
             All == Own \cup Straddling(w)
  <1>1. Passed \in SUBSET All
    <2> SUFFICES ASSUME NEW r \in Passed PROVE r \in All
      OBVIOUS
    <2>1. /\ r \in Requests /\ passedIn[r] = w /\ refusedIn[r] = 0
          /\ countedIn[r] \in Nat /\ countedIn[r] # 0 /\ countedIn[r] <= w /\ w \in Nat
      BY DEF Inv, Types, Tally
    <2>2. CASE countedIn[r] = w
      BY <2>1, <2>2
    <2>3. CASE countedIn[r] # w
      <3>1. countedIn[r] \in 1 .. w - 1 /\ passedIn[r] \notin 1 .. w - 1 /\ refusedIn[r] \notin 1 .. w - 1
        BY <2>1, <2>3
      <3> QED BY <2>1, <3>1 DEF Straddling
    <2> QED BY <2>2, <2>3
  <1>2. /\ IsFiniteSet(Own) /\ Cardinality(Own) \in Nat /\ Cardinality(Own) <= Limit
        /\ IsFiniteSet(Straddling(w)) /\ Cardinality(Straddling(w)) \in Nat
        /\ IsFiniteSet(Own \cap Straddling(w)) /\ Cardinality(Own \cap Straddling(w)) \in Nat
    <2>1. Own \in SUBSET Requests /\ Straddling(w) \in SUBSET Requests
      BY DEF Straddling
    <2>2. Own \cap Straddling(w) \in SUBSET Requests
      BY <2>1
    <2>3. Cardinality(Own) <= Limit
      BY DEF Inv, Limits, RateBounded
    <2> QED BY <2>1, <2>2, <2>3, Finite
  <1>3. IsFiniteSet(All) /\ Cardinality(All) <= Cardinality(Own) + Cardinality(Straddling(w))
    <2>1. /\ IsFiniteSet(Own \cup Straddling(w))
          /\ Cardinality(Own \cup Straddling(w)) =
                Cardinality(Own) + Cardinality(Straddling(w)) - Cardinality(Own \cap Straddling(w))
      BY <1>2, FS_Union
    <2> HIDE DEF Own
    <2> QED BY <1>2, <2>1
  <1>4. Cardinality(Passed) <= Cardinality(All) /\ Cardinality(Passed) \in Nat
    <2>1. IsFiniteSet(Passed) /\ Cardinality(Passed) <= Cardinality(All)
      BY <1>1, <1>3, FS_Subset
    <2> QED BY <2>1, FS_CardinalityType
  <1>5. Cardinality(All) \in Nat
    BY <1>3, FS_CardinalityType
  <1> HIDE DEF Own, Passed, All
  <1>6. Cardinality(Passed) <= Limit + Cardinality(Straddling(w))
    BY <1>2, <1>3, <1>4, <1>5, LimitAssumption
  <1> QED BY <1>6 DEF Passed

\* The upsert and the SELECT of AllowWebhookRequest let at most Limit of the requests a
\* window counted pass in it, at most the requests caught between the two when it began
\* on top of that, and refuse none of a window that has no more than Limit.
THEOREM LimitKept == Spec => []LimitIsKept
  <1>1. Inv => LimitIsKept
    BY Excess DEF Inv, Limits, LimitIsKept
  <1> QED BY <1>1, Invariance, PTL

\* A push deploys only with a permission and a key that were there while it was handled.
THEOREM OnlyWhenAllowed == Spec => []QueuedOnlyWhenAllowed
  <1>1. Inv => QueuedOnlyWhenAllowed
    BY DEF Inv, Permission, QueuedOnlyWhenAllowed
  <1> QED BY <1>1, Invariance, PTL

=============================================================================
