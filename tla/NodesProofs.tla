----------------------------- MODULE NodesProofs -----------------------------
(***************************************************************************)
(* For any streams, node ids and certificates: the inventory of nodes      *)
(* keeps its types, and a stream that was accepted belongs to the          *)
(* certificate that is enrolled.                                           *)
(***************************************************************************)
EXTENDS Nodes, TLAPS

Inv == TypeOK /\ AcceptedIsEnrolled

\* An empty inventory satisfies the invariant.
LEMMA InitInv == Init => Inv
  <1> SUFFICES ASSUME Init PROVE Inv
    OBVIOUS
  <1>1. TypeOK
    BY NoRowAssumption, PendingAssumption DEF Init, TypeOK, NoRow
  <1>2. AcceptedIsEnrolled
    BY DEF Init, AcceptedIsEnrolled, NoRow
  <1> QED BY <1>1, <1>2 DEF Inv

\* What an upsert and a rejection do to the two ends of a stream.
LEMMA UpsertedType ==
    ASSUME Inv, NEW s \in Streams, Upserted(s)
    PROVE  /\ agent' \in [Streams -> {"new", "waiting", "registered", "gone"}]
           /\ server' \in [Streams -> {<<"new", "wait">>, <<"ended", "wait">>} \cup Serving]
  BY DEF Inv, TypeOK, Upserted, Serving

LEMMA RejectedType ==
    ASSUME Inv, NEW s \in Streams, Rejected(s)
    PROVE  /\ agent' \in [Streams -> {"new", "waiting", "registered", "gone"}]
           /\ server' \in [Streams -> {<<"new", "wait">>, <<"ended", "wait">>} \cup Serving]
  BY DEF Inv, TypeOK, Rejected, Serving

\* A rejected or an ended stream is no longer among the accepted ones.
LEMMA RejectedEnrolled ==
    ASSUME Inv, NEW s \in Streams, Rejected(s), UNCHANGED <<nodes, id, cert>>
    PROVE  AcceptedIsEnrolled'
  BY DEF Inv, TypeOK, AcceptedIsEnrolled, Rejected

\* The statement of UpsertNode that a handler is at.
LEMMA AtStatement ==
    ASSUME Inv, NEW s \in Streams, NEW step \in {"update", "select", "insert"}, server[s][2] = step
    PROVE  server[s] \in {<<"hello", step>>, <<"heartbeat", step>>}
  BY DEF Inv, TypeOK, Serving, Upserting

\* No step of an agent or of a handler breaks the invariant.  A fingerprint never
\* changes once it is set, because the INSERT needs a free id; hence an accepted
\* stream stays that of the enrolled certificate.
LEMMA NextInv == Inv /\ [Next]_vars => Inv'
  <1> SUFFICES ASSUME Inv, [Next]_vars PROVE Inv'
    OBVIOUS
  <1>1. CASE UNCHANGED vars
    BY <1>1 DEF Inv, TypeOK, AcceptedIsEnrolled, vars
  <1>2. ASSUME NEW s \in Streams, Connect(s) PROVE Inv'
    <2>1. TypeOK'
      BY <1>2 DEF Inv, TypeOK, Connect, Serving
    <2>2. AcceptedIsEnrolled'
      BY <1>2 DEF Inv, TypeOK, AcceptedIsEnrolled, Connect
    <2> QED BY <2>1, <2>2 DEF Inv
  <1>3. ASSUME NEW s \in Streams, SendHeartbeat(s) PROVE Inv'
    <2>1. pending' \in [Streams -> 0 .. MaxPending]
      BY <1>3, PendingAssumption DEF Inv, TypeOK, SendHeartbeat
    <2>2. TypeOK'
      BY <1>3, <2>1 DEF Inv, TypeOK, SendHeartbeat
    <2>3. AcceptedIsEnrolled'
      BY <1>3 DEF Inv, AcceptedIsEnrolled, SendHeartbeat
    <2> QED BY <2>2, <2>3 DEF Inv
  <1>4. ASSUME NEW s \in Streams, AgentExits(s) PROVE Inv'
    <2>1. TypeOK'
      BY <1>4 DEF Inv, TypeOK, AgentExits
    <2>2. AcceptedIsEnrolled'
      BY <1>4 DEF Inv, AcceptedIsEnrolled, AgentExits
    <2> QED BY <2>1, <2>2 DEF Inv
  <1>5. ASSUME NEW s \in Streams, ReceiveHello(s) PROVE Inv'
    <2>1. TypeOK'
      BY <1>5 DEF Inv, TypeOK, ReceiveHello, Serving, Upserting
    <2>2. AcceptedIsEnrolled'
      BY <1>5 DEF Inv, TypeOK, AcceptedIsEnrolled, ReceiveHello
    <2> QED BY <2>1, <2>2 DEF Inv
  <1>6. ASSUME NEW s \in Streams, ReceiveHeartbeat(s) PROVE Inv'
    <2>1. pending' \in [Streams -> 0 .. MaxPending]
      BY <1>6, PendingAssumption DEF Inv, TypeOK, ReceiveHeartbeat
    <2>2. TypeOK'
      BY <1>6, <2>1 DEF Inv, TypeOK, ReceiveHeartbeat, Serving, Upserting
    <2>3. AcceptedIsEnrolled'
      BY <1>6 DEF Inv, TypeOK, AcceptedIsEnrolled, ReceiveHeartbeat
    <2> QED BY <2>2, <2>3 DEF Inv
  <1>7. ASSUME NEW s \in Streams, UpdateNode(s) PROVE Inv'
    <2>1. server[s] \in {<<"hello", "update">>, <<"heartbeat", "update">>}
      BY <1>7, AtStatement DEF UpdateNode
    <2>2. CASE nodes[id[s]].fingerprint = cert[s]
      <3>1. /\ nodes' = [nodes EXCEPT ![id[s]].from = s] /\ Upserted(s)
            /\ UNCHANGED <<id, cert, pending>>
        BY <1>7, <2>2 DEF UpdateNode
      <3>2. id[s] \in NodeIds /\ nodes[id[s]].fingerprint # None
        BY <2>2, NoRowAssumption DEF Inv, TypeOK
      <3>3. TypeOK'
        BY <3>1, <3>2, UpsertedType, NoRowAssumption DEF Inv, TypeOK
      <3>4. AcceptedIsEnrolled'
        BY <2>2, <3>1, <3>2, NoRowAssumption DEF Inv, TypeOK, AcceptedIsEnrolled, Upserted
      <3> QED BY <3>3, <3>4 DEF Inv
    <2>3. CASE nodes[id[s]].fingerprint # cert[s]
      <3>1. /\ server' = [server EXCEPT ![s][2] = "select"]
            /\ UNCHANGED <<nodes, agent, id, cert, pending>>
        BY <1>7, <2>3 DEF UpdateNode
      <3>2. TypeOK'
        BY <2>1, <3>1 DEF Inv, TypeOK, Serving, Upserting
      <3>3. AcceptedIsEnrolled'
        BY <2>1, <3>1 DEF Inv, TypeOK, AcceptedIsEnrolled
      <3> QED BY <3>2, <3>3 DEF Inv
    <2> QED BY <2>2, <2>3
  <1>8. ASSUME NEW s \in Streams, SelectNode(s) PROVE Inv'
    <2>1. server[s] \in {<<"hello", "select">>, <<"heartbeat", "select">>}
      BY <1>8, AtStatement DEF SelectNode
    <2>2. CASE nodes[id[s]].fingerprint # None
      <3>1. Rejected(s) /\ UNCHANGED <<nodes, id, cert, pending>>
        BY <1>8, <2>2 DEF SelectNode
      <3>2. TypeOK'
        BY <3>1, RejectedType DEF Inv, TypeOK
      <3> QED BY <3>1, <3>2, RejectedEnrolled DEF Inv
    <2>3. CASE nodes[id[s]].fingerprint = None
      <3>1. /\ server' = [server EXCEPT ![s][2] = "insert"]
            /\ UNCHANGED <<nodes, agent, id, cert, pending>>
        BY <1>8, <2>3 DEF SelectNode
      <3>2. TypeOK'
        BY <2>1, <3>1 DEF Inv, TypeOK, Serving, Upserting
      <3>3. AcceptedIsEnrolled'
        BY <2>1, <3>1 DEF Inv, TypeOK, AcceptedIsEnrolled
      <3> QED BY <3>2, <3>3 DEF Inv
    <2> QED BY <2>2, <2>3
  <1>9. ASSUME NEW s \in Streams, InsertNode(s) PROVE Inv'
    <2>1. CASE nodes[id[s]].fingerprint = None
      <3>1. /\ nodes' = [nodes EXCEPT ![id[s]] = [fingerprint |-> cert[s], from |-> s]]
            /\ Upserted(s) /\ UNCHANGED <<id, cert, pending>>
        BY <1>9, <2>1 DEF InsertNode
      <3>2. TypeOK'
        BY <3>1, UpsertedType, NoRowAssumption DEF Inv, TypeOK
      <3>3. \A t \in Streams : server[t][1] \in {"accepted", "heartbeat"} => id[t] # id[s]
        BY <2>1, NoRowAssumption DEF Inv, TypeOK, AcceptedIsEnrolled
      <3>4. AcceptedIsEnrolled'
        BY <3>1, <3>3, NoRowAssumption DEF Inv, TypeOK, AcceptedIsEnrolled, Upserted
      <3> QED BY <3>2, <3>4 DEF Inv
    <2>2. CASE nodes[id[s]].fingerprint # None
      <3>1. Rejected(s) /\ UNCHANGED <<nodes, id, cert, pending>>
        BY <1>9, <2>2 DEF InsertNode
      <3>2. TypeOK'
        BY <3>1, RejectedType DEF Inv, TypeOK
      <3> QED BY <3>1, <3>2, RejectedEnrolled DEF Inv
    <2> QED BY <2>1, <2>2
  <1>10. ASSUME NEW s \in Streams, StreamEnds(s) PROVE Inv'
    <2>1. Rejected(s) /\ pending' = [pending EXCEPT ![s] = 0] /\ UNCHANGED <<nodes, id, cert>>
      BY <1>10 DEF StreamEnds
    <2>2. pending' \in [Streams -> 0 .. MaxPending]
      BY <2>1, PendingAssumption DEF Inv, TypeOK
    <2>3. TypeOK'
      BY <2>1, <2>2, RejectedType DEF Inv, TypeOK
    <2> QED BY <2>1, <2>3, RejectedEnrolled DEF Inv
  <1> QED
    BY <1>1, <1>2, <1>3, <1>4, <1>5, <1>6, <1>7, <1>8, <1>9, <1>10 DEF Next, Serve

-----------------------------------------------------------------------------
\* The inventory, the agents and the handlers keep their types (control.go, UpsertNode).
THEOREM TypeCorrect == Spec => []TypeOK
  <1>1. Inv => TypeOK
    BY DEF Inv
  <1> QED BY InitInv, NextInv, <1>1, PTL DEF Spec

\* However many agents claim an id at the same time, and wherever their streams end,
\* Connect accepts only the certificate that is enrolled for the id, and the
\* inventory shows only what came over such a stream.
THEOREM Enrolled == Spec => []AcceptedIsEnrolled
  <1>1. Inv => AcceptedIsEnrolled
    BY DEF Inv
  <1> QED BY InitInv, NextInv, <1>1, PTL DEF Spec

=============================================================================
