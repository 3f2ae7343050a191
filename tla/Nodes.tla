-------------------------------- MODULE Nodes --------------------------------
(***************************************************************************)
(* The inventory of remote nodes: the agents of cmd/minidock-agent, the    *)
(* control plane that serves their streams (internal/agent/control.go) and *)
(* UpsertNode (internal/store/store.go).                                   *)
(*                                                                         *)
(* An agent that loses its stream exits, and whoever supervises it starts  *)
(* it again, perhaps in a newer version; the handler of the old stream may *)
(* still have messages to read.  UpsertNode is an UPDATE, a SELECT and an  *)
(* INSERT outside a transaction.                                           *)
(***************************************************************************)
EXTENDS Naturals, FiniteSets

CONSTANTS
    Streams,     \* connections, each made once
    NodeIds,
    Certificates,
    MaxPending,  \* bound: heartbeats on their way in one stream
    None

ASSUME StreamsAssumption == IsFiniteSet(Streams)
ASSUME PendingAssumption == MaxPending \in Nat \ {0}
ASSUME NoRowAssumption == None \notin Streams \cup Certificates

VARIABLES
    nodes,     \* per id: fingerprint, and the hello that was written last
    id, cert,  \* per stream: the node id and the certificate the agent presents
    agent,     \* per stream: the agent process at its end
    server,    \* per stream: the handler Connect
    pending    \* per stream: heartbeats sent and not yet received

vars == <<nodes, id, cert, agent, server, pending>>

NoRow == [fingerprint |-> None, from |-> None]
\* hello, heartbeat: a message is being upserted, at the statement named.
Upserting == {"hello", "heartbeat"} \X {"update", "select", "insert"}
Serving == {<<"hello", "wait">>, <<"accepted", "wait">>} \cup Upserting

TypeOK ==
    /\ nodes \in [NodeIds -> [fingerprint : Certificates \cup {None}, from : Streams \cup {None}]]
    /\ \A n \in NodeIds : nodes[n].fingerprint = None <=> nodes[n].from = None
    /\ id \in [Streams -> NodeIds] /\ cert \in [Streams -> Certificates]
    /\ agent \in [Streams -> {"new", "waiting", "registered", "gone"}]
    /\ server \in [Streams -> {<<"new", "wait">>, <<"ended", "wait">>} \cup Serving]
    /\ pending \in [Streams -> 0 .. MaxPending]

Init ==
    /\ nodes = [n \in NodeIds |-> NoRow]
    /\ id \in [Streams -> NodeIds] /\ cert \in [Streams -> Certificates]
    /\ agent = [s \in Streams |-> "new"]
    /\ server = [s \in Streams |-> <<"new", "wait">>]
    /\ pending = [s \in Streams |-> 0]

-----------------------------------------------------------------------------
(***************************************************************************)
(* The agent.                                                              *)
(***************************************************************************)

\* main connects and sends its hello.  The mTLS handshake has verified the
\* certificate.  One process runs per certificate.
Connect(s) ==
    /\ agent[s] = "new"
    /\ \A t \in Streams : cert[t] = cert[s] => agent[t] \in {"new", "gone"}
    /\ agent' = [agent EXCEPT ![s] = "waiting"]
    /\ server' = [server EXCEPT ![s] = <<"hello", "wait">>]
    /\ UNCHANGED <<nodes, id, cert, pending>>

\* The ticker; whatever the control plane proposes, it fires again and again.
SendHeartbeat(s) ==
    /\ agent[s] = "registered" /\ pending[s] < MaxPending
    /\ pending' = [pending EXCEPT ![s] = @ + 1]
    /\ UNCHANGED <<nodes, id, cert, agent, server>>

\* A signal, a crash or a broken connection ends the agent; log.Fatal when the
\* handler is gone.
AgentExits(s) ==
    /\ agent[s] \in {"waiting", "registered"}
    /\ agent' = [agent EXCEPT ![s] = "gone"]
    /\ UNCHANGED <<nodes, id, cert, server, pending>>

-----------------------------------------------------------------------------
(***************************************************************************)
(* The control plane.                                                      *)
(***************************************************************************)

\* The hello is valid, or the handler ends.
ReceiveHello(s) ==
    /\ server[s] = <<"hello", "wait">>
    /\ server' = [server EXCEPT ![s] = <<"hello", "update">>]
    /\ UNCHANGED <<nodes, id, cert, agent, pending>>

\* Mutant: a heartbeat of an enrolled node is taken without an upsert.
ReceiveQuietly(s) ==
    /\ server[s] = <<"accepted", "wait">> /\ pending[s] > 0
    /\ pending' = [pending EXCEPT ![s] = @ - 1]
    /\ UNCHANGED <<nodes, id, cert, agent, server>>

ReceiveHeartbeat(s) ==
    /\ server[s] = <<"accepted", "wait">> /\ pending[s] > 0
    /\ pending' = [pending EXCEPT ![s] = @ - 1]
    /\ server' = [server EXCEPT ![s] = <<"heartbeat", "update">>]
    /\ UNCHANGED <<nodes, id, cert, agent>>

\* After a hello the handler sends accepted, after a heartbeat it reads on.
Upserted(s) ==
    /\ server' = [server EXCEPT ![s] = <<"accepted", "wait">>]
    /\ agent' = IF server[s][1] = "hello" /\ agent[s] = "waiting"
                THEN [agent EXCEPT ![s] = "registered"] ELSE agent
Rejected(s) ==
    /\ server' = [server EXCEPT ![s] = <<"ended", "wait">>]
    /\ agent' = [agent EXCEPT ![s] = "gone"]

\* UPDATE ... WHERE id = ? AND certificate_fingerprint = ?
UpdateNode(s) ==
    /\ server[s][2] = "update"
    /\ IF nodes[id[s]].fingerprint = cert[s]
       THEN /\ nodes' = [nodes EXCEPT ![id[s]].from = s]
            /\ Upserted(s)
       ELSE /\ server' = [server EXCEPT ![s][2] = "select"]
            /\ UNCHANGED <<nodes, agent>>
    /\ UNCHANGED <<id, cert, pending>>

\* Mutant: an id that is enrolled is taken as this agent's.
SelectTrusting(s) ==
    /\ server[s][2] = "select"
    /\ IF nodes[id[s]].fingerprint # None
       THEN Upserted(s)
       ELSE server' = [server EXCEPT ![s][2] = "insert"] /\ UNCHANGED agent
    /\ UNCHANGED <<nodes, id, cert, pending>>

SelectNode(s) ==
    /\ server[s][2] = "select"
    /\ IF nodes[id[s]].fingerprint # None
       THEN Rejected(s)
       ELSE server' = [server EXCEPT ![s][2] = "insert"] /\ UNCHANGED agent
    /\ UNCHANGED <<nodes, id, cert, pending>>

\* The primary key decides between two agents that both found no row.
InsertNode(s) ==
    /\ server[s][2] = "insert"
    /\ IF nodes[id[s]].fingerprint = None
       THEN /\ nodes' = [nodes EXCEPT ![id[s]] = [fingerprint |-> cert[s], from |-> s]]
            /\ Upserted(s)
       ELSE Rejected(s) /\ UNCHANGED nodes
    /\ UNCHANGED <<id, cert, pending>>

\* The stream is closed or reset, a statement fails, the process restarts: what
\* was on its way is lost and the agent, if it lives, finds out.
StreamEnds(s) ==
    /\ server[s] \in Serving
    /\ Rejected(s)
    /\ pending' = [pending EXCEPT ![s] = 0]
    /\ UNCHANGED <<nodes, id, cert>>

Serve(s) == ReceiveHello(s) \/ ReceiveHeartbeat(s) \/ UpdateNode(s) \/ SelectNode(s) \/ InsertNode(s)
Next == \E s \in Streams : Connect(s) \/ SendHeartbeat(s) \/ AgentExits(s) \/ Serve(s) \/ StreamEnds(s)

\* The ticker keeps firing and a handler that has something to do goes on; no
\* agent need ever connect, and none need stay.
Fairness == \A s \in Streams : WF_vars(SendHeartbeat(s)) /\ WF_vars(Serve(s))
Spec == Init /\ [][Next]_vars /\ Fairness

-----------------------------------------------------------------------------
(***************************************************************************)
(* Properties.                                                             *)
(***************************************************************************)

\* A handler that has accepted its agent serves the certificate that is
\* enrolled, and what the inventory shows of a node came over such a stream.
AcceptedIsEnrolled ==
    /\ \A s \in Streams :
          server[s][1] \in {"accepted", "heartbeat"} => nodes[id[s]].fingerprint = cert[s]
    /\ \A n \in NodeIds :
          nodes[n].from # None => id[nodes[n].from] = n /\ cert[nodes[n].from] = nodes[n].fingerprint

\* A late heartbeat of an old stream may bring back the version the agent had
\* then, but in the end the inventory keeps showing the agent that is registered.
SettlesOnCurrent ==
    \A s \in Streams : <>[](agent[s] = "registered" => nodes[id[s]].from = s)
=============================================================================
