---------------------------- MODULE TunnelProofs ----------------------------
(***************************************************************************)
(* Proofs about Tunnel for any number of handlers at once, any             *)
(* applications, domains and tokens, and any numbers of requests and       *)
(* failures.                                                               *)
(*                                                                         *)
(* The properties speak of the row, the container, the routes and the      *)
(* records.  The invariant says what holds at every point where a failure  *)
(* may end a handler or another one may step in, in five layers, each      *)
(* proved from the ones before it:                                         *)
(*   - Local: which handler is at which step (FormOf) and with which copy  *)
(*     of the row (CopyOf), whatever the others do;                        *)
(*   - Naming: where the id of the installation has got to;                *)
(*   - Apart: handlers that are not marked as overlapped have the          *)
(*     connector, or what is published, to themselves;                     *)
(*   - Attached: what such a handler has done to the connector;            *)
(*   - Reported: what such a handler has already published.                *)
(***************************************************************************)
EXTENDS Tunnel, FiniteSetTheorems, TLAPS

Kinds == {"none", "save", "reconnect", "domain", "sync"}
Modes == {"disabled", "tunnel_token", "api_token"}
Requests == [kind : Kinds, mode : Modes, token : Tokens \cup {None}, app : Apps \cup {None},
             domain : Domains \cup {None}, copy : Configs, list : SUBSET Public,
             left : SUBSET Public]

\* The steps, by what the handler at them is about to do.
Identification == {"naming", "minting", "creating"}
Publication == {"listing", "routing", "resolving"}
Connection == {"migrating", "inspecting", "replacing", "making", "restarting", "starting",
               "connecting"}
Removal == {"detaching", "removing", "disabling"}
Steps == Identification \cup Publication \cup Connection \cup Removal
         \cup {"idle", "reading", "unsealing", "storing_api", "storing", "configuring", "failing",
               "renaming", "looking"}

Types ==
    /\ cfg \in Configs
    /\ token \in Tokens \cup {None} /\ apiToken \in BOOLEAN
    /\ instance \in Instances \cup {None}
    /\ domain \in [Apps -> Domains]
    /\ tunnels \subseteq Instances
    /\ ingress \in [Instances -> SUBSET Public]
    /\ dns \in [Public -> Instances \cup {None}]
    /\ container \in Containers /\ legacy \in BOOLEAN
    /\ pc \in [Handlers -> Steps] /\ req \in [Handlers -> Requests]
    /\ contested \subseteq Handlers /\ crossing \subseteq Handlers
    /\ torn \in BOOLEAN /\ stray \in BOOLEAN /\ raced \in BOOLEAN /\ unpublished \subseteq Apps

\* The handler that may be at each step.
FormOf(h) ==
    LET r == req[h] IN
    /\ pc[h] = "idle" => r.kind = "none"
    /\ pc[h] \in {"reading", "unsealing", "failing"} \cup Connection => r.kind \in {"save", "reconnect"}
    /\ pc[h] \in Identification \cup {"storing_api"} => r.kind = "save" /\ r.mode = "api_token"
    /\ pc[h] \in {"storing", "configuring"} => r.kind = "save" /\ r.mode # "disabled"
    /\ pc[h] \in Publication =>
          r.kind \in {"domain", "sync"} \/ (r.kind = "save" /\ r.mode = "api_token")
    /\ pc[h] \in Removal => r.kind = "save" /\ r.mode = "disabled"
    /\ pc[h] \in {"renaming", "looking"} => r.kind \in {"domain", "sync"}
    /\ pc[h] \in {"creating", "storing_api"} => r.token \in Instances
    /\ pc[h] = "unsealing" /\ r.kind = "save" => r.mode = "tunnel_token"
    /\ pc[h] \in Connection /\ r.kind = "save" => r.mode # "disabled"
    /\ pc[h] \in {"reading", "unsealing"} /\ r.kind = "reconnect" => r.token = None
    /\ r.kind \in {"domain", "sync"} =>
          /\ r.app \in Apps /\ r.domain \in Domains
          /\ pc[h] \in Publication => r.domain \in Public

\* A row in automatic mode, or with the name of such a tunnel, names a tunnel the
\* installation made.
Made(c) == c.mode = "api_token" => c.tunnel \in tunnels
Owned(c) == c.name = "ours" => c.tunnel \in tunnels

\* The copy of the row that the handler works on, and may write back.
CopyOf(h) ==
    LET r == req[h] IN
    /\ Owned(r.copy)
    /\ pc[h] \notin Identification => Made(r.copy)
    /\ r.kind = "save" /\ pc[h] # "reading" => r.copy.mode = r.mode
    /\ r.kind = "reconnect" /\ pc[h] \in {"unsealing"} \cup Connection => r.copy.mode # "disabled"
    /\ pc[h] \in Publication => r.copy.mode = "api_token"

RowOf == Made(cfg) /\ Owned(cfg) /\ (cfg.status = "disabled" => cfg.mode = "disabled")

Local == Types /\ RowOf /\ \A h \in Handlers : FormOf(h) /\ CopyOf(h)

\* A configuration that was automatic names the tunnel of the stored id.
Ours(c) == c.name = "ours" /\ c.tunnel # None => c.tunnel = instance
NamedBy(h) ==
    /\ Ours(req[h].copy)
    /\ pc[h] = "minting" => instance = None /\ \A k \in Handlers : pc[k] = "minting" => k = h
    /\ pc[h] \in {"creating", "storing_api"} => instance # None /\ req[h].token = instance
Naming == ~raced => Ours(cfg) /\ (\A t \in tunnels : t = instance) /\ \A h \in Handlers : NamedBy(h)

\* A handler outside contested (crossing) is alone in what it works on, and while
\* somebody is inside, the history says that nothing there can be relied on.
Apart ==
    /\ \A h \in contested : Connecting(req[h]) /\ torn /\ stray
    /\ \A h \in crossing : Publishing(req[h]) /\ unpublished = Apps
    /\ \A h, k \in Handlers : h # k =>
          /\ Connecting(req[h]) /\ Connecting(req[k]) => h \in contested
          /\ Publishing(req[h]) /\ Publishing(req[k]) => h \in crossing

\* What the row promises when it says connected.
Serving == container.owner = "minidock" /\ container.state # "created" /\ container.token = token
Truthful == cfg.status = "connected" /\ ~torn => Serving

\* What a handler that is alone has done to the container and to the stored token.
AttachedBy(h) ==
    LET r == req[h] IN
    /\ pc[h] \in Connection \/ (pc[h] = "unsealing" /\ r.kind = "reconnect") => cfg.status # "disabled"
    /\ pc[h] \in {"starting", "restarting", "connecting"} =>
          container.owner = "minidock" /\ container.token = token
    /\ pc[h] = "connecting" => container.state # "created"
    /\ pc[h] = "disabling" => container.owner # "minidock"
    /\ pc[h] \in {"configuring"} \cup Publication \cup Connection => r.token = token
    /\ pc[h] \in {"reading", "unsealing", "storing_api", "storing"} \cup Identification => Truthful
Attached ==
    /\ DisabledMeansStopped /\ ConnectedServes
    /\ \A h \in Handlers \ contested : Connecting(req[h]) => AttachedBy(h)

\* What a handler that is alone has already published.
ReportedBy(h) ==
    LET r == req[h] IN
    /\ r.kind \in {"domain", "sync"} /\ pc[h] # "renaming" => r.domain = domain[r.app]
    /\ pc[h] \in {"routing", "resolving"} => r.list = PublicApplicationDomains
    /\ pc[h] = "routing" => r.left = IF r.kind = "save" THEN r.list ELSE {r.domain}
    /\ pc[h] = "resolving" =>
          /\ r.list \subseteq ingress[r.copy.tunnel]
          /\ IF r.kind = "save" THEN \A d \in r.list \ r.left : dns[d] = r.copy.tunnel
             ELSE r.domain \notin r.left => dns[r.domain] = r.copy.tunnel

\* Application a is reachable through tunnel t.
Reachable(a, t) == domain[a] \in Public => domain[a] \in ingress[t] /\ dns[domain[a]] = t
Reported ==
    /\ tunnels = {} => unpublished = Apps
    /\ \A t \in tunnels : tunnels = {t} => \A a \in Apps \ unpublished : Reachable(a, t)
    /\ \A h \in Handlers \ crossing : Publishing(req[h]) => ReportedBy(h)

Inv == Local /\ Naming /\ Apart /\ Attached /\ Reported

-----------------------------------------------------------------------------
(***************************************************************************)
(* What a step of handler h leaves alone.                                  *)
(***************************************************************************)
Rest(h) == \A k \in Handlers : k # h => pc'[k] = pc[k] /\ req'[k] = req[k]
SameName(c, d) == c.name = d.name /\ c.tunnel = d.tunnel

\* Form and copy of the other handlers: tunnels are only ever added.
LEMMA LocalFrame ==
    ASSUME Local, NEW h \in Handlers, Rest(h), tunnels \subseteq tunnels',
           Types', RowOf', FormOf(h)', CopyOf(h)'
    PROVE  Local'
<1>1. ASSUME NEW k \in Handlers, k # h
      PROVE  FormOf(k)' /\ CopyOf(k)'
  <2>1. pc'[k] = pc[k] /\ req'[k] = req[k] /\ FormOf(k) /\ CopyOf(k)
    BY <1>1 DEF Local, Rest
  <2> QED
    BY <2>1 DEF FormOf, CopyOf, Made, Owned
<1> QED
  BY <1>1 DEF Local

\* Naming, when h neither draws an id nor makes a tunnel.
LEMMA NamingFrame ==
    ASSUME Naming, NEW h \in Handlers, Rest(h), UNCHANGED <<instance, tunnels, raced>>,
           SameName(cfg', cfg) \/ SameName(cfg', req[h].copy),
           \/ SameName(req'[h].copy, req[h].copy) \/ SameName(req'[h].copy, cfg)
           \/ req'[h].copy.name # "ours",
           pc'[h] \notin {"minting", "creating", "storing_api"} \/ (pc'[h] = pc[h] /\ req'[h].token = req[h].token)
    PROVE  Naming'
<1> SUFFICES ASSUME ~raced
    PROVE  Ours(cfg)' /\ (\A t \in tunnels' : t = instance') /\ \A k \in Handlers : NamedBy(k)'
  BY DEF Naming
<1>1. Ours(cfg) /\ (\A t \in tunnels : t = instance) /\ \A k \in Handlers : NamedBy(k)
  BY DEF Naming
<1>2. Ours(req[h].copy)
  BY <1>1 DEF NamedBy
<1>3. Ours(cfg)' /\ Ours(req[h].copy)'
  BY <1>1, <1>2 DEF Ours, SameName
<1>4. ASSUME NEW k \in Handlers PROVE Ours(req[k].copy)'
  BY <1>1, <1>3 DEF Ours, NamedBy, Rest
<1>5. ASSUME NEW k \in Handlers PROVE NamedBy(k)'
  <2>1. NamedBy(k) /\ NamedBy(h)
    BY <1>1
  <2>2. \A j \in Handlers : pc'[j] = "minting" => pc[j] = "minting"
    BY DEF Rest
  <2>3. CASE k = h
    BY <1>4, <2>1, <2>2, <2>3 DEF NamedBy, Rest
  <2>4. CASE k # h
    <3>1. pc'[k] = pc[k] /\ req'[k] = req[k]
      BY <2>4 DEF Rest
    <3> QED
      BY <1>4, <2>1, <2>2, <3>1 DEF NamedBy
  <2> QED
    BY <2>3, <2>4
<1> QED
  BY <1>1, <1>3, <1>5

\* A handler that goes on: it keeps its mark, and the history is not forgiven.
LEMMA ApartOn ==
    ASSUME Apart, NEW h \in Handlers, Rest(h), contested \subseteq Handlers, crossing \subseteq Handlers,
           UNCHANGED <<contested, crossing>>,
           req'[h].kind = req[h].kind, torn => torn', stray => stray',
           (unpublished = Apps => unpublished' = Apps) \/ (Publishing(req[h]) /\ h \notin crossing)
    PROVE  Apart'
<1>1. \A k \in Handlers : req'[k].kind = req[k].kind
  BY DEF Rest
<1>2. \A k \in Handlers : (Connecting(req'[k]) <=> Connecting(req[k])) /\ (Publishing(req'[k]) <=> Publishing(req[k]))
  BY <1>1 DEF Connecting, Publishing
<1>3. /\ \A k \in contested' : Connecting(req'[k]) /\ torn' /\ stray'
      /\ \A k \in crossing' : Publishing(req'[k]) /\ unpublished' = Apps
  BY <1>2 DEF Apart
<1>4. ASSUME NEW j \in Handlers, NEW k \in Handlers, j # k
      PROVE  /\ Connecting(req'[j]) /\ Connecting(req'[k]) => j \in contested'
             /\ Publishing(req'[j]) /\ Publishing(req'[k]) => j \in crossing'
  BY <1>2, <1>4 DEF Apart
<1> QED
  BY <1>3, <1>4 DEF Apart, Connecting, Publishing

\* A handler that ends: the others keep their marks.
LEMMA ApartOff ==
    ASSUME Apart, NEW h \in Handlers, Rest(h), contested \subseteq Handlers, crossing \subseteq Handlers,
           contested' = contested \ {h}, crossing' = crossing \ {h},
           req'[h] = NoRequest,
           ((torn => torn') /\ (stray => stray')) \/ (Connecting(req[h]) /\ h \notin contested),
           (unpublished = Apps => unpublished' = Apps) \/ (Publishing(req[h]) /\ h \notin crossing)
    PROVE  Apart'
<1>1. ~Connecting(req'[h]) /\ ~Publishing(req'[h])
  BY DEF NoRequest, Connecting, Publishing
<1>2. \A k \in contested' : Connecting(req'[k]) /\ torn' /\ stray'
  BY DEF Apart, Rest
<1>3. \A k \in crossing' : Publishing(req'[k]) /\ unpublished' = Apps
  BY DEF Apart, Rest
<1>4. ASSUME NEW j \in Handlers, NEW k \in Handlers, j # k
      PROVE  /\ Connecting(req'[j]) /\ Connecting(req'[k]) => j \in contested'
             /\ Publishing(req'[j]) /\ Publishing(req'[k]) => j \in crossing'
  BY <1>1, <1>4 DEF Apart, Rest
<1> QED
  BY <1>2, <1>3, <1>4 DEF Apart, Connecting, Publishing

\* The connector, when h does not work on it.
LEMMA AttachedFrame ==
    ASSUME Attached, NEW h \in Handlers, Rest(h), UNCHANGED <<cfg, token, container, torn, stray>>,
           ~Connecting(req[h]), ~Connecting(req'[h]), \A k \in contested : k = h \/ k \in contested'
    PROVE  Attached'
<1>1. \A k \in Handlers : Connecting(req'[k]) <=> Connecting(req[k])
  BY DEF Rest
<1>2. DisabledMeansStopped' /\ ConnectedServes'
  BY <1>1 DEF Attached, DisabledMeansStopped, ConnectedServes, Connecting
<1>3. ASSUME NEW k \in Handlers \ contested', Connecting(req'[k])
      PROVE  AttachedBy(k)'
  <2>1. k # h /\ k \notin contested
    BY <1>3
  <2>2. pc'[k] = pc[k] /\ req'[k] = req[k] /\ AttachedBy(k)
    BY <1>3, <2>1 DEF Rest, Attached
  <2> QED
    BY <2>2 DEF AttachedBy, Truthful, Serving
<1> QED
  BY <1>2, <1>3 DEF Attached, Connecting

\* The connector, when h works on it: only h can be unmarked.
LEMMA AttachedAlone ==
    ASSUME Apart, NEW h \in Handlers, Rest(h), Connecting(req[h]),
           \A k \in contested : k = h \/ k \in contested',
           DisabledMeansStopped', ConnectedServes',
           h \notin contested' /\ Connecting(req'[h]) => AttachedBy(h)'
    PROVE  Attached'
<1>1. ASSUME NEW k \in Handlers \ contested', Connecting(req'[k])
      PROVE  AttachedBy(k)'
  <2>1. CASE k = h
    BY <1>1, <2>1
  <2>2. CASE k # h
    <3>1. Connecting(req[k])
      BY <1>1, <2>2 DEF Rest
    <3> QED
      BY <1>1, <2>2, <3>1 DEF Apart
  <2> QED
    BY <2>1, <2>2
<1> QED
  BY <1>1 DEF Attached, Connecting

\* What is published, when h does not work on it.
LEMMA ReportedFrame ==
    ASSUME Reported, NEW h \in Handlers, Rest(h),
           UNCHANGED <<domain, tunnels, ingress, dns, unpublished>>,
           \A k \in crossing : k = h \/ k \in crossing',
           Publishing(req'[h]) /\ h \notin crossing' => ReportedBy(h)'
    PROVE  Reported'
<1>1. ASSUME NEW k \in Handlers \ crossing', Publishing(req'[k]), k # h
      PROVE  ReportedBy(k)'
  <2>1. k \notin crossing
    BY <1>1
  <2>2. pc'[k] = pc[k] /\ req'[k] = req[k] /\ ReportedBy(k)
    BY <1>1, <2>1 DEF Rest, Reported
  <2> QED
    BY <2>2 DEF ReportedBy, PublicApplicationDomains
<1>2. \A t \in tunnels' : tunnels' = {t} => \A a \in Apps \ unpublished' : Reachable(a, t)'
  BY DEF Reported, Reachable
<1> QED
  BY <1>1, <1>2 DEF Reported, Publishing, Reachable

\* What is published, when h works on it: only h can be unmarked.
LEMMA ReportedAlone ==
    ASSUME Apart, NEW h \in Handlers, Rest(h), Publishing(req[h]),
           \A k \in crossing : k = h \/ k \in crossing',
           tunnels' = {} => unpublished' = Apps,
           \A t \in tunnels' : tunnels' = {t} => \A a \in Apps \ unpublished' : Reachable(a, t)',
           h \notin crossing' /\ Publishing(req'[h]) => ReportedBy(h)'
    PROVE  Reported'
<1>1. ASSUME NEW k \in Handlers \ crossing', Publishing(req'[k])
      PROVE  ReportedBy(k)'
  <2>1. CASE k = h
    BY <1>1, <2>1
  <2>2. CASE k # h
    <3>1. Publishing(req[k])
      BY <1>1, <2>2 DEF Rest
    <3> QED
      BY <1>1, <2>2, <3>1 DEF Apart
  <2> QED
    BY <2>1, <2>2
<1> QED
  BY <1>1 DEF Reported, Publishing, Reachable

-----------------------------------------------------------------------------
(***************************************************************************)
(* A handler goes on to its next step, or ends.                            *)
(***************************************************************************)

\* What the state of the handlers is after a step to p with locals q.
LEMMA GoesOn ==
    ASSUME Types, NEW h \in Handlers, NEW p \in Steps, NEW q \in Requests,
           Goto(h, p), req' = [req EXCEPT ![h] = q]
    PROVE  /\ pc \in [Handlers -> Steps] /\ req \in [Handlers -> Requests]
           /\ pc'[h] = p /\ req'[h] = q /\ Rest(h)
           /\ pc' \in [Handlers -> Steps] /\ req' \in [Handlers -> Requests]
           /\ UNCHANGED <<contested, crossing>>
           /\ contested \subseteq Handlers /\ crossing \subseteq Handlers
<1>1. pc \in [Handlers -> Steps] /\ req \in [Handlers -> Requests]
      /\ contested \subseteq Handlers /\ crossing \subseteq Handlers
  BY DEF Types
<1>2. pc' = [pc EXCEPT ![h] = p] /\ UNCHANGED <<contested, crossing>>
  BY DEF Goto, overlaps
<1> QED
  BY <1>1, <1>2 DEF Rest

LEMMA Ends ==
    ASSUME Types, NEW h \in Handlers, Refuse(h)
    PROVE  /\ pc'[h] = "idle" /\ req'[h] = NoRequest /\ Rest(h)
           /\ pc' \in [Handlers -> Steps] /\ req' \in [Handlers -> Requests]
           /\ contested' = contested \ {h} /\ crossing' = crossing \ {h}
           /\ contested \subseteq Handlers /\ crossing \subseteq Handlers
           /\ FormOf(h)' /\ CopyOf(h)' /\ ~Connecting(req'[h]) /\ ~Publishing(req'[h])
<1>1. /\ pc \in [Handlers -> Steps] /\ req \in [Handlers -> Requests]
      /\ contested \subseteq Handlers /\ crossing \subseteq Handlers
  BY DEF Types
<1>2. /\ pc' = [pc EXCEPT ![h] = "idle"] /\ req' = [req EXCEPT ![h] = NoRequest]
      /\ contested' = contested \ {h} /\ crossing' = crossing \ {h}
  BY DEF Refuse
<1>3. NoRequest \in Requests /\ "idle" \in Steps
  BY DEF NoRequest, Requests, Kinds, Modes, Configs, Steps
<1>4. pc'[h] = "idle" /\ req'[h] = NoRequest /\ Rest(h)
  BY <1>1, <1>2 DEF Rest
<1>5. ~Connecting(req'[h]) /\ ~Publishing(req'[h])
  BY <1>4 DEF NoRequest, Connecting, Publishing
<1>6. FormOf(h)' /\ CopyOf(h)'
  BY <1>4 DEF FormOf, CopyOf, Made, Owned, NoRequest, Identification, Publication, Connection,
     Removal
<1> QED
  BY <1>1, <1>2, <1>3, <1>4, <1>5, <1>6

\* The handler ends.
LEMMA EndsBy ==
    ASSUME Inv, NEW h \in Handlers, Refuse(h), tunnels \subseteq tunnels',
           Connecting(req[h]) \/ UNCHANGED <<cfg, token, container, torn, stray>>,
           ((torn => torn') /\ (stray => stray')) \/ (Connecting(req[h]) /\ h \notin contested),
           (unpublished = Apps => unpublished' = Apps) \/ (Publishing(req[h]) /\ h \notin crossing),
           Types', RowOf', Naming', DisabledMeansStopped', Reported',
           Connecting(req[h]) => ConnectedServes'
    PROVE  Inv'
<1>1. Local /\ Types /\ Naming /\ Apart /\ Attached /\ Reported
  BY DEF Inv, Local
<1>2. /\ pc'[h] = "idle" /\ req'[h] = NoRequest /\ Rest(h)
      /\ contested' = contested \ {h} /\ crossing' = crossing \ {h}
      /\ contested \subseteq Handlers /\ crossing \subseteq Handlers
      /\ FormOf(h)' /\ CopyOf(h)' /\ ~Connecting(req'[h]) /\ ~Publishing(req'[h])
  BY <1>1, Ends
<1>3. Local'
  BY <1>1, <1>2, LocalFrame
<1>4. Apart'
  BY <1>1, <1>2, ApartOff
<1>5. Attached'
  <2>1. CASE Connecting(req[h])
    BY <1>1, <1>2, <2>1, AttachedAlone
  <2>2. CASE ~Connecting(req[h])
    BY <1>1, <1>2, <2>2, AttachedFrame
  <2> QED
    BY <2>1, <2>2
<1> QED
  BY <1>3, <1>4, <1>5 DEF Inv

\* The handler ends with no effect.  One that had the connector to itself either
\* says so in the history (torn) or had not touched it yet.
LEMMA EndsQuietly ==
    ASSUME Inv, NEW h \in Handlers, Refuse(h),
           UNCHANGED <<cfg, token, apiToken, instance, domain, tunnels, ingress, dns, container,
                       legacy, stray, raced, unpublished>>,
           torn' \in BOOLEAN, torn => torn', Connecting(req[h]) \/ torn' = torn,
           Connecting(req[h]) /\ h \notin contested /\ ~torn' => Truthful
    PROVE  Inv'
<1>1. Local /\ Types /\ Naming /\ Apart /\ Attached /\ Reported
  BY DEF Inv, Local
<1>2. /\ pc'[h] = "idle" /\ req'[h] = NoRequest /\ Rest(h)
      /\ pc' \in [Handlers -> Steps] /\ req' \in [Handlers -> Requests]
      /\ contested' = contested \ {h} /\ crossing' = crossing \ {h}
      /\ contested \subseteq Handlers /\ crossing \subseteq Handlers
      /\ FormOf(h)' /\ CopyOf(h)' /\ ~Connecting(req'[h]) /\ ~Publishing(req'[h])
  BY <1>1, Ends
<1>3. Types'
  BY <1>1, <1>2 DEF Types
<1>4. RowOf' /\ DisabledMeansStopped'
  BY <1>1 DEF Local, RowOf, Made, Owned, Attached, DisabledMeansStopped
<1>5. Naming'
  <2>1. SameName(cfg', cfg) /\ req'[h].copy.name # "ours"
    BY <1>2 DEF SameName, NoRequest
  <2> QED
    BY <1>1, <1>2, <2>1, NamingFrame
<1>6. Connecting(req[h]) => ConnectedServes'
  <2>1. CASE Connecting(req[h]) /\ h \in contested
    BY <1>1, <2>1 DEF Apart, ConnectedServes
  <2>2. CASE Connecting(req[h]) /\ h \notin contested
    BY <2>2 DEF Truthful, Serving, ConnectedServes
  <2> QED
    BY <2>1, <2>2
<1>7. Reported'
  BY <1>1, <1>2, ReportedFrame
<1> QED
  BY <1>3, <1>4, <1>5, <1>6, <1>7, EndsBy

\* The handler goes on.
LEMMA StepsOnBy ==
    ASSUME Inv, NEW h \in Handlers, NEW p \in Steps, NEW q \in Requests,
           Goto(h, p), req' = [req EXCEPT ![h] = q], q.kind = req[h].kind,
           UNCHANGED <<torn, stray>>, tunnels \subseteq tunnels',
           Connecting(req[h]) \/ UNCHANGED <<cfg, token, container>>,
           (unpublished = Apps => unpublished' = Apps) \/ (Publishing(req[h]) /\ h \notin crossing),
           Types', FormOf(h)', CopyOf(h)', RowOf', Naming', DisabledMeansStopped', Reported',
           Connecting(req[h]) /\ h \notin contested => AttachedBy(h)'
    PROVE  Inv'
<1>1. Local /\ Types /\ Naming /\ Apart /\ Attached /\ Reported
  BY DEF Inv, Local
<1>2. /\ pc'[h] = p /\ req'[h] = q /\ Rest(h)
      /\ UNCHANGED <<contested, crossing>>
      /\ contested \subseteq Handlers /\ crossing \subseteq Handlers
  BY <1>1, GoesOn
<1>3. Local'
  BY <1>1, <1>2, LocalFrame
<1>4. Apart'
  BY <1>1, <1>2, ApartOn
<1>5. Connecting(req'[h]) <=> Connecting(req[h])
  BY <1>2 DEF Connecting
<1>6. Attached'
  <2>1. CASE Connecting(req[h])
    <3>1. ConnectedServes'
      BY <1>5, <2>1 DEF ConnectedServes, Connecting
    <3> QED
      BY <1>1, <1>2, <2>1, <3>1, AttachedAlone
  <2>2. CASE ~Connecting(req[h])
    BY <1>1, <1>2, <1>5, <2>2, AttachedFrame
  <2> QED
    BY <2>1, <2>2
<1> QED
  BY <1>3, <1>4, <1>6 DEF Inv

\* The handler goes on, and leaves the tunnels and what is published alone.
LEMMA StepsOn ==
    ASSUME Inv, NEW h \in Handlers, NEW p \in Steps, NEW q \in Requests,
           Goto(h, p), req' = [req EXCEPT ![h] = q], q.kind = req[h].kind,
           UNCHANGED <<instance, domain, tunnels, ingress, dns, torn, stray, raced, unpublished>>,
           Connecting(req[h]) \/ UNCHANGED <<cfg, token, container>>,
           cfg' \in Configs, token' \in Tokens \cup {None}, apiToken' \in BOOLEAN,
           container' \in Containers, legacy' \in BOOLEAN,
           FormOf(h)', CopyOf(h)', RowOf', DisabledMeansStopped',
           SameName(cfg', cfg) \/ SameName(cfg', req[h].copy),
           \/ SameName(q.copy, req[h].copy) \/ SameName(q.copy, cfg)
           \/ q.copy.name # "ours",
           p \notin {"minting", "creating", "storing_api"},
           Connecting(req[h]) /\ h \notin contested => AttachedBy(h)',
           Publishing(req[h]) /\ h \notin crossing => ReportedBy(h)'
    PROVE  Inv'
<1>1. Local /\ Types /\ Naming /\ Apart /\ Attached /\ Reported
  BY DEF Inv, Local
<1>2. /\ pc'[h] = p /\ req'[h] = q /\ Rest(h)
      /\ pc' \in [Handlers -> Steps] /\ req' \in [Handlers -> Requests]
      /\ UNCHANGED <<contested, crossing>>
      /\ contested \subseteq Handlers /\ crossing \subseteq Handlers
  BY <1>1, GoesOn
<1>3. Types'
  BY <1>1, <1>2 DEF Types
<1>4. Naming'
  BY <1>1, <1>2, NamingFrame
<1>5. Publishing(req'[h]) <=> Publishing(req[h])
  BY <1>2 DEF Publishing
<1>6. Reported'
  BY <1>1, <1>2, <1>5, ReportedFrame
<1> QED
  BY <1>3, <1>4, <1>6, StepsOnBy

\* A tunnel that is made, or found, takes nothing from what is published: there was
\* no tunnel to publish through, or it is the same one.
LEMMA MadeTunnel ==
    ASSUME Reported, NEW u, tunnels' = tunnels \cup {u},
           UNCHANGED <<domain, ingress, dns, unpublished>>
    PROVE  /\ tunnels' = {} => unpublished' = Apps
           /\ \A t \in tunnels' : tunnels' = {t} => \A a \in Apps \ unpublished' : Reachable(a, t)'
<1>1. tunnels' # {}
  OBVIOUS
<1>2. ASSUME NEW t \in tunnels', tunnels' = {t}, NEW a \in Apps \ unpublished'
      PROVE  Reachable(a, t)'
  <2>1. tunnels # {}
    BY <1>2 DEF Reported
  <2>2. t \in tunnels /\ tunnels = {t}
    BY <1>2, <2>1
  <2>3. Reachable(a, t)
    BY <1>2, <2>2 DEF Reported
  <2> QED
    BY <2>3 DEF Reachable
<1> QED
  BY <1>1, <1>2

\* The API token is sealed.
LEMMA PutApiTokenInv ==
    ASSUME Inv, NEW h \in Handlers, PutApiToken(h)
    PROVE  Inv'
<1> DEFINE r == req[h]
           p == "storing"
           q == req[h]
<1>1. /\ Local /\ Types /\ Naming /\ Apart /\ Attached /\ Reported /\ RowOf
      /\ FormOf(h) /\ CopyOf(h) /\ r \in Requests
      /\ (Connecting(req[h]) /\ h \notin contested => AttachedBy(h))
      /\ (Publishing(req[h]) /\ h \notin crossing => ReportedBy(h))
  BY DEF Inv, Local, Types, Attached, Reported
<1>2. /\ UNCHANGED <<cfg, token, instance, domain, tunnels, ingress, dns, container, legacy,
                      torn, stray, raced, unpublished>>
      /\ pc[h] = "storing_api"
      /\ apiToken' = TRUE /\ req' = req
  BY DEF PutApiToken, remote, docker, history, connection
<1>3. Goto(h, p) /\ req' = [req EXCEPT ![h] = q]
  BY <1>1, <1>2 DEF PutApiToken, Goto, Types
<1>4. p \in Steps /\ q \in Requests
  BY <1>1, <1>2 DEF Steps
<1>5. /\ cfg' \in Configs /\ token' \in Tokens \cup {None} /\ apiToken' \in BOOLEAN
      /\ container' \in Containers /\ legacy' \in BOOLEAN
  BY <1>1, <1>2 DEF Types
<1>6. pc'[h] = p /\ req'[h] = q /\ Rest(h)
  BY <1>1, <1>3, <1>4, GoesOn
<1>7. FormOf(h)' /\ CopyOf(h)'
  BY <1>1, <1>2, <1>6 DEF FormOf, CopyOf, Made, Owned, Identification, Removal
<1>8. RowOf'
  BY <1>1, <1>2 DEF RowOf, Made, Owned
<1>9. DisabledMeansStopped'
  BY <1>1, <1>2 DEF DisabledMeansStopped, Attached
<1>10. Connecting(req[h]) /\ h \notin contested => AttachedBy(h)'
  BY <1>1, <1>2, <1>6 DEF AttachedBy, Truthful, Serving, Publication, Connection
<1>11. Publishing(req[h]) /\ h \notin crossing => ReportedBy(h)'
  BY <1>1, <1>2, <1>6 DEF ReportedBy
<1>12. /\ q.kind = req[h].kind /\ p \notin {"minting", "creating", "storing_api"}
       /\ Connecting(req[h]) \/ UNCHANGED <<cfg, token, container>>
       /\ SameName(cfg', cfg) \/ SameName(cfg', req[h].copy)
       /\ SameName(q.copy, req[h].copy) \/ SameName(q.copy, cfg) \/ q.copy.name # "ours"
  BY <1>1, <1>2 DEF SameName
<1> HIDE DEF p, q
<1> QED
  BY <1>1, <1>2, <1>3, <1>4, <1>5, <1>7, <1>8, <1>9, <1>10, <1>11, <1>12, StepsOn

\* The tunnel token is sealed.
LEMMA PutTunnelTokenInv ==
    ASSUME Inv, NEW h \in Handlers, PutTunnelToken(h)
    PROVE  Inv'
<1> DEFINE r == req[h]
           p == IF req[h].mode = "api_token" THEN "listing" ELSE "configuring"
           q == req[h]
<1>1. /\ Local /\ Types /\ Naming /\ Apart /\ Attached /\ Reported /\ RowOf
      /\ FormOf(h) /\ CopyOf(h) /\ r \in Requests
      /\ (Connecting(req[h]) /\ h \notin contested => AttachedBy(h))
      /\ (Publishing(req[h]) /\ h \notin crossing => ReportedBy(h))
  BY DEF Inv, Local, Types, Attached, Reported
<1>2. /\ UNCHANGED <<cfg, apiToken, instance, domain, tunnels, ingress, dns, container, legacy,
                      torn, stray, raced, unpublished>>
      /\ pc[h] = "storing"
      /\ token' = req[h].token /\ req' = req
  BY DEF PutTunnelToken, remote, docker, history, connection
<1>3. Goto(h, p) /\ req' = [req EXCEPT ![h] = q]
  BY <1>1, <1>2 DEF PutTunnelToken, Goto, Types
<1>4. p \in Steps /\ q \in Requests
  BY <1>1, <1>2 DEF Steps, Publication
<1>5. /\ cfg' \in Configs /\ token' \in Tokens \cup {None} /\ apiToken' \in BOOLEAN
      /\ container' \in Containers /\ legacy' \in BOOLEAN
  BY <1>1, <1>2 DEF Types, Requests
<1>6. pc'[h] = p /\ req'[h] = q /\ Rest(h)
  BY <1>1, <1>3, <1>4, GoesOn
<1>7. FormOf(h)' /\ CopyOf(h)'
  BY <1>1, <1>2, <1>6 DEF FormOf, CopyOf, Made, Owned, Identification, Publication, Removal
<1>8. RowOf'
  BY <1>1, <1>2 DEF RowOf, Made, Owned
<1>9. DisabledMeansStopped'
  BY <1>1, <1>2 DEF DisabledMeansStopped, Attached
<1>10. Connecting(req[h]) /\ h \notin contested => AttachedBy(h)'
  BY <1>1, <1>2, <1>6 DEF AttachedBy, Identification, Connection
<1>11. Publishing(req[h]) /\ h \notin crossing => ReportedBy(h)'
  BY <1>1, <1>2, <1>6 DEF ReportedBy
<1>12. /\ q.kind = req[h].kind /\ p \notin {"minting", "creating", "storing_api"}
       /\ Connecting(req[h]) \/ UNCHANGED <<cfg, token, container>>
       /\ SameName(cfg', cfg) \/ SameName(cfg', req[h].copy)
       /\ SameName(q.copy, req[h].copy) \/ SameName(q.copy, cfg) \/ q.copy.name # "ours"
  BY <1>1, <1>2 DEF SameName, FormOf, Connecting
<1> HIDE DEF p, q
<1> QED
  BY <1>1, <1>2, <1>3, <1>4, <1>5, <1>7, <1>8, <1>9, <1>10, <1>11, <1>12, StepsOn

\* The domains are read.
LEMMA ListApplicationsInv ==
    ASSUME Inv, NEW h \in Handlers, ListApplications(h)
    PROVE  Inv'
<1> DEFINE r == req[h]
           p == "routing"
           q == [req[h] EXCEPT !.list = PublicApplicationDomains,
                              !.left = IF req[h].kind = "save" THEN PublicApplicationDomains
                                       ELSE {req[h].domain}]
<1>1. /\ Local /\ Types /\ Naming /\ Apart /\ Attached /\ Reported /\ RowOf
      /\ FormOf(h) /\ CopyOf(h) /\ r \in Requests
      /\ (Connecting(req[h]) /\ h \notin contested => AttachedBy(h))
      /\ (Publishing(req[h]) /\ h \notin crossing => ReportedBy(h))
  BY DEF Inv, Local, Types, Attached, Reported
<1>2. /\ UNCHANGED <<cfg, token, apiToken, instance, domain, tunnels, ingress, dns, container,
                      legacy, torn, stray, raced, unpublished>>
      /\ pc[h] = "listing"
  BY DEF ListApplications, secrets, remote, docker, history, connection
<1>3. Goto(h, p) /\ req' = [req EXCEPT ![h] = q]
  BY <1>1, <1>2 DEF ListApplications, Goto, Types
<1>4. p \in Steps /\ q \in Requests
  BY <1>1, <1>2 DEF Requests, FormOf, PublicApplicationDomains, Steps, Publication
<1>5. /\ cfg' \in Configs /\ token' \in Tokens \cup {None} /\ apiToken' \in BOOLEAN
      /\ container' \in Containers /\ legacy' \in BOOLEAN
  BY <1>1, <1>2 DEF Types
<1>6. pc'[h] = p /\ req'[h] = q /\ Rest(h)
  BY <1>1, <1>3, <1>4, GoesOn
<1>7. FormOf(h)' /\ CopyOf(h)'
  BY <1>1, <1>2, <1>6 DEF FormOf, CopyOf, Made, Owned, Identification, Publication, Connection,
     Removal
<1>8. RowOf'
  BY <1>1, <1>2 DEF RowOf, Made, Owned
<1>9. DisabledMeansStopped'
  BY <1>1, <1>2 DEF DisabledMeansStopped, Attached
<1>10. Connecting(req[h]) /\ h \notin contested => AttachedBy(h)'
  BY <1>1, <1>2, <1>6 DEF AttachedBy, Identification, Publication, Connection
<1>11. Publishing(req[h]) /\ h \notin crossing => ReportedBy(h)'
  BY <1>1, <1>2, <1>6 DEF ReportedBy, PublicApplicationDomains
<1>12. /\ q.kind = req[h].kind /\ p \notin {"minting", "creating", "storing_api"}
       /\ Connecting(req[h]) \/ UNCHANGED <<cfg, token, container>>
       /\ SameName(cfg', cfg) \/ SameName(cfg', req[h].copy)
       /\ SameName(q.copy, req[h].copy) \/ SameName(q.copy, cfg) \/ q.copy.name # "ours"
  BY <1>1, <1>2 DEF SameName
<1> HIDE DEF p, q
<1> QED
  BY <1>1, <1>2, <1>3, <1>4, <1>5, <1>7, <1>8, <1>9, <1>10, <1>11, <1>12, StepsOn

\* The row says configuring before the container is touched.
LEMMA ConfiguringInv ==
    ASSUME Inv, NEW h \in Handlers, Configuring(h)
    PROVE  Inv'
<1> DEFINE r == req[h]
           p == "migrating"
           q == req[h]
<1>1. /\ Local /\ Types /\ Naming /\ Apart /\ Attached /\ Reported /\ RowOf
      /\ FormOf(h) /\ CopyOf(h) /\ r \in Requests
      /\ (Connecting(req[h]) /\ h \notin contested => AttachedBy(h))
      /\ (Publishing(req[h]) /\ h \notin crossing => ReportedBy(h))
  BY DEF Inv, Local, Types, Attached, Reported
<1>2. /\ UNCHANGED <<token, apiToken, instance, domain, tunnels, ingress, dns, container,
                      legacy, torn, stray, raced, unpublished>>
      /\ pc[h] = "configuring"
      /\ cfg' = [req[h].copy EXCEPT !.status = "configuring"] /\ req' = req
  BY DEF Configuring, secrets, remote, docker, history, connection
<1>3. Goto(h, p) /\ req' = [req EXCEPT ![h] = q]
  BY <1>1, <1>2 DEF Configuring, Goto, Types
<1>4. p \in Steps /\ q \in Requests
  BY <1>1, <1>2 DEF Steps, Connection
<1>5. /\ cfg' \in Configs /\ token' \in Tokens \cup {None} /\ apiToken' \in BOOLEAN
      /\ container' \in Containers /\ legacy' \in BOOLEAN
  BY <1>1, <1>2 DEF Types, Configs, Requests
<1>6. pc'[h] = p /\ req'[h] = q /\ Rest(h)
  BY <1>1, <1>3, <1>4, GoesOn
<1>7. FormOf(h)' /\ CopyOf(h)'
  BY <1>1, <1>2, <1>6 DEF FormOf, CopyOf, Made, Owned, Identification, Publication, Removal
<1>8. RowOf'
  BY <1>1, <1>2 DEF RowOf, Made, Owned, CopyOf, Identification
<1>9. DisabledMeansStopped'
  BY <1>1, <1>2 DEF DisabledMeansStopped
<1>10. Connecting(req[h]) /\ h \notin contested => AttachedBy(h)'
  BY <1>1, <1>2, <1>6 DEF AttachedBy, Truthful
<1>11. Publishing(req[h]) /\ h \notin crossing => ReportedBy(h)'
  BY <1>1, <1>2, <1>6 DEF ReportedBy
<1>12. /\ q.kind = req[h].kind /\ p \notin {"minting", "creating", "storing_api"}
       /\ Connecting(req[h]) \/ UNCHANGED <<cfg, token, container>>
       /\ SameName(cfg', cfg) \/ SameName(cfg', req[h].copy)
       /\ SameName(q.copy, req[h].copy) \/ SameName(q.copy, cfg) \/ q.copy.name # "ours"
  BY <1>1, <1>2 DEF SameName, FormOf, Connecting
<1> HIDE DEF p, q
<1> QED
  BY <1>1, <1>2, <1>3, <1>4, <1>5, <1>7, <1>8, <1>9, <1>10, <1>11, <1>12, StepsOn

\* The connector of an old Compose file is removed, or not.
LEMMA RemoveLegacyInv ==
    ASSUME Inv, NEW h \in Handlers, RemoveLegacyComposeConnector(h)
    PROVE  Inv'
<1> DEFINE r == req[h]
           p == "inspecting"
           q == req[h]
<1>1. /\ Local /\ Types /\ Naming /\ Apart /\ Attached /\ Reported /\ RowOf
      /\ FormOf(h) /\ CopyOf(h) /\ r \in Requests
      /\ (Connecting(req[h]) /\ h \notin contested => AttachedBy(h))
      /\ (Publishing(req[h]) /\ h \notin crossing => ReportedBy(h))
  BY DEF Inv, Local, Types, Attached, Reported
<1>2. /\ UNCHANGED <<cfg, token, apiToken, instance, domain, tunnels, ingress, dns, container,
                      torn, stray, raced, unpublished>>
      /\ pc[h] = "migrating"
      /\ legacy' \in {legacy, FALSE} /\ req' = req
  BY DEF RemoveLegacyComposeConnector, secrets, remote, history, connection
<1>3. Goto(h, p) /\ req' = [req EXCEPT ![h] = q]
  BY <1>1, <1>2 DEF RemoveLegacyComposeConnector, Goto, Types
<1>4. p \in Steps /\ q \in Requests
  BY <1>1, <1>2 DEF Steps, Connection
<1>5. /\ cfg' \in Configs /\ token' \in Tokens \cup {None} /\ apiToken' \in BOOLEAN
      /\ container' \in Containers /\ legacy' \in BOOLEAN
  <2>1. legacy' \in BOOLEAN
    BY <1>1, <1>2 DEF Types
  <2> QED
    BY <1>1, <1>2, <2>1 DEF Types
<1>6. pc'[h] = p /\ req'[h] = q /\ Rest(h)
  BY <1>1, <1>3, <1>4, GoesOn
<1>7. FormOf(h)' /\ CopyOf(h)'
  BY <1>1, <1>2, <1>6 DEF FormOf, CopyOf, Made, Owned, Identification, Publication, Connection,
     Removal
<1>8. RowOf'
  BY <1>1, <1>2 DEF RowOf, Made, Owned
<1>9. DisabledMeansStopped'
  BY <1>1, <1>2 DEF DisabledMeansStopped, Attached
<1>10. Connecting(req[h]) /\ h \notin contested => AttachedBy(h)'
  BY <1>1, <1>2, <1>6 DEF AttachedBy, Identification, Connection
<1>11. Publishing(req[h]) /\ h \notin crossing => ReportedBy(h)'
  BY <1>1, <1>2, <1>6 DEF ReportedBy
<1>12. /\ q.kind = req[h].kind /\ p \notin {"minting", "creating", "storing_api"}
       /\ Connecting(req[h]) \/ UNCHANGED <<cfg, token, container>>
       /\ SameName(cfg', cfg) \/ SameName(cfg', req[h].copy)
       /\ SameName(q.copy, req[h].copy) \/ SameName(q.copy, cfg) \/ q.copy.name # "ours"
  BY <1>1, <1>2 DEF SameName
<1> HIDE DEF p, q
<1> QED
  BY <1>1, <1>2, <1>3, <1>4, <1>5, <1>7, <1>8, <1>9, <1>10, <1>11, <1>12, StepsOn

\* The container is removed, to be replaced or for good.
LEMMA RemoveContainerInv ==
    ASSUME Inv, NEW h \in Handlers, RemoveContainer(h)
    PROVE  Inv'
<1> DEFINE r == req[h]
           p == IF pc[h] = "replacing" THEN "making" ELSE "disabling"
           q == req[h]
<1>1. /\ Local /\ Types /\ Naming /\ Apart /\ Attached /\ Reported /\ RowOf
      /\ FormOf(h) /\ CopyOf(h) /\ r \in Requests
      /\ (Connecting(req[h]) /\ h \notin contested => AttachedBy(h))
      /\ (Publishing(req[h]) /\ h \notin crossing => ReportedBy(h))
  BY DEF Inv, Local, Types, Attached, Reported
<1>2. /\ UNCHANGED <<cfg, token, apiToken, instance, domain, tunnels, ingress, dns, legacy,
                      torn, stray, raced, unpublished>>
      /\ pc[h] \in {"replacing", "removing"}
      /\ container' = NoContainer /\ req' = req
  BY DEF RemoveContainer, secrets, remote, history, connection
<1>3. Goto(h, p) /\ req' = [req EXCEPT ![h] = q]
  BY <1>1, <1>2 DEF RemoveContainer, Goto, Types
<1>4. p \in Steps /\ q \in Requests
  BY <1>1, <1>2 DEF Steps, Connection, Removal
<1>5. /\ cfg' \in Configs /\ token' \in Tokens \cup {None} /\ apiToken' \in BOOLEAN
      /\ container' \in Containers /\ legacy' \in BOOLEAN
  BY <1>1, <1>2 DEF Types, Containers, NoContainer
<1>6. pc'[h] = p /\ req'[h] = q /\ Rest(h)
  BY <1>1, <1>3, <1>4, GoesOn
<1>7. FormOf(h)' /\ CopyOf(h)'
  BY <1>1, <1>2, <1>6 DEF FormOf, CopyOf, Made, Owned, Identification, Publication, Connection,
     Removal
<1>8. RowOf'
  BY <1>1, <1>2 DEF RowOf, Made, Owned
<1>9. DisabledMeansStopped'
  BY <1>1, <1>2 DEF DisabledMeansStopped, NoContainer
<1>10. Connecting(req[h]) /\ h \notin contested => AttachedBy(h)'
  BY <1>1, <1>2, <1>6 DEF AttachedBy, NoContainer, Identification, Publication, Connection
<1>11. Publishing(req[h]) /\ h \notin crossing => ReportedBy(h)'
  BY <1>1, <1>2, <1>6 DEF ReportedBy
<1>12. /\ q.kind = req[h].kind /\ p \notin {"minting", "creating", "storing_api"}
       /\ Connecting(req[h]) \/ UNCHANGED <<cfg, token, container>>
       /\ SameName(cfg', cfg) \/ SameName(cfg', req[h].copy)
       /\ SameName(q.copy, req[h].copy) \/ SameName(q.copy, cfg) \/ q.copy.name # "ours"
  BY <1>1, <1>2 DEF SameName, FormOf, Connecting, Connection, Removal
<1> HIDE DEF p, q
<1> QED
  BY <1>1, <1>2, <1>3, <1>4, <1>5, <1>7, <1>8, <1>9, <1>10, <1>11, <1>12, StepsOn

\* The container is made, unless the name was taken meanwhile.
LEMMA MakeContainerInv ==
    ASSUME Inv, NEW h \in Handlers, MakeContainer(h)
    PROVE  Inv'
<1> DEFINE r == req[h]
           p == IF container.owner = "nobody" THEN "starting" ELSE "failing"
           q == req[h]
<1>1. /\ Local /\ Types /\ Naming /\ Apart /\ Attached /\ Reported /\ RowOf
      /\ FormOf(h) /\ CopyOf(h) /\ r \in Requests
      /\ (Connecting(req[h]) /\ h \notin contested => AttachedBy(h))
      /\ (Publishing(req[h]) /\ h \notin crossing => ReportedBy(h))
  BY DEF Inv, Local, Types, Attached, Reported
<1>2. /\ UNCHANGED <<cfg, token, apiToken, instance, domain, tunnels, ingress, dns, legacy,
                      torn, stray, raced, unpublished>>
      /\ pc[h] = "making"
      /\ req' = req
      /\ container' = IF container.owner = "nobody"
                      THEN [owner |-> "minidock", token |-> req[h].token, state |-> "created"]
                      ELSE container
  BY DEF MakeContainer, secrets, remote, history, connection
<1>3. Goto(h, p) /\ req' = [req EXCEPT ![h] = q]
  BY <1>1, <1>2 DEF MakeContainer, Goto, Types
<1>4. p \in Steps /\ q \in Requests
  BY <1>1, <1>2 DEF Steps, Connection
<1>5. /\ cfg' \in Configs /\ token' \in Tokens \cup {None} /\ apiToken' \in BOOLEAN
      /\ container' \in Containers /\ legacy' \in BOOLEAN
  BY <1>1, <1>2 DEF Types, Requests, Containers
<1>6. pc'[h] = p /\ req'[h] = q /\ Rest(h)
  BY <1>1, <1>3, <1>4, GoesOn
<1>7. FormOf(h)' /\ CopyOf(h)'
  BY <1>1, <1>2, <1>6 DEF FormOf, CopyOf, Made, Owned, Identification, Publication, Connection,
     Removal
<1>8. RowOf'
  BY <1>1, <1>2 DEF RowOf, Made, Owned
<1>9. DisabledMeansStopped'
  BY <1>1, <1>2 DEF DisabledMeansStopped, AttachedBy, Apart, FormOf, Connecting, Connection
<1>10. Connecting(req[h]) /\ h \notin contested => AttachedBy(h)'
  BY <1>1, <1>2, <1>6 DEF AttachedBy, Identification, Connection
<1>11. Publishing(req[h]) /\ h \notin crossing => ReportedBy(h)'
  BY <1>1, <1>2, <1>6 DEF ReportedBy
<1>12. /\ q.kind = req[h].kind /\ p \notin {"minting", "creating", "storing_api"}
       /\ Connecting(req[h]) \/ UNCHANGED <<cfg, token, container>>
       /\ SameName(cfg', cfg) \/ SameName(cfg', req[h].copy)
       /\ SameName(q.copy, req[h].copy) \/ SameName(q.copy, cfg) \/ q.copy.name # "ours"
  BY <1>1, <1>2 DEF SameName, FormOf, Connecting, Connection
<1> HIDE DEF p, q
<1> QED
  BY <1>1, <1>2, <1>3, <1>4, <1>5, <1>7, <1>8, <1>9, <1>10, <1>11, <1>12, StepsOn

\* The container is started, if it is still there.
LEMMA StartContainerInv ==
    ASSUME Inv, NEW h \in Handlers, StartContainer(h)
    PROVE  Inv'
<1> DEFINE r == req[h]
           p == IF container.owner # "nobody" THEN "connecting" ELSE "failing"
           q == req[h]
<1>1. /\ Local /\ Types /\ Naming /\ Apart /\ Attached /\ Reported /\ RowOf
      /\ FormOf(h) /\ CopyOf(h) /\ r \in Requests
      /\ (Connecting(req[h]) /\ h \notin contested => AttachedBy(h))
      /\ (Publishing(req[h]) /\ h \notin crossing => ReportedBy(h))
  BY DEF Inv, Local, Types, Attached, Reported
<1>2. /\ UNCHANGED <<cfg, token, apiToken, instance, domain, tunnels, ingress, dns, legacy,
                      torn, stray, raced, unpublished>>
      /\ pc[h] \in {"restarting", "starting"}
      /\ req' = req
      /\ container' = IF container.owner # "nobody" THEN [container EXCEPT !.state = "running"]
                      ELSE container
  BY DEF StartContainer, secrets, remote, history, connection
<1>3. Goto(h, p) /\ req' = [req EXCEPT ![h] = q]
  BY <1>1, <1>2 DEF StartContainer, Goto, Types
<1>4. p \in Steps /\ q \in Requests
  BY <1>1, <1>2 DEF Steps, Connection
<1>5. /\ cfg' \in Configs /\ token' \in Tokens \cup {None} /\ apiToken' \in BOOLEAN
      /\ container' \in Containers /\ legacy' \in BOOLEAN
  BY <1>1, <1>2 DEF Types, Containers
<1>6. pc'[h] = p /\ req'[h] = q /\ Rest(h)
  BY <1>1, <1>3, <1>4, GoesOn
<1>7. FormOf(h)' /\ CopyOf(h)'
  BY <1>1, <1>2, <1>6 DEF FormOf, CopyOf, Made, Owned, Identification, Publication, Connection,
     Removal
<1>8. RowOf'
  BY <1>1, <1>2 DEF RowOf, Made, Owned
<1>9. DisabledMeansStopped'
  BY <1>1, <1>2 DEF DisabledMeansStopped, Attached
<1>10. Connecting(req[h]) /\ h \notin contested => AttachedBy(h)'
  BY <1>1, <1>2, <1>6 DEF AttachedBy, Identification, Connection
<1>11. Publishing(req[h]) /\ h \notin crossing => ReportedBy(h)'
  BY <1>1, <1>2, <1>6 DEF ReportedBy
<1>12. /\ q.kind = req[h].kind /\ p \notin {"minting", "creating", "storing_api"}
       /\ Connecting(req[h]) \/ UNCHANGED <<cfg, token, container>>
       /\ SameName(cfg', cfg) \/ SameName(cfg', req[h].copy)
       /\ SameName(q.copy, req[h].copy) \/ SameName(q.copy, cfg) \/ q.copy.name # "ours"
  BY <1>1, <1>2 DEF SameName, FormOf, Connecting, Connection
<1> HIDE DEF p, q
<1> QED
  BY <1>1, <1>2, <1>3, <1>4, <1>5, <1>7, <1>8, <1>9, <1>10, <1>11, <1>12, StepsOn

\* The container is not started, or removed again.
LEMMA StartFailsInv ==
    ASSUME Inv, NEW h \in Handlers, StartFails(h)
    PROVE  Inv'
<1> DEFINE r == req[h]
           p == "failing"
           q == req[h]
<1>1. /\ Local /\ Types /\ Naming /\ Apart /\ Attached /\ Reported /\ RowOf
      /\ FormOf(h) /\ CopyOf(h) /\ r \in Requests
      /\ (Connecting(req[h]) /\ h \notin contested => AttachedBy(h))
      /\ (Publishing(req[h]) /\ h \notin crossing => ReportedBy(h))
  BY DEF Inv, Local, Types, Attached, Reported
<1>2. /\ UNCHANGED <<cfg, token, apiToken, instance, domain, tunnels, ingress, dns, legacy,
                      torn, stray, raced, unpublished>>
      /\ pc[h] \in {"restarting", "starting"}
      /\ req' = req
      /\ container' \in {NoContainer, container, [container EXCEPT !.state = "running"]}
  BY DEF StartFails, secrets, remote, history, connection
<1>3. Goto(h, p) /\ req' = [req EXCEPT ![h] = q]
  BY <1>1, <1>2 DEF StartFails, Goto, Types
<1>4. p \in Steps /\ q \in Requests
  BY <1>1, <1>2 DEF Steps
<1>5. /\ cfg' \in Configs /\ token' \in Tokens \cup {None} /\ apiToken' \in BOOLEAN
      /\ container' \in Containers /\ legacy' \in BOOLEAN
  BY <1>1, <1>2 DEF Types, Containers, NoContainer
<1>6. pc'[h] = p /\ req'[h] = q /\ Rest(h)
  BY <1>1, <1>3, <1>4, GoesOn
<1>7. FormOf(h)' /\ CopyOf(h)'
  BY <1>1, <1>2, <1>6 DEF FormOf, CopyOf, Made, Owned, Identification, Publication, Connection,
     Removal
<1>8. RowOf'
  BY <1>1, <1>2 DEF RowOf, Made, Owned
<1>9. DisabledMeansStopped'
  BY <1>1, <1>2 DEF DisabledMeansStopped, AttachedBy, Apart, FormOf, Connecting, Connection
<1>10. Connecting(req[h]) /\ h \notin contested => AttachedBy(h)'
  BY <1>1, <1>2, <1>6 DEF AttachedBy, Identification, Connection
<1>11. Publishing(req[h]) /\ h \notin crossing => ReportedBy(h)'
  BY <1>1, <1>2, <1>6 DEF ReportedBy
<1>12. /\ q.kind = req[h].kind /\ p \notin {"minting", "creating", "storing_api"}
       /\ Connecting(req[h]) \/ UNCHANGED <<cfg, token, container>>
       /\ SameName(cfg', cfg) \/ SameName(cfg', req[h].copy)
       /\ SameName(q.copy, req[h].copy) \/ SameName(q.copy, cfg) \/ q.copy.name # "ours"
  BY <1>1, <1>2 DEF SameName, FormOf, Connecting, Connection
<1> HIDE DEF p, q
<1> QED
  BY <1>1, <1>2, <1>3, <1>4, <1>5, <1>7, <1>8, <1>9, <1>10, <1>11, <1>12, StepsOn

\* The container is kept, started, replaced or left alone.
LEMMA InspectInv ==
    ASSUME Inv, NEW h \in Handlers, Inspect(h)
    PROVE  Inv'
<1> DEFINE r == req[h]
           p == pc'[h]
           q == req[h]
<1>1. /\ Local /\ Types /\ Naming /\ Apart /\ Attached /\ Reported /\ RowOf
      /\ FormOf(h) /\ CopyOf(h) /\ r \in Requests
      /\ (Connecting(req[h]) /\ h \notin contested => AttachedBy(h))
      /\ (Publishing(req[h]) /\ h \notin crossing => ReportedBy(h))
  BY DEF Inv, Local, Types, Attached, Reported
<1>2. /\ UNCHANGED <<cfg, token, apiToken, instance, domain, tunnels, ingress, dns, container,
                      legacy, torn, stray, raced, unpublished>>
      /\ pc[h] = "inspecting"
      /\ req' = req
  BY DEF Inspect, secrets, remote, docker, history, connection
<1>3. /\ Goto(h, p) /\ req' = [req EXCEPT ![h] = q]
      /\ p \in {"failing", "connecting", "restarting", "replacing", "making"}
      /\ (p \in {"connecting", "restarting"} =>
             container.owner = "minidock" /\ container.token = req[h].token)
      /\ (p = "connecting" => container.state # "created")
  BY <1>1, <1>2 DEF Inspect, Goto, Types, Containers
<1> HIDE DEF p
<1>4. p \in Steps /\ q \in Requests
  BY <1>1, <1>2, <1>3 DEF Steps, Connection
<1>5. /\ cfg' \in Configs /\ token' \in Tokens \cup {None} /\ apiToken' \in BOOLEAN
      /\ container' \in Containers /\ legacy' \in BOOLEAN
  BY <1>1, <1>2 DEF Types
<1>6. pc'[h] = p /\ req'[h] = q /\ Rest(h)
  BY <1>1, <1>3, <1>4, GoesOn
<1>7. FormOf(h)' /\ CopyOf(h)'
  BY <1>1, <1>2, <1>3, <1>6 DEF FormOf, CopyOf, Made, Owned, Identification, Publication,
     Connection, Removal
<1>8. RowOf'
  BY <1>1, <1>2 DEF RowOf, Made, Owned
<1>9. DisabledMeansStopped'
  BY <1>1, <1>2 DEF DisabledMeansStopped, Attached
<1>10. Connecting(req[h]) /\ h \notin contested => AttachedBy(h)'
  BY <1>1, <1>2, <1>3, <1>6 DEF AttachedBy, Identification, Connection
<1>11. Publishing(req[h]) /\ h \notin crossing => ReportedBy(h)'
  BY <1>1, <1>2, <1>3, <1>6 DEF ReportedBy
<1>12. /\ q.kind = req[h].kind /\ p \notin {"minting", "creating", "storing_api"}
       /\ Connecting(req[h]) \/ UNCHANGED <<cfg, token, container>>
       /\ SameName(cfg', cfg) \/ SameName(cfg', req[h].copy)
       /\ SameName(q.copy, req[h].copy) \/ SameName(q.copy, cfg) \/ q.copy.name # "ours"
  BY <1>1, <1>2, <1>3 DEF SameName
<1> HIDE DEF p, q
<1> QED
  BY <1>1, <1>2, <1>3, <1>4, <1>5, <1>7, <1>8, <1>9, <1>10, <1>11, <1>12, StepsOn

\* The container is removed, unless it is not MiniDock's or there is none.
LEMMA DetachInv ==
    ASSUME Inv, NEW h \in Handlers, Detach(h)
    PROVE  Inv'
<1> DEFINE r == req[h]
           p == pc'[h]
           q == req[h]
<1>1. /\ Local /\ Types /\ Naming /\ Apart /\ Attached /\ Reported /\ RowOf
      /\ FormOf(h) /\ CopyOf(h) /\ r \in Requests
      /\ (Connecting(req[h]) /\ h \notin contested => AttachedBy(h))
      /\ (Publishing(req[h]) /\ h \notin crossing => ReportedBy(h))
  BY DEF Inv, Local, Types, Attached, Reported
<1>2. /\ UNCHANGED <<cfg, token, apiToken, instance, domain, tunnels, ingress, dns, container,
                      legacy, torn, stray, raced, unpublished>>
      /\ pc[h] = "detaching"
      /\ req' = req
  BY DEF Detach, secrets, remote, docker, history, connection
<1>3. /\ Goto(h, p) /\ req' = [req EXCEPT ![h] = q]
      /\ p \in {"disabling", "failing", "removing"}
      /\ (p = "disabling" => container.owner = "nobody")
  BY <1>1, <1>2 DEF Detach, Goto, Types, Containers
<1> HIDE DEF p
<1>4. p \in Steps /\ q \in Requests
  BY <1>1, <1>2, <1>3 DEF Steps, Removal
<1>5. /\ cfg' \in Configs /\ token' \in Tokens \cup {None} /\ apiToken' \in BOOLEAN
      /\ container' \in Containers /\ legacy' \in BOOLEAN
  BY <1>1, <1>2 DEF Types
<1>6. pc'[h] = p /\ req'[h] = q /\ Rest(h)
  BY <1>1, <1>3, <1>4, GoesOn
<1>7. FormOf(h)' /\ CopyOf(h)'
  BY <1>1, <1>2, <1>3, <1>6 DEF FormOf, CopyOf, Made, Owned, Identification, Publication,
     Connection, Removal
<1>8. RowOf'
  BY <1>1, <1>2 DEF RowOf, Made, Owned
<1>9. DisabledMeansStopped'
  BY <1>1, <1>2 DEF DisabledMeansStopped, Attached
<1>10. Connecting(req[h]) /\ h \notin contested => AttachedBy(h)'
  BY <1>1, <1>2, <1>3, <1>6 DEF AttachedBy, Identification, Publication, Connection
<1>11. Publishing(req[h]) /\ h \notin crossing => ReportedBy(h)'
  BY <1>1, <1>2, <1>3, <1>6 DEF ReportedBy
<1>12. /\ q.kind = req[h].kind /\ p \notin {"minting", "creating", "storing_api"}
       /\ Connecting(req[h]) \/ UNCHANGED <<cfg, token, container>>
       /\ SameName(cfg', cfg) \/ SameName(cfg', req[h].copy)
       /\ SameName(q.copy, req[h].copy) \/ SameName(q.copy, cfg) \/ q.copy.name # "ours"
  BY <1>1, <1>2, <1>3 DEF SameName
<1> HIDE DEF p, q
<1> QED
  BY <1>1, <1>2, <1>3, <1>4, <1>5, <1>7, <1>8, <1>9, <1>10, <1>11, <1>12, StepsOn

\* A save goes on with a configuration of its own.
LEMMA ReadFailsInv ==
    ASSUME Inv, NEW h \in Handlers, ReadFails(h)
    PROVE  Inv'
<1> DEFINE r == req[h]
           p == pc'[h]
           q == [req[h] EXCEPT !.copy = [NoRequest.copy EXCEPT !.mode = req[h].mode]]
<1>1. /\ Local /\ Types /\ Naming /\ Apart /\ Attached /\ Reported /\ RowOf
      /\ FormOf(h) /\ CopyOf(h) /\ r \in Requests
      /\ (Connecting(req[h]) /\ h \notin contested => AttachedBy(h))
      /\ (Publishing(req[h]) /\ h \notin crossing => ReportedBy(h))
  BY DEF Inv, Local, Types, Attached, Reported
<1>2. /\ UNCHANGED <<cfg, token, apiToken, instance, domain, tunnels, ingress, dns, container,
                      legacy, torn, stray, raced, unpublished>>
      /\ pc[h] = "reading" /\ req[h].kind = "save"
  BY DEF ReadFails, secrets, remote, docker, history, connection
<1>3. /\ Goto(h, p) /\ req' = [req EXCEPT ![h] = q]
      /\ p \in {"detaching", "unsealing", "naming"}
      /\ (p = "detaching" => req[h].mode = "disabled")
      /\ (p = "unsealing" => req[h].mode = "tunnel_token")
      /\ (p = "naming" => req[h].mode = "api_token")
  BY <1>1, <1>2 DEF ReadFails, Goto, Types, Requests, Modes
<1> HIDE DEF p
<1>4. p \in Steps /\ q \in Requests
  BY <1>1, <1>2, <1>3 DEF Requests, Configs, NoRequest, Steps, Identification, Removal
<1>5. /\ cfg' \in Configs /\ token' \in Tokens \cup {None} /\ apiToken' \in BOOLEAN
      /\ container' \in Containers /\ legacy' \in BOOLEAN
  BY <1>1, <1>2 DEF Types
<1>6. pc'[h] = p /\ req'[h] = q /\ Rest(h)
  BY <1>1, <1>3, <1>4, GoesOn
<1>7. FormOf(h)' /\ CopyOf(h)'
  BY <1>1, <1>2, <1>3, <1>6 DEF FormOf, CopyOf, Made, Owned, NoRequest, Requests,
     Identification, Publication, Connection, Removal
<1>8. RowOf'
  BY <1>1, <1>2 DEF RowOf, Made, Owned
<1>9. DisabledMeansStopped'
  BY <1>1, <1>2 DEF DisabledMeansStopped, Attached
<1>10. Connecting(req[h]) /\ h \notin contested => AttachedBy(h)'
  BY <1>1, <1>2, <1>3, <1>6 DEF AttachedBy, Truthful, Serving, Publication, Connection
<1>11. Publishing(req[h]) /\ h \notin crossing => ReportedBy(h)'
  BY <1>1, <1>2, <1>3, <1>6 DEF ReportedBy
<1>12. /\ q.kind = req[h].kind /\ p \notin {"minting", "creating", "storing_api"}
       /\ Connecting(req[h]) \/ UNCHANGED <<cfg, token, container>>
       /\ SameName(cfg', cfg) \/ SameName(cfg', req[h].copy)
       /\ SameName(q.copy, req[h].copy) \/ SameName(q.copy, cfg) \/ q.copy.name # "ours"
  BY <1>1, <1>2, <1>3 DEF SameName, NoRequest
<1> HIDE DEF p, q
<1> QED
  BY <1>1, <1>2, <1>3, <1>4, <1>5, <1>7, <1>8, <1>9, <1>10, <1>11, <1>12, StepsOn

\* The row is read, and the handler goes on.
LEMMA ReadConfigOnInv ==
    ASSUME Inv, NEW h \in Handlers, ReadConfig(h), ~Refuse(h)
    PROVE  Inv'
<1> DEFINE r == req[h]
           p == pc'[h]
           q == [req[h] EXCEPT !.copy = IF req[h].kind = "save"
                                        THEN [cfg EXCEPT !.mode = req[h].mode] ELSE cfg]
<1>1. /\ Local /\ Types /\ Naming /\ Apart /\ Attached /\ Reported /\ RowOf
      /\ FormOf(h) /\ CopyOf(h) /\ r \in Requests
      /\ (Connecting(req[h]) /\ h \notin contested => AttachedBy(h))
      /\ (Publishing(req[h]) /\ h \notin crossing => ReportedBy(h))
  BY DEF Inv, Local, Types, Attached, Reported
<1>2. /\ UNCHANGED <<cfg, token, apiToken, instance, domain, tunnels, ingress, dns, container,
                      legacy, torn, stray, raced, unpublished>>
      /\ pc[h] = "reading"
  BY DEF ReadConfig, secrets, remote, docker, history, connection
<1>3. /\ Goto(h, p) /\ req' = [req EXCEPT ![h] = q]
      /\ p \in {"unsealing", "detaching", "naming"}
      /\ (p = "detaching" => req[h].kind = "save" /\ req[h].mode = "disabled")
      /\ (p = "naming" => req[h].kind = "save" /\ req[h].mode = "api_token")
      /\ (p = "unsealing" /\ req[h].kind = "save" => req[h].mode = "tunnel_token")
      /\ (req[h].kind = "reconnect" => cfg.mode # "disabled")
  BY <1>1, <1>2 DEF ReadConfig, Goto, Types, FormOf, Requests, Modes
<1> HIDE DEF p
<1>4. p \in Steps /\ q \in Requests
  <2>1. cfg \in Configs /\ req[h].mode \in Modes
    BY <1>1 DEF Types, Requests
  <2>2. q.copy \in Configs
    BY <1>1, <2>1 DEF Requests, Configs, Modes
  <2>3. q = [req[h] EXCEPT !.copy = q.copy]
    BY <1>1 DEF Requests
  <2>4. q \in Requests
    BY <1>1, <2>2, <2>3 DEF Requests
  <2> QED
    BY <1>3, <2>4 DEF Steps, Identification, Removal
<1>5. /\ cfg' \in Configs /\ token' \in Tokens \cup {None} /\ apiToken' \in BOOLEAN
      /\ container' \in Containers /\ legacy' \in BOOLEAN
  BY <1>1, <1>2 DEF Types
<1>6. pc'[h] = p /\ req'[h] = q /\ Rest(h)
  BY <1>1, <1>3, <1>4, GoesOn
<1>7. FormOf(h)' /\ CopyOf(h)'
  BY <1>1, <1>2, <1>3, <1>6 DEF FormOf, CopyOf, RowOf, Made, Owned, Requests, Configs,
     Identification, Publication, Connection, Removal
<1>8. RowOf'
  BY <1>1, <1>2 DEF RowOf, Made, Owned
<1>9. DisabledMeansStopped'
  BY <1>1, <1>2 DEF DisabledMeansStopped, Attached
<1>10. Connecting(req[h]) /\ h \notin contested => AttachedBy(h)'
  BY <1>1, <1>2, <1>3, <1>6 DEF AttachedBy, Truthful, Serving, RowOf, Publication, Connection
<1>11. Publishing(req[h]) /\ h \notin crossing => ReportedBy(h)'
  BY <1>1, <1>2, <1>3, <1>6 DEF ReportedBy
<1>12. /\ q.kind = req[h].kind /\ p \notin {"minting", "creating", "storing_api"}
       /\ Connecting(req[h]) \/ UNCHANGED <<cfg, token, container>>
       /\ SameName(cfg', cfg) \/ SameName(cfg', req[h].copy)
       /\ SameName(q.copy, req[h].copy) \/ SameName(q.copy, cfg) \/ q.copy.name # "ours"
  BY <1>1, <1>2, <1>3 DEF SameName
<1> HIDE DEF p, q
<1> QED
  BY <1>1, <1>2, <1>3, <1>4, <1>5, <1>7, <1>8, <1>9, <1>10, <1>11, <1>12, StepsOn

\* A token is found: a reconnect goes on with it.
LEMMA UnsealReconnectInv ==
    ASSUME Inv, NEW h \in Handlers, UnsealTunnelToken(h), ~Refuse(h), req[h].kind = "reconnect"
    PROVE  Inv'
<1> DEFINE r == req[h]
           p == "migrating"
           q == [req[h] EXCEPT !.token = token]
<1>1. /\ Local /\ Types /\ Naming /\ Apart /\ Attached /\ Reported /\ RowOf
      /\ FormOf(h) /\ CopyOf(h) /\ r \in Requests
      /\ (Connecting(req[h]) /\ h \notin contested => AttachedBy(h))
      /\ (Publishing(req[h]) /\ h \notin crossing => ReportedBy(h))
  BY DEF Inv, Local, Types, Attached, Reported
<1>2. /\ UNCHANGED <<cfg, token, apiToken, instance, domain, tunnels, ingress, dns, container,
                      legacy, torn, stray, raced, unpublished>>
      /\ pc[h] = "unsealing"
  BY DEF UnsealTunnelToken, secrets, remote, docker, history, connection
<1>3. Goto(h, p) /\ req' = [req EXCEPT ![h] = q]
  BY <1>1, <1>2 DEF UnsealTunnelToken, Goto, Types, FormOf
<1>4. p \in Steps /\ q \in Requests
  BY <1>1, <1>2 DEF Types, Requests, Steps, Connection
<1>5. /\ cfg' \in Configs /\ token' \in Tokens \cup {None} /\ apiToken' \in BOOLEAN
      /\ container' \in Containers /\ legacy' \in BOOLEAN
  BY <1>1, <1>2 DEF Types
<1>6. pc'[h] = p /\ req'[h] = q /\ Rest(h)
  BY <1>1, <1>3, <1>4, GoesOn
<1>7. FormOf(h)' /\ CopyOf(h)'
  BY <1>1, <1>2, <1>6 DEF FormOf, CopyOf, Made, Owned, Identification, Publication, Removal
<1>8. RowOf'
  BY <1>1, <1>2 DEF RowOf, Made, Owned
<1>9. DisabledMeansStopped'
  BY <1>1, <1>2 DEF DisabledMeansStopped, Attached
<1>10. Connecting(req[h]) /\ h \notin contested => AttachedBy(h)'
  BY <1>1, <1>2, <1>6 DEF AttachedBy, Truthful, Serving
<1>11. Publishing(req[h]) /\ h \notin crossing => ReportedBy(h)'
  BY <1>1, <1>2, <1>6 DEF Publishing
<1>12. /\ q.kind = req[h].kind /\ p \notin {"minting", "creating", "storing_api"}
       /\ Connecting(req[h]) \/ UNCHANGED <<cfg, token, container>>
       /\ SameName(cfg', cfg) \/ SameName(cfg', req[h].copy)
       /\ SameName(q.copy, req[h].copy) \/ SameName(q.copy, cfg) \/ q.copy.name # "ours"
  BY <1>1, <1>2 DEF SameName
<1> HIDE DEF p, q
<1> QED
  BY <1>1, <1>2, <1>3, <1>4, <1>5, <1>7, <1>8, <1>9, <1>10, <1>11, <1>12, StepsOn

\* A token is found: a save goes on with it.
LEMMA UnsealSaveInv ==
    ASSUME Inv, NEW h \in Handlers, UnsealTunnelToken(h), ~Refuse(h), req[h].kind = "save"
    PROVE  Inv'
<1> DEFINE r == req[h]
           p == "storing"
           t == IF req[h].token = None THEN token ELSE req[h].token
           q == [req[h] EXCEPT !.token = t, !.copy.name = "existing",
                      !.copy.tunnel = IF t \in Decodable \cup Instances THEN t ELSE None]
<1>1. /\ Local /\ Types /\ Naming /\ Apart /\ Attached /\ Reported /\ RowOf
      /\ FormOf(h) /\ CopyOf(h) /\ r \in Requests
      /\ (Connecting(req[h]) /\ h \notin contested => AttachedBy(h))
      /\ (Publishing(req[h]) /\ h \notin crossing => ReportedBy(h))
  BY DEF Inv, Local, Types, Attached, Reported
<1>2. /\ UNCHANGED <<cfg, token, apiToken, instance, domain, tunnels, ingress, dns, container,
                      legacy, torn, stray, raced, unpublished>>
      /\ pc[h] = "unsealing"
  BY DEF UnsealTunnelToken, secrets, remote, docker, history, connection
<1>3. Goto(h, p) /\ req' = [req EXCEPT ![h] = q]
  <2>1. Goto(h, p) /\ req' = [req EXCEPT ![h].token = t, ![h].copy.name = "existing",
               ![h].copy.tunnel = IF t \in Decodable \cup Instances THEN t ELSE None]
    BY DEF UnsealTunnelToken
  <2>2. req \in [Handlers -> Requests]
    BY <1>1 DEF Types
  <2>3. DOMAIN req' = Handlers /\ req' = [k \in Handlers |-> req'[k]]
    BY <2>1, <2>2
  <2>4. \A k \in Handlers \ {h} : req'[k] = req[k]
    BY <2>1, <2>2
  <2>5. req'[h] = q
    BY <2>1, <2>2
  <2> HIDE DEF q
  <2>6. req' = [req EXCEPT ![h] = q]
    BY <2>2, <2>3, <2>4, <2>5
  <2> QED
    BY <2>1, <2>6
<1>4. p \in Steps /\ q \in Requests
  <2>1. t \in Tokens \cup {None} /\ Instances \subseteq Tokens /\ Decodable \subseteq Tokens
    BY <1>1, TokensAssumption DEF Types, Requests, Tokens
  <2> QED
    BY <1>1, <2>1, TokensAssumption DEF Requests, Configs, Steps
<1>5. /\ cfg' \in Configs /\ token' \in Tokens \cup {None} /\ apiToken' \in BOOLEAN
      /\ container' \in Containers /\ legacy' \in BOOLEAN
  BY <1>1, <1>2 DEF Types
<1>6. pc'[h] = p /\ req'[h] = q /\ Rest(h)
  BY <1>1, <1>3, <1>4, GoesOn
<1>7. FormOf(h)' /\ CopyOf(h)'
  <2>1. q.kind = "save" /\ q.mode = req[h].mode /\ q.copy.mode = req[h].copy.mode
        /\ q.copy.name = "existing"
    BY <1>1 DEF Requests, Configs
  <2>2. req[h].mode = "tunnel_token" /\ req[h].copy.mode = "tunnel_token"
    BY <1>1, <1>2 DEF FormOf, CopyOf
  <2> QED
    BY <1>6, <2>1, <2>2 DEF FormOf, CopyOf, Made, Owned, Identification, Publication, Removal
<1>8. RowOf'
  BY <1>1, <1>2 DEF RowOf, Made, Owned
<1>9. DisabledMeansStopped'
  BY <1>1, <1>2 DEF DisabledMeansStopped, Attached
<1>10. Connecting(req[h]) /\ h \notin contested => AttachedBy(h)'
  BY <1>1, <1>2, <1>6 DEF AttachedBy, Truthful, Serving, Publication, Connection
<1>11. Publishing(req[h]) /\ h \notin crossing => ReportedBy(h)'
  BY <1>1, <1>2, <1>6 DEF ReportedBy
<1>12. /\ q.kind = req[h].kind /\ p \notin {"minting", "creating", "storing_api"}
       /\ Connecting(req[h]) \/ UNCHANGED <<cfg, token, container>>
       /\ SameName(cfg', cfg) \/ SameName(cfg', req[h].copy)
       /\ SameName(q.copy, req[h].copy) \/ SameName(q.copy, cfg) \/ q.copy.name # "ours"
  BY <1>1, <1>2 DEF SameName, Requests, Configs
<1> HIDE DEF p, q
<1> QED
  BY <1>1, <1>2, <1>3, <1>4, <1>5, <1>7, <1>8, <1>9, <1>10, <1>11, <1>12, StepsOn

\* The tunnel is looked up, and the handler goes on.
LEMMA LookUpTunnelOnInv ==
    ASSUME Inv, NEW h \in Handlers, LookUpTunnel(h), ~Refuse(h)
    PROVE  Inv'
<1> DEFINE r == req[h]
           p == "listing"
           q == [req[h] EXCEPT !.copy = cfg]
<1>1. /\ Local /\ Types /\ Naming /\ Apart /\ Attached /\ Reported /\ RowOf
      /\ FormOf(h) /\ CopyOf(h) /\ r \in Requests
      /\ (Connecting(req[h]) /\ h \notin contested => AttachedBy(h))
      /\ (Publishing(req[h]) /\ h \notin crossing => ReportedBy(h))
  BY DEF Inv, Local, Types, Attached, Reported
<1>2. /\ UNCHANGED <<cfg, token, apiToken, instance, domain, tunnels, ingress, dns, container,
                      legacy, torn, stray, raced, unpublished>>
      /\ pc[h] = "looking"
      /\ req[h].domain \in Public /\ cfg.mode = "api_token"
  BY DEF LookUpTunnel, secrets, remote, docker, history, connection
<1>3. Goto(h, p) /\ req' = [req EXCEPT ![h] = q]
  BY <1>1, <1>2 DEF LookUpTunnel, Goto, Types
<1>4. p \in Steps /\ q \in Requests
  BY <1>1, <1>2 DEF Types, Requests, Steps, Publication
<1>5. /\ cfg' \in Configs /\ token' \in Tokens \cup {None} /\ apiToken' \in BOOLEAN
      /\ container' \in Containers /\ legacy' \in BOOLEAN
  BY <1>1, <1>2 DEF Types
<1>6. pc'[h] = p /\ req'[h] = q /\ Rest(h)
  BY <1>1, <1>3, <1>4, GoesOn
<1>7. FormOf(h)' /\ CopyOf(h)'
  BY <1>1, <1>2, <1>6 DEF FormOf, CopyOf, RowOf, Made, Owned, Identification, Connection, Removal
<1>8. RowOf'
  BY <1>1, <1>2 DEF RowOf, Made, Owned
<1>9. DisabledMeansStopped'
  BY <1>1, <1>2 DEF DisabledMeansStopped, Attached
<1>10. Connecting(req[h]) /\ h \notin contested => AttachedBy(h)'
  BY <1>1, <1>2, <1>6 DEF FormOf, Connecting
<1>11. Publishing(req[h]) /\ h \notin crossing => ReportedBy(h)'
  BY <1>1, <1>2, <1>6 DEF ReportedBy
<1>12. /\ q.kind = req[h].kind /\ p \notin {"minting", "creating", "storing_api"}
       /\ Connecting(req[h]) \/ UNCHANGED <<cfg, token, container>>
       /\ SameName(cfg', cfg) \/ SameName(cfg', req[h].copy)
       /\ SameName(q.copy, req[h].copy) \/ SameName(q.copy, cfg) \/ q.copy.name # "ours"
  BY <1>1, <1>2 DEF SameName
<1> HIDE DEF p, q
<1> QED
  BY <1>1, <1>2, <1>3, <1>4, <1>5, <1>7, <1>8, <1>9, <1>10, <1>11, <1>12, StepsOn

\* A call of a save or reconnect fails.
LEMMA CallFailsOnInv ==
    ASSUME Inv, NEW h \in Handlers, CallFails(h), ~Refuse(h)
    PROVE  Inv'
<1> DEFINE r == req[h]
           p == "failing"
           q == req[h]
<1>1. /\ Local /\ Types /\ Naming /\ Apart /\ Attached /\ Reported /\ RowOf
      /\ FormOf(h) /\ CopyOf(h) /\ r \in Requests
      /\ (Connecting(req[h]) /\ h \notin contested => AttachedBy(h))
      /\ (Publishing(req[h]) /\ h \notin crossing => ReportedBy(h))
  BY DEF Inv, Local, Types, Attached, Reported
<1>2. /\ UNCHANGED <<cfg, token, apiToken, instance, domain, tunnels, ingress, dns, container,
                      legacy, torn, stray, raced, unpublished>>
      /\ pc[h] \in {"routing", "resolving"} \cup Connection \cup Removal
      /\ Connecting(req[h]) /\ req' = req
  BY DEF CallFails, secrets, remote, docker, history, connection, Connecting, Connection,
     Removal
<1>3. Goto(h, p) /\ req' = [req EXCEPT ![h] = q]
  BY <1>1, <1>2 DEF CallFails, Goto, Types
<1>4. p \in Steps /\ q \in Requests
  BY <1>1, <1>2 DEF Steps
<1>5. /\ cfg' \in Configs /\ token' \in Tokens \cup {None} /\ apiToken' \in BOOLEAN
      /\ container' \in Containers /\ legacy' \in BOOLEAN
  BY <1>1, <1>2 DEF Types
<1>6. pc'[h] = p /\ req'[h] = q /\ Rest(h)
  BY <1>1, <1>3, <1>4, GoesOn
<1>7. FormOf(h)' /\ CopyOf(h)'
  BY <1>1, <1>2, <1>6 DEF FormOf, CopyOf, Connecting, Made, Owned, Identification, Publication,
     Connection, Removal
<1>8. RowOf'
  BY <1>1, <1>2 DEF RowOf, Made, Owned
<1>9. DisabledMeansStopped'
  BY <1>1, <1>2 DEF DisabledMeansStopped, Attached
<1>10. Connecting(req[h]) /\ h \notin contested => AttachedBy(h)'
  BY <1>1, <1>2, <1>6 DEF AttachedBy, Identification, Publication, Connection
<1>11. Publishing(req[h]) /\ h \notin crossing => ReportedBy(h)'
  BY <1>1, <1>2, <1>6 DEF ReportedBy, FormOf
<1>12. /\ q.kind = req[h].kind /\ p \notin {"minting", "creating", "storing_api"}
       /\ Connecting(req[h]) \/ UNCHANGED <<cfg, token, container>>
       /\ SameName(cfg', cfg) \/ SameName(cfg', req[h].copy)
       /\ SameName(q.copy, req[h].copy) \/ SameName(q.copy, cfg) \/ q.copy.name # "ours"
  BY <1>1, <1>2 DEF SameName
<1> HIDE DEF p, q
<1> QED
  BY <1>1, <1>2, <1>3, <1>4, <1>5, <1>7, <1>8, <1>9, <1>10, <1>11, <1>12, StepsOn

\* There is nothing to reconnect.
LEMMA ReadConfigEnds ==
    ASSUME Inv, NEW h \in Handlers, ReadConfig(h), Refuse(h)
    PROVE  Inv'
<1>1. Local /\ Types /\ Apart /\ Attached /\ FormOf(h)
  BY DEF Inv, Local
<1>2. UNCHANGED <<cfg, token, apiToken, instance, domain, tunnels, ingress, dns, container,
                  legacy, torn, stray, raced, unpublished>>
  BY DEF ReadConfig, secrets, remote, docker, history, connection
<1>3. torn' \in BOOLEAN
  BY <1>1, <1>2 DEF Types
<1>4. Connecting(req[h]) /\ h \notin contested => Truthful
  BY <1>1 DEF ReadConfig, Attached, AttachedBy
<1> QED
  BY <1>2, <1>3, <1>4, EndsQuietly

\* There is no token.
LEMMA UnsealTunnelTokenEnds ==
    ASSUME Inv, NEW h \in Handlers, UnsealTunnelToken(h), Refuse(h)
    PROVE  Inv'
<1>1. Local /\ Types /\ Apart /\ Attached /\ FormOf(h)
  BY DEF Inv, Local
<1>2. UNCHANGED <<cfg, token, apiToken, instance, domain, tunnels, ingress, dns, container,
                  legacy, torn, stray, raced, unpublished>>
  BY DEF UnsealTunnelToken, secrets, remote, docker, history, connection
<1>3. torn' \in BOOLEAN
  BY <1>1, <1>2 DEF Types
<1>4. Connecting(req[h]) /\ h \notin contested => Truthful
  BY <1>1 DEF UnsealTunnelToken, Attached, AttachedBy
<1> QED
  BY <1>2, <1>3, <1>4, EndsQuietly

\* There is nothing to publish.
LEMMA LookUpTunnelEnds ==
    ASSUME Inv, NEW h \in Handlers, LookUpTunnel(h), Refuse(h)
    PROVE  Inv'
<1>1. Local /\ Types /\ Apart /\ Attached /\ FormOf(h)
  BY DEF Inv, Local
<1>2. UNCHANGED <<cfg, token, apiToken, instance, domain, tunnels, ingress, dns, container,
                  legacy, torn, stray, raced, unpublished>>
  BY DEF LookUpTunnel, secrets, remote, docker, history, connection
<1>3. torn' \in BOOLEAN
  BY <1>1, <1>2 DEF Types
<1>4. Connecting(req[h]) /\ h \notin contested => Truthful
  BY <1>1 DEF LookUpTunnel, FormOf, Connecting
<1> QED
  BY <1>2, <1>3, <1>4, EndsQuietly

\* A call of a handler about a domain fails.
LEMMA CallFailsEnds ==
    ASSUME Inv, NEW h \in Handlers, CallFails(h), Refuse(h), ~Connecting(req[h])
    PROVE  Inv'
<1>1. Local /\ Types /\ Apart /\ Attached /\ FormOf(h)
  BY DEF Inv, Local
<1>2. UNCHANGED <<cfg, token, apiToken, instance, domain, tunnels, ingress, dns, container,
                  legacy, torn, stray, raced, unpublished>>
  BY DEF CallFails, secrets, remote, docker, history, connection
<1>3. torn' \in BOOLEAN
  BY <1>1, <1>2 DEF Types
<1>4. Connecting(req[h]) /\ h \notin contested => Truthful
  BY <1>1 DEF Requests
<1> QED
  BY <1>2, <1>3, <1>4, EndsQuietly

\* The handler ends early; a save or reconnect leaves the connector in any state.
LEMMA AbandonEnds ==
    ASSUME Inv, NEW h \in Handlers, Abandon(h)
    PROVE  Inv'
<1>1. Types
  BY DEF Inv, Local
<1>2. /\ UNCHANGED <<cfg, token, apiToken, instance, domain, tunnels, ingress, dns, container,
                     legacy, stray, raced, unpublished>>
      /\ Refuse(h) /\ torn' = (torn \/ Connecting(req[h]))
  BY DEF Abandon, secrets, remote, docker
<1>3. torn' \in BOOLEAN /\ (torn => torn') /\ (Connecting(req[h]) => torn')
      /\ (~Connecting(req[h]) => torn' = torn)
  BY <1>1, <1>2 DEF Types
<1> QED
  BY <1>2, <1>3, EndsQuietly

\* The name is known, or an id is to be drawn.
LEMMA CloudflareTunnelNameInv ==
    ASSUME Inv, NEW h \in Handlers, CloudflareTunnelName(h)
    PROVE  Inv'
<1> DEFINE ours == req[h].copy.tunnel # None /\ req[h].copy.name = "ours"
           known == IF ours THEN req[h].copy.tunnel ELSE instance
           p == IF known = None THEN "minting" ELSE "creating"
           q == [req[h] EXCEPT !.token = known]
<1>1. /\ Local /\ Types /\ Naming /\ Apart /\ Attached /\ Reported /\ RowOf
      /\ FormOf(h) /\ CopyOf(h) /\ req[h] \in Requests
      /\ (Connecting(req[h]) /\ h \notin contested => AttachedBy(h))
      /\ (Publishing(req[h]) /\ h \notin crossing => ReportedBy(h))
  BY DEF Inv, Local, Types, Attached, Reported
<1>2. /\ UNCHANGED <<cfg, token, apiToken, instance, domain, tunnels, ingress, dns, container,
                     legacy, torn, stray, unpublished>>
      /\ pc[h] = "naming" /\ Goto(h, p) /\ req' = [req EXCEPT ![h] = q]
      /\ raced' = (raced \/ (known = None /\ \E k \in Handlers : pc[k] = "minting"))
  BY DEF CloudflareTunnelName, secrets, remote, docker, connection
<1>3. p \in Steps /\ q \in Requests
  <2>1. known \in Tokens \cup {None}
    BY <1>1 DEF Types, Requests, Configs, Tokens
  <2> QED
    BY <1>1, <2>1 DEF Requests, Steps, Identification
<1>4. /\ pc'[h] = p /\ req'[h] = q /\ Rest(h)
      /\ pc' \in [Handlers -> Steps] /\ req' \in [Handlers -> Requests]
      /\ UNCHANGED <<contested, crossing>>
      /\ contested \subseteq Handlers /\ crossing \subseteq Handlers
  BY <1>1, <1>2, <1>3, GoesOn
<1>5. q.kind = req[h].kind /\ q.mode = req[h].mode /\ q.copy = req[h].copy /\ q.token = known
      /\ q.kind = "save" /\ q.mode = "api_token"
  BY <1>1, <1>2 DEF Requests, FormOf, Identification
<1>6. Types'
  <2>1. raced' \in BOOLEAN
    BY <1>2
  <2> QED
    BY <1>1, <1>2, <1>4, <2>1 DEF Types
<1>7. FormOf(h)' /\ CopyOf(h)' /\ RowOf'
  <2>1. known # None => known \in Instances
    BY <1>1 DEF CopyOf, Owned, Types
  <2> QED
    BY <1>1, <1>2, <1>4, <1>5, <2>1 DEF FormOf, CopyOf, RowOf, Made, Owned, Identification,
       Publication, Connection, Removal
<1>8. Naming'
  <2> SUFFICES ASSUME ~raced'
      PROVE  Ours(cfg)' /\ (\A t \in tunnels' : t = instance') /\ \A k \in Handlers : NamedBy(k)'
    BY DEF Naming
  <2>1. /\ ~raced /\ (known = None => \A k \in Handlers : pc[k] # "minting")
        /\ Ours(cfg) /\ (\A t \in tunnels : t = instance) /\ \A k \in Handlers : NamedBy(k)
    BY <1>1, <1>2 DEF Naming
  <2>2. known = instance
    BY <2>1 DEF NamedBy, Ours
  <2>3. ASSUME NEW k \in Handlers PROVE NamedBy(k)'
    <3> NamedBy(k)
      BY <2>1
    <3>1. NamedBy(k) /\ Ours(req'[k].copy)
      <4>1. CASE k = h
        <5>1. req'[k].copy = req[k].copy
          BY <1>4, <1>5, <4>1
        <5> QED BY <5>1 DEF NamedBy
      <4>2. CASE k # h
        <5>1. req'[k] = req[k]
          BY <1>4, <4>2 DEF Rest
        <5> QED BY <5>1 DEF NamedBy
      <4> QED BY <4>1, <4>2
    <3>2. CASE k = h
      BY <1>2, <1>4, <1>5, <2>1, <2>2, <3>1, <3>2 DEF NamedBy, Ours, Rest
    <3>3. CASE k # h
      <4>1. pc'[k] = pc[k] /\ req'[k] = req[k]
        BY <1>4, <3>3 DEF Rest
      <4>2. pc[k] = "minting" => p # "minting"
        BY <2>1, <2>2
      <4> QED
        BY <1>2, <1>4, <2>1, <3>1, <4>1, <4>2 DEF NamedBy, Ours, Rest
    <3> QED
      BY <3>2, <3>3
  <2> QED
    BY <1>2, <2>1, <2>3 DEF Ours
<1>9. DisabledMeansStopped'
  BY <1>1, <1>2 DEF Attached, DisabledMeansStopped
<1>10. Connecting(req[h]) /\ h \notin contested => AttachedBy(h)'
  BY <1>1, <1>2, <1>4, <1>5 DEF AttachedBy, Truthful, Serving, Identification, Publication,
     Connection
<1>11. Reported'
  <2>1. ReportedBy(h)'
    BY <1>4, <1>5 DEF ReportedBy
  <2> QED
    BY <1>1, <1>2, <1>4, <2>1, ReportedFrame
<1> HIDE DEF p, q
<1> QED
  BY <1>1, <1>2, <1>3, <1>5, <1>6, <1>7, <1>8, <1>9, <1>10, <1>11, StepsOnBy DEF Connecting

\* The id is drawn and stored.
LEMMA MintInstanceIDInv ==
    ASSUME Inv, NEW h \in Handlers, MintInstanceID(h)
    PROVE  Inv'
<1>1. /\ Local /\ Types /\ Naming /\ Apart /\ Attached /\ Reported /\ RowOf
      /\ FormOf(h) /\ CopyOf(h) /\ req[h] \in Requests
      /\ (Connecting(req[h]) /\ h \notin contested => AttachedBy(h))
  BY DEF Inv, Local, Types, Attached
<1>2. PICK i \in Instances \ tunnels : instance' = i /\ req' = [req EXCEPT ![h].token = i]
  BY DEF MintInstanceID
<1> DEFINE p == "creating"
           q == [req[h] EXCEPT !.token = i]
<1>2a. /\ UNCHANGED <<cfg, token, apiToken, domain, tunnels, ingress, dns, container, legacy,
                      torn, stray, raced, unpublished>>
       /\ pc[h] = "minting" /\ Goto(h, p) /\ req' = [req EXCEPT ![h] = q]
  BY <1>2 DEF MintInstanceID, secrets, remote, docker, history, connection
<1>3. p \in Steps /\ q \in Requests
  BY <1>1 DEF Requests, Tokens, Steps, Identification
<1>4. /\ pc'[h] = p /\ req'[h] = q /\ Rest(h)
      /\ pc' \in [Handlers -> Steps] /\ req' \in [Handlers -> Requests]
      /\ UNCHANGED <<contested, crossing>>
      /\ contested \subseteq Handlers /\ crossing \subseteq Handlers
  BY <1>1, <1>2a, <1>3, GoesOn
<1>5. q.kind = req[h].kind /\ q.mode = req[h].mode /\ q.copy = req[h].copy /\ q.token = i
      /\ q.kind = "save" /\ q.mode = "api_token"
  BY <1>1, <1>2a DEF Requests, FormOf, Identification
<1>6. Types'
  BY <1>1, <1>2, <1>2a, <1>4 DEF Types
<1>7. FormOf(h)' /\ CopyOf(h)' /\ RowOf'
  BY <1>1, <1>2a, <1>4, <1>5 DEF FormOf, CopyOf, RowOf, Made, Owned, Identification,
     Publication, Connection, Removal
<1>8. Naming'
  <2> SUFFICES ASSUME ~raced
      PROVE  Ours(cfg)' /\ (\A t \in tunnels' : t = instance') /\ \A k \in Handlers : NamedBy(k)'
    BY <1>2a DEF Naming
  <2>1. Ours(cfg) /\ (\A t \in tunnels : t = instance) /\ \A k \in Handlers : NamedBy(k)
    BY <1>1 DEF Naming
  <2>2. instance = None /\ \A k \in Handlers : pc[k] = "minting" => k = h
    BY <1>2a, <2>1 DEF NamedBy
  <2>3. tunnels = {} /\ i # None
    BY <1>1, <2>1, <2>2, NoneAssumption DEF Types
  <2>4. ASSUME NEW k \in Handlers PROVE Ours(req[k].copy)'
    <3>1. req'[k].copy = req[k].copy
      BY <1>4, <1>5 DEF Rest
    <3>2. ~(req[k].copy.name = "ours" /\ req[k].copy.tunnel # None)
      BY <2>1, <2>2 DEF NamedBy, Ours
    <3> QED
      BY <3>1, <3>2 DEF Ours
  <2>5. ASSUME NEW k \in Handlers PROVE NamedBy(k)'
    <3>1. CASE k = h
      BY <1>2, <1>4, <1>5, <2>3, <2>4, <3>1 DEF NamedBy, Ours
    <3>2. CASE k # h
      <4>1. pc'[k] = pc[k] /\ req'[k] = req[k] /\ NamedBy(k)
        BY <1>4, <2>1, <3>2 DEF Rest
      <4> QED
        BY <2>2, <2>4, <3>2, <4>1 DEF NamedBy, Ours
    <3> QED
      BY <3>1, <3>2
  <2> QED
    BY <1>2a, <2>1, <2>2, <2>3, <2>5 DEF Ours
<1>9. DisabledMeansStopped'
  BY <1>1, <1>2a DEF Attached, DisabledMeansStopped
<1>10. Connecting(req[h]) /\ h \notin contested => AttachedBy(h)'
  BY <1>1, <1>2a, <1>4, <1>5 DEF AttachedBy, Truthful, Serving, Identification, Publication,
     Connection
<1>11. Reported'
  <2>1. ReportedBy(h)'
    BY <1>4, <1>5 DEF ReportedBy
  <2> QED
    BY <1>1, <1>2a, <1>4, <2>1, ReportedFrame
<1> HIDE DEF p, q
<1> QED
  BY <1>1, <1>2a, <1>3, <1>5, <1>6, <1>7, <1>8, <1>9, <1>10, <1>11, StepsOnBy DEF Connecting

\* The tunnel is there, and the handler goes on.
LEMMA CreateOrGetTunnelOn ==
    ASSUME Inv, NEW h \in Handlers, CreateOrGetTunnel(h), ~Refuse(h)
    PROVE  Inv'
<1> DEFINE p == "storing_api"
           q == [req[h] EXCEPT !.copy.tunnel = req[h].token, !.copy.name = "ours"]
<1>1. /\ Local /\ Types /\ Naming /\ Apart /\ Attached /\ Reported /\ RowOf
      /\ FormOf(h) /\ CopyOf(h) /\ req[h] \in Requests
      /\ (Connecting(req[h]) /\ h \notin contested => AttachedBy(h))
      /\ (Publishing(req[h]) /\ h \notin crossing => ReportedBy(h))
  BY DEF Inv, Local, Types, Attached, Reported
<1>2. /\ UNCHANGED <<cfg, token, apiToken, instance, domain, ingress, dns, container, legacy,
                     torn, stray, raced, unpublished>>
      /\ pc[h] = "creating" /\ Goto(h, p) /\ req' = [req EXCEPT ![h] = q]
      /\ tunnels' = tunnels \cup {req[h].token}
  BY DEF CreateOrGetTunnel, secrets, docker, history, connection
<1>3. p \in Steps /\ q \in Requests /\ req[h].token \in Instances
  <2>1. req[h].token \in Instances
    BY <1>1, <1>2 DEF FormOf
  <2> QED
    BY <1>1, <2>1 DEF Requests, Configs, Tokens, Steps
<1>4. /\ pc'[h] = p /\ req'[h] = q /\ Rest(h)
      /\ pc' \in [Handlers -> Steps] /\ req' \in [Handlers -> Requests]
      /\ UNCHANGED <<contested, crossing>>
      /\ contested \subseteq Handlers /\ crossing \subseteq Handlers
  BY <1>1, <1>2, <1>3, GoesOn
<1>5. /\ q.kind = req[h].kind /\ q.mode = req[h].mode /\ q.token = req[h].token
      /\ q.copy.mode = req[h].copy.mode /\ q.copy.tunnel = req[h].token /\ q.copy.name = "ours"
      /\ q.kind = "save" /\ q.mode = "api_token"
  BY <1>1, <1>2 DEF Requests, Configs, FormOf, Identification
<1>6. Types'
  BY <1>1, <1>2, <1>3, <1>4 DEF Types
<1>7. FormOf(h)' /\ CopyOf(h)' /\ RowOf'
  BY <1>1, <1>2, <1>3, <1>4, <1>5 DEF FormOf, CopyOf, RowOf, Made, Owned, Identification,
     Publication, Connection, Removal
<1>8. Naming'
  <2> SUFFICES ASSUME ~raced
      PROVE  Ours(cfg)' /\ (\A t \in tunnels' : t = instance') /\ \A k \in Handlers : NamedBy(k)'
    BY <1>2 DEF Naming
  <2>1. Ours(cfg) /\ (\A t \in tunnels : t = instance) /\ \A k \in Handlers : NamedBy(k)
    BY <1>1 DEF Naming
  <2>2. instance # None /\ req[h].token = instance
    BY <1>2, <2>1 DEF NamedBy
  <2>3. ASSUME NEW k \in Handlers PROVE NamedBy(k)'
    <3>1. CASE k = h
      BY <1>2, <1>4, <1>5, <2>2, <3>1 DEF NamedBy, Ours
    <3>2. CASE k # h
      <4>1. pc'[k] = pc[k] /\ req'[k] = req[k] /\ NamedBy(k)
        BY <1>4, <2>1, <3>2 DEF Rest
      <4> QED
        BY <1>2, <2>2, <4>1 DEF NamedBy, Ours
    <3> QED
      BY <3>1, <3>2
  <2> QED
    BY <1>2, <2>1, <2>2, <2>3 DEF Ours
<1>9. DisabledMeansStopped'
  BY <1>1, <1>2 DEF Attached, DisabledMeansStopped
<1>10. Connecting(req[h]) /\ h \notin contested => AttachedBy(h)'
  BY <1>1, <1>2, <1>4, <1>5 DEF AttachedBy, Truthful, Serving, Identification, Publication,
     Connection
<1>11. Reported'
  <2>1. ReportedBy(h)'
    BY <1>4, <1>5 DEF ReportedBy
  <2> QED
    BY <1>1, <1>2, <1>4, <1>5, <2>1, MadeTunnel, ReportedAlone DEF Publishing
<1> HIDE DEF p, q
<1> QED
  BY <1>1, <1>2, <1>3, <1>5, <1>6, <1>7, <1>8, <1>9, <1>10, <1>11, StepsOnBy DEF Connecting

\* The tunnel is there, but the answer is lost.
LEMMA CreateOrGetTunnelEnds ==
    ASSUME Inv, NEW h \in Handlers, CreateOrGetTunnel(h), Refuse(h)
    PROVE  Inv'
<1>1. /\ Local /\ Types /\ Naming /\ Apart /\ Attached /\ Reported /\ RowOf
      /\ FormOf(h) /\ CopyOf(h) /\ req[h] \in Requests
      /\ (Connecting(req[h]) /\ h \notin contested => AttachedBy(h))
      /\ (Publishing(req[h]) /\ h \notin crossing => ReportedBy(h))
  BY DEF Inv, Local, Types, Attached, Reported
<1>2. /\ UNCHANGED <<cfg, token, apiToken, instance, domain, ingress, dns, container, legacy,
                     torn, stray, raced, unpublished>>
      /\ pc[h] = "creating" /\ tunnels' = tunnels \cup {req[h].token}
  BY DEF CreateOrGetTunnel, secrets, docker, history, connection
<1>3. /\ pc'[h] = "idle" /\ req'[h] = NoRequest /\ Rest(h)
      /\ pc' \in [Handlers -> Steps] /\ req' \in [Handlers -> Requests]
      /\ contested' = contested \ {h} /\ crossing' = crossing \ {h}
      /\ contested \subseteq Handlers /\ crossing \subseteq Handlers
      /\ ~Connecting(req'[h]) /\ ~Publishing(req'[h])
  BY <1>1, Ends
<1>4. req[h].token \in Instances /\ Connecting(req[h]) /\ Publishing(req[h])
  BY <1>1, <1>2 DEF FormOf, Identification, Connecting, Publishing
<1>5. Types'
  BY <1>1, <1>2, <1>3, <1>4 DEF Types
<1>6. RowOf' /\ DisabledMeansStopped'
  BY <1>1, <1>2 DEF RowOf, Made, Owned, Attached, DisabledMeansStopped
<1>7. Naming'
  <2> SUFFICES ASSUME ~raced
      PROVE  Ours(cfg)' /\ (\A t \in tunnels' : t = instance') /\ \A k \in Handlers : NamedBy(k)'
    BY <1>2 DEF Naming
  <2>1. Ours(cfg) /\ (\A t \in tunnels : t = instance) /\ \A k \in Handlers : NamedBy(k)
    BY <1>1 DEF Naming
  <2>2. instance # None /\ req[h].token = instance
    BY <1>2, <2>1 DEF NamedBy
  <2>3. ASSUME NEW k \in Handlers PROVE NamedBy(k)'
    <3>1. CASE k = h
      BY <1>3, <3>1 DEF NamedBy, Ours, NoRequest
    <3>2. CASE k # h
      <4>1. pc'[k] = pc[k] /\ req'[k] = req[k] /\ NamedBy(k)
        BY <1>3, <2>1, <3>2 DEF Rest
      <4> QED
        BY <1>2, <2>2, <4>1 DEF NamedBy, Ours
    <3> QED
      BY <3>1, <3>2
  <2> QED
    BY <1>2, <2>1, <2>2, <2>3 DEF Ours
<1>8. ConnectedServes'
  <2>1. CASE h \in contested
    BY <1>1, <1>2, <2>1 DEF Apart, ConnectedServes
  <2>2. CASE h \notin contested
    <3>1. Truthful
      BY <1>1, <1>2, <1>4, <2>2 DEF AttachedBy, Identification
    <3> QED
      BY <1>2, <3>1 DEF Truthful, Serving, ConnectedServes
  <2> QED
    BY <2>1, <2>2
<1>9. Reported'
  BY <1>1, <1>2, <1>3, <1>4, MadeTunnel, ReportedAlone
<1> QED
  BY <1>2, <1>4, <1>5, <1>6, <1>7, <1>8, <1>9, EndsBy

\* The rules of the tunnel are replaced by the domains that were read: all of them,
\* if the handler is alone.
LEMMA ConfigureTunnelIngressInv ==
    ASSUME Inv, NEW h \in Handlers, ConfigureTunnelIngress(h)
    PROVE  Inv'
<1> DEFINE p == "resolving"
           q == req[h]
           u == req[h].copy.tunnel
<1>1. /\ Local /\ Types /\ Naming /\ Apart /\ Attached /\ Reported /\ RowOf
      /\ FormOf(h) /\ CopyOf(h) /\ req[h] \in Requests
      /\ (Connecting(req[h]) /\ h \notin contested => AttachedBy(h))
      /\ (Publishing(req[h]) /\ h \notin crossing => ReportedBy(h))
  BY DEF Inv, Local, Types, Attached, Reported
<1>2. /\ UNCHANGED <<cfg, token, apiToken, instance, domain, tunnels, dns, container, legacy,
                     torn, stray, raced, unpublished>>
      /\ pc[h] = "routing" /\ Goto(h, p) /\ req' = req
      /\ ingress' = [ingress EXCEPT ![u] = req[h].list]
  BY DEF ConfigureTunnelIngress, secrets, docker, history, connection
<1>3. /\ p \in Steps /\ q \in Requests /\ req' = [req EXCEPT ![h] = q]
      /\ Publishing(req[h]) /\ u \in tunnels /\ u \in Instances
  BY <1>1, <1>2 DEF Types, Steps, FormOf, CopyOf, Made, Publishing, Publication, Identification
<1>4. /\ pc'[h] = p /\ req'[h] = q /\ Rest(h)
      /\ pc' \in [Handlers -> Steps] /\ req' \in [Handlers -> Requests]
      /\ UNCHANGED <<contested, crossing>>
      /\ contested \subseteq Handlers /\ crossing \subseteq Handlers
  BY <1>1, <1>2, <1>3, GoesOn
<1>5. q.kind = req[h].kind
  OBVIOUS
<1>6. Types'
  <2>1. req[h].list \subseteq Public
    BY <1>1 DEF Requests
  <2> QED
    BY <1>1, <1>2, <1>3, <1>4, <2>1 DEF Types
<1>7. FormOf(h)' /\ CopyOf(h)' /\ RowOf'
  BY <1>1, <1>2, <1>4 DEF FormOf, CopyOf, RowOf, Made, Owned, Identification, Publication,
     Connection, Removal
<1>8. Naming'
  BY <1>1, <1>2, <1>4, NamingFrame DEF SameName
<1>9. DisabledMeansStopped'
  BY <1>1, <1>2 DEF Attached, DisabledMeansStopped
<1>10. Connecting(req[h]) /\ h \notin contested => AttachedBy(h)'
  BY <1>1, <1>2, <1>4 DEF AttachedBy, Identification, Publication, Connection
<1>11. Reported'
  <2>1. tunnels' = {} => unpublished' = Apps
    BY <1>1, <1>2 DEF Reported
  <2>2. ASSUME NEW t \in tunnels', tunnels' = {t}, NEW a \in Apps \ unpublished'
        PROVE  Reachable(a, t)'
    <3>1. h \notin crossing
      BY <1>1, <1>2, <2>2 DEF Apart
    <3>2. Reachable(a, t) /\ t = u /\ req[h].list = PublicApplicationDomains
      BY <1>1, <1>2, <1>3, <2>2, <3>1 DEF Reported, ReportedBy
    <3>3. ingress'[t] = PublicApplicationDomains
      BY <1>1, <1>2, <1>3, <3>2 DEF Types
    <3> QED
      BY <1>2, <2>2, <3>2, <3>3 DEF Reachable, PublicApplicationDomains
  <2>3. h \notin crossing' => ReportedBy(h)'
    <3> SUFFICES ASSUME h \notin crossing PROVE ReportedBy(h)'
      BY <1>4
    <3>1. /\ ReportedBy(h) /\ req[h].list = PublicApplicationDomains
          /\ req[h].left = IF req[h].kind = "save" THEN req[h].list ELSE {req[h].domain}
      BY <1>1, <1>2, <1>3 DEF ReportedBy
    <3>2. ingress'[u] = req[h].list
      BY <1>1, <1>2, <1>3 DEF Types
    <3> QED
      BY <1>2, <1>4, <3>1, <3>2 DEF ReportedBy, PublicApplicationDomains
  <2> QED
    BY <1>1, <1>3, <1>4, <2>1, <2>2, <2>3, ReportedAlone
<1> HIDE DEF p, q
<1> QED
  BY <1>1, <1>2, <1>3, <1>5, <1>6, <1>7, <1>8, <1>9, <1>10, <1>11, StepsOnBy DEF Connecting

\* One record is written.
LEMMA UpsertCNAMERecordInv ==
    ASSUME Inv, NEW h \in Handlers, UpsertCNAMERecord(h)
    PROVE  Inv'
<1>1. /\ Local /\ Types /\ Naming /\ Apart /\ Attached /\ Reported /\ RowOf
      /\ FormOf(h) /\ CopyOf(h) /\ req[h] \in Requests
      /\ (Connecting(req[h]) /\ h \notin contested => AttachedBy(h))
      /\ (Publishing(req[h]) /\ h \notin crossing => ReportedBy(h))
  BY DEF Inv, Local, Types, Attached, Reported
<1>2a. PICK d \in req[h].left : /\ dns' = [dns EXCEPT ![d] = req[h].copy.tunnel]
                                /\ req' = [req EXCEPT ![h].left = @ \ {d}]
  BY DEF UpsertCNAMERecord
<1> DEFINE p == "resolving"
           q == [req[h] EXCEPT !.left = @ \ {d}]
           u == req[h].copy.tunnel
<1>2. /\ UNCHANGED <<cfg, token, apiToken, instance, domain, tunnels, ingress, container, legacy,
                     torn, stray, raced, unpublished>>
      /\ pc[h] = "resolving" /\ Goto(h, p) /\ req' = [req EXCEPT ![h] = q]
  BY <1>1, <1>2a DEF UpsertCNAMERecord, Goto, Types, secrets, docker, history, connection
<1>3. /\ p \in Steps /\ q \in Requests
      /\ Publishing(req[h]) /\ u \in tunnels /\ u \in Instances /\ d \in Public
  BY <1>1, <1>2 DEF Types, Requests, FormOf, CopyOf, Made, Publishing, Publication, Identification
<1>4. /\ pc'[h] = p /\ req'[h] = q /\ Rest(h)
      /\ pc' \in [Handlers -> Steps] /\ req' \in [Handlers -> Requests]
      /\ UNCHANGED <<contested, crossing>>
      /\ contested \subseteq Handlers /\ crossing \subseteq Handlers
  BY <1>1, <1>2, <1>3, GoesOn
<1>5. /\ q.kind = req[h].kind /\ q.mode = req[h].mode /\ q.copy = req[h].copy /\ q.token = req[h].token
      /\ q.app = req[h].app /\ q.domain = req[h].domain /\ q.list = req[h].list
      /\ q.left = req[h].left \ {d}
  BY <1>1 DEF Requests
<1>6. Types'
  BY <1>1, <1>2, <1>2a, <1>3, <1>4 DEF Types
<1>7. FormOf(h)' /\ CopyOf(h)' /\ RowOf'
  BY <1>1, <1>2, <1>4, <1>5 DEF FormOf, CopyOf, RowOf, Made, Owned, Identification, Publication,
     Connection, Removal
<1>8. Naming'
  BY <1>1, <1>2, <1>4, <1>5, NamingFrame DEF SameName
<1>9. DisabledMeansStopped'
  BY <1>1, <1>2 DEF Attached, DisabledMeansStopped
<1>10. Connecting(req[h]) /\ h \notin contested => AttachedBy(h)'
  BY <1>1, <1>2, <1>4, <1>5 DEF AttachedBy, Identification, Publication, Connection
<1>11. Reported'
  <2>1. tunnels' = {} => unpublished' = Apps
    BY <1>1, <1>2 DEF Reported
  <2>2. ASSUME NEW t \in tunnels', tunnels' = {t}, NEW a \in Apps \ unpublished'
        PROVE  Reachable(a, t)'
    <3>1. Reachable(a, t) /\ t = u
      BY <1>1, <1>2, <1>3, <2>2 DEF Reported
    <3> QED
      BY <1>1, <1>2, <1>2a, <1>3, <2>2, <3>1 DEF Reachable, Types
  <2>3. h \notin crossing' => ReportedBy(h)'
    <3> SUFFICES ASSUME h \notin crossing PROVE ReportedBy(h)'
      BY <1>4
    <3>1. ReportedBy(h)
      BY <1>1, <1>3
    <3>2. dns'[d] = u /\ \A e \in Public : e # d => dns'[e] = dns[e]
      BY <1>1, <1>2a, <1>3 DEF Types
    <3>3. req[h].list \subseteq Public /\ (req[h].kind # "save" => req[h].domain \in Public)
      BY <1>1, <1>2 DEF Requests, FormOf, Publication
    <3>4. IF q.kind = "save" THEN \A e \in q.list \ q.left : dns'[e] = u
          ELSE q.domain \notin q.left => dns'[q.domain] = u
      BY <1>2, <1>5, <3>1, <3>2, <3>3 DEF ReportedBy
    <3> QED
      BY <1>2, <1>4, <1>5, <3>1, <3>4 DEF ReportedBy, PublicApplicationDomains
  <2> QED
    BY <1>1, <1>3, <1>4, <2>1, <2>2, <2>3, ReportedAlone
<1> HIDE DEF p, q
<1> QED
  BY <1>1, <1>2, <1>3, <1>5, <1>6, <1>7, <1>8, <1>9, <1>10, <1>11, StepsOnBy DEF Connecting

\* The new domain is stored.
LEMMA RenameDomainInv ==
    ASSUME Inv, NEW h \in Handlers, RenameDomain(h)
    PROVE  Inv'
<1> DEFINE p == "looking"
           q == req[h]
<1>1. /\ Local /\ Types /\ Naming /\ Apart /\ Attached /\ Reported /\ RowOf
      /\ FormOf(h) /\ CopyOf(h) /\ req[h] \in Requests
      /\ (Connecting(req[h]) /\ h \notin contested => AttachedBy(h))
      /\ (Publishing(req[h]) /\ h \notin crossing => ReportedBy(h))
  BY DEF Inv, Local, Types, Attached, Reported
<1>2. /\ UNCHANGED <<cfg, token, apiToken, instance, tunnels, ingress, dns, container, legacy,
                     torn, stray, raced>>
      /\ pc[h] = "renaming" /\ Goto(h, p) /\ req' = req
      /\ domain' = [domain EXCEPT ![req[h].app] = req[h].domain]
      /\ unpublished' = unpublished \cup {req[h].app}
  BY DEF RenameDomain, secrets, remote, docker, connection
<1>3. /\ p \in Steps /\ q \in Requests /\ req' = [req EXCEPT ![h] = q]
      /\ req[h].kind \in {"domain", "sync"} /\ req[h].app \in Apps /\ req[h].domain \in Domains
  BY <1>1, <1>2 DEF Types, Steps, FormOf
<1>4. /\ pc'[h] = p /\ req'[h] = q /\ Rest(h)
      /\ pc' \in [Handlers -> Steps] /\ req' \in [Handlers -> Requests]
      /\ UNCHANGED <<contested, crossing>>
      /\ contested \subseteq Handlers /\ crossing \subseteq Handlers
  BY <1>1, <1>2, <1>3, GoesOn
<1>5. q.kind = req[h].kind /\ ~Connecting(req[h]) /\ Publishing(req[h])
  BY <1>3 DEF Connecting, Publishing
<1>6. Types'
  BY <1>1, <1>2, <1>3, <1>4 DEF Types
<1>7. FormOf(h)' /\ CopyOf(h)' /\ RowOf'
  BY <1>1, <1>2, <1>4 DEF FormOf, CopyOf, RowOf, Made, Owned, Identification, Publication,
     Connection, Removal
<1>8. Naming'
  BY <1>1, <1>2, <1>4, NamingFrame DEF SameName
<1>9. DisabledMeansStopped'
  BY <1>1, <1>2 DEF Attached, DisabledMeansStopped
<1>10. unpublished = Apps => unpublished' = Apps
  BY <1>2, <1>3
<1>11. Reported'
  <2>1. tunnels' = {} => unpublished' = Apps
    BY <1>1, <1>2, <1>10 DEF Reported
  <2>2. ASSUME NEW t \in tunnels', tunnels' = {t}, NEW a \in Apps \ unpublished'
        PROVE  Reachable(a, t)'
    <3>1. Reachable(a, t)
      BY <1>1, <1>2, <2>2 DEF Reported
    <3>2. domain'[a] = domain[a]
      BY <1>1, <1>2, <1>3, <2>2 DEF Types
    <3> QED
      BY <1>2, <3>1, <3>2 DEF Reachable
  <2>3. ReportedBy(h)'
    <3>1. domain'[req[h].app] = req[h].domain
      BY <1>1, <1>2, <1>3 DEF Types
    <3> QED
      BY <1>2, <1>4, <3>1 DEF ReportedBy
  <2> QED
    BY <1>1, <1>4, <1>5, <2>1, <2>2, <2>3, ReportedAlone
<1> HIDE DEF p, q
<1> QED
  BY <1>1, <1>2, <1>3, <1>5, <1>6, <1>7, <1>8, <1>9, <1>10, <1>11, StepsOnBy

\* Everything h was to publish is published: if it was alone, every application, or
\* the one it was asked for, is reachable.
LEMMA PublishedReported ==
    ASSUME Inv, NEW h \in Handlers, Published(h), h \notin crossing,
           NEW t \in tunnels, tunnels = {t}, NEW a \in Apps \ unpublished'
    PROVE  Reachable(a, t)
<1>1. /\ Local /\ Types /\ Naming /\ Apart /\ Attached /\ Reported /\ RowOf
      /\ FormOf(h) /\ CopyOf(h) /\ req[h] \in Requests
      /\ (Connecting(req[h]) /\ h \notin contested => AttachedBy(h))
      /\ (Publishing(req[h]) /\ h \notin crossing => ReportedBy(h))
  BY DEF Inv, Local, Types, Attached, Reported
<1>2. /\ pc[h] = "resolving" /\ req[h].left = {}
      /\ unpublished' = unpublished \ (IF req[h].kind = "save" THEN Apps ELSE {req[h].app})
  BY DEF Published
<1>3. Publishing(req[h]) /\ req[h].copy.tunnel = t
  BY <1>1, <1>2 DEF FormOf, CopyOf, Made, Publishing, Publication, Identification
<1>4. /\ req[h].list = PublicApplicationDomains /\ req[h].list \subseteq ingress[t]
      /\ req[h].kind = "save" => \A d \in req[h].list : dns[d] = t
      /\ req[h].kind # "save" => dns[req[h].domain] = t /\ req[h].domain = domain[req[h].app]
  <2>1. ReportedBy(h)
    BY <1>1, <1>3
  <2> QED
    BY <1>2, <1>3, <2>1 DEF ReportedBy, Publishing
<1>5. CASE a \notin unpublished
  BY <1>1, <1>5 DEF Reported
<1>6. CASE req[h].kind = "save"
  BY <1>4, <1>6 DEF Reachable, PublicApplicationDomains
<1>7. CASE req[h].kind # "save" /\ a = req[h].app
  BY <1>4, <1>7 DEF Reachable, PublicApplicationDomains
<1> QED
  BY <1>2, <1>5, <1>6, <1>7

\* A save has published everything, and goes on to the connector.
LEMMA PublishedOn ==
    ASSUME Inv, NEW h \in Handlers, Published(h), ~Refuse(h)
    PROVE  Inv'
<1> DEFINE p == "configuring"
           q == req[h]
<1>1. /\ Local /\ Types /\ Naming /\ Apart /\ Attached /\ Reported /\ RowOf
      /\ FormOf(h) /\ CopyOf(h) /\ req[h] \in Requests
      /\ (Connecting(req[h]) /\ h \notin contested => AttachedBy(h))
      /\ (Publishing(req[h]) /\ h \notin crossing => ReportedBy(h))
  BY DEF Inv, Local, Types, Attached, Reported
<1>2. /\ UNCHANGED <<cfg, token, apiToken, instance, domain, tunnels, ingress, dns, container,
                     legacy, torn, stray, raced>>
      /\ pc[h] = "resolving" /\ Goto(h, p) /\ req' = req /\ req[h].kind = "save"
      /\ unpublished' = IF h \in crossing THEN unpublished ELSE unpublished \ Apps
  BY DEF Published, secrets, remote, docker, connection
<1>3. p \in Steps /\ q \in Requests /\ req' = [req EXCEPT ![h] = q]
  BY <1>1, <1>2 DEF Types, Steps
<1>4. /\ pc'[h] = p /\ req'[h] = q /\ Rest(h)
      /\ pc' \in [Handlers -> Steps] /\ req' \in [Handlers -> Requests]
      /\ UNCHANGED <<contested, crossing>>
      /\ contested \subseteq Handlers /\ crossing \subseteq Handlers
  BY <1>1, <1>2, <1>3, GoesOn
<1>5. q.kind = req[h].kind /\ Connecting(req[h]) /\ Publishing(req[h]) /\ req[h].copy.tunnel \in tunnels
  BY <1>1, <1>2 DEF Connecting, Publishing, CopyOf, Made, Publication, Identification
<1>6. Types'
  BY <1>1, <1>2, <1>4 DEF Types
<1>7. FormOf(h)' /\ CopyOf(h)' /\ RowOf'
  BY <1>1, <1>2, <1>4 DEF FormOf, CopyOf, RowOf, Made, Owned, Identification, Publication,
     Connection, Removal
<1>8. Naming'
  BY <1>1, <1>2, <1>4, NamingFrame DEF SameName
<1>9. DisabledMeansStopped'
  BY <1>1, <1>2 DEF Attached, DisabledMeansStopped
<1>10. Connecting(req[h]) /\ h \notin contested => AttachedBy(h)'
  BY <1>1, <1>2, <1>4 DEF AttachedBy, Identification, Publication, Connection
<1>11. Reported'
  <2>1. tunnels' # {}
    BY <1>2, <1>5
  <2>2. ASSUME NEW t \in tunnels', tunnels' = {t}, NEW a \in Apps \ unpublished'
        PROVE  Reachable(a, t)'
    <3>1. Reachable(a, t)
      BY <1>1, <1>2, <2>2, PublishedReported DEF Reported
    <3> QED
      BY <1>2, <3>1 DEF Reachable
  <2>3. ReportedBy(h)'
    BY <1>2, <1>4 DEF ReportedBy
  <2> QED
    BY <1>1, <1>4, <1>5, <2>1, <2>2, <2>3, ReportedAlone
<1>12. (unpublished = Apps => unpublished' = Apps) \/ (Publishing(req[h]) /\ h \notin crossing)
  BY <1>2, <1>5
<1> HIDE DEF p, q
<1> QED
  BY <1>1, <1>2, <1>3, <1>5, <1>6, <1>7, <1>8, <1>9, <1>10, <1>11, <1>12, StepsOnBy

\* A handler about a domain has published it, and says so.
LEMMA PublishedEnds ==
    ASSUME Inv, NEW h \in Handlers, Published(h), Refuse(h)
    PROVE  Inv'
<1>1. /\ Local /\ Types /\ Naming /\ Apart /\ Attached /\ Reported /\ RowOf
      /\ FormOf(h) /\ CopyOf(h) /\ req[h] \in Requests
      /\ (Connecting(req[h]) /\ h \notin contested => AttachedBy(h))
      /\ (Publishing(req[h]) /\ h \notin crossing => ReportedBy(h))
  BY DEF Inv, Local, Types, Attached, Reported
<1>2. /\ pc'[h] = "idle" /\ req'[h] = NoRequest /\ Rest(h)
      /\ pc' \in [Handlers -> Steps] /\ req' \in [Handlers -> Requests]
      /\ contested' = contested \ {h} /\ crossing' = crossing \ {h}
      /\ contested \subseteq Handlers /\ crossing \subseteq Handlers
      /\ ~Connecting(req'[h]) /\ ~Publishing(req'[h])
  BY <1>1, Ends
<1>3. /\ UNCHANGED <<cfg, token, apiToken, instance, domain, tunnels, ingress, dns, container,
                     legacy, torn, stray, raced>>
      /\ pc[h] = "resolving"
      /\ unpublished' = IF h \in crossing THEN unpublished
                        ELSE unpublished \ (IF req[h].kind = "save" THEN Apps ELSE {req[h].app})
  BY DEF Published, secrets, remote, docker, connection
<1>4. pc'[h] # "configuring"
  BY <1>2
<1>5. req[h].kind # "save" /\ Publishing(req[h]) /\ ~Connecting(req[h]) /\ req[h].copy.tunnel \in tunnels
  <2>1. pc \in [Handlers -> Steps]
    BY <1>1 DEF Types
  <2>2. req[h].kind # "save"
    BY <1>4, <2>1 DEF Published, Goto
  <2> QED
    BY <1>1, <1>3, <2>2 DEF FormOf, CopyOf, Made, Connecting, Publishing, Publication
<1>6. Types'
  BY <1>1, <1>2, <1>3 DEF Types
<1>7. RowOf' /\ DisabledMeansStopped'
  BY <1>1, <1>3 DEF RowOf, Made, Owned, Attached, DisabledMeansStopped
<1>8. Naming'
  <2>1. SameName(cfg', cfg) /\ req'[h].copy.name # "ours"
    BY <1>2, <1>3 DEF SameName, NoRequest
  <2> QED
    BY <1>1, <1>2, <1>3, <2>1, NamingFrame
<1>9. Reported'
  <2>1. tunnels' # {}
    BY <1>3, <1>5
  <2>2. ASSUME NEW t \in tunnels', tunnels' = {t}, NEW a \in Apps \ unpublished'
        PROVE  Reachable(a, t)'
    <3>1. Reachable(a, t)
      BY <1>1, <1>3, <2>2, PublishedReported DEF Reported
    <3> QED
      BY <1>3, <3>1 DEF Reachable
  <2> QED
    BY <1>1, <1>2, <1>5, <2>1, <2>2, ReportedAlone
<1>10. (unpublished = Apps => unpublished' = Apps) \/ (Publishing(req[h]) /\ h \notin crossing)
  BY <1>3, <1>5
<1> QED
  BY <1>3, <1>5, <1>6, <1>7, <1>8, <1>9, <1>10, EndsBy

\* The row says connected.
LEMMA ConnectEnds ==
    ASSUME Inv, NEW h \in Handlers, Connect(h)
    PROVE  Inv'
<1>1. /\ Local /\ Types /\ Naming /\ Apart /\ Attached /\ Reported /\ RowOf
      /\ FormOf(h) /\ CopyOf(h) /\ req[h] \in Requests
      /\ (Connecting(req[h]) /\ h \notin contested => AttachedBy(h))
      /\ (Publishing(req[h]) /\ h \notin crossing => ReportedBy(h))
  BY DEF Inv, Local, Types, Attached, Reported
<1>2. /\ UNCHANGED <<token, apiToken, instance, domain, tunnels, ingress, dns, container, legacy,
                     raced, unpublished>>
      /\ pc[h] = "connecting" /\ Refuse(h)
      /\ cfg' = [req[h].copy EXCEPT !.status = "connected"]
      /\ torn' = (torn /\ h \in contested) /\ stray' = (stray /\ h \in contested)
  BY DEF Connect, secrets, remote, docker
<1>3. /\ pc'[h] = "idle" /\ req'[h] = NoRequest /\ Rest(h)
      /\ pc' \in [Handlers -> Steps] /\ req' \in [Handlers -> Requests]
      /\ contested' = contested \ {h} /\ crossing' = crossing \ {h}
      /\ contested \subseteq Handlers /\ crossing \subseteq Handlers
      /\ ~Connecting(req'[h]) /\ ~Publishing(req'[h])
  BY <1>1, <1>2, Ends
<1>4. Connecting(req[h])
  BY <1>1, <1>2 DEF FormOf, Connecting, Connection, Removal
<1>5. /\ cfg' \in Configs /\ cfg'.status = "connected" /\ cfg'.mode = req[h].copy.mode
      /\ cfg'.tunnel = req[h].copy.tunnel /\ cfg'.name = req[h].copy.name
  BY <1>1, <1>2 DEF Requests, Configs
<1>6. Types'
  <2>1. torn' \in BOOLEAN /\ stray' \in BOOLEAN
    BY <1>1, <1>2 DEF Types
  <2> QED
    BY <1>1, <1>2, <1>3, <1>5, <2>1 DEF Types
<1>7. RowOf'
  BY <1>1, <1>2, <1>5 DEF RowOf, Made, Owned, CopyOf, Identification
<1>8. Naming'
  <2>1. SameName(cfg', req[h].copy) /\ req'[h].copy.name # "ours"
    BY <1>3, <1>5 DEF SameName, NoRequest
  <2> QED
    BY <1>1, <1>2, <1>3, <2>1, NamingFrame
<1>9. DisabledMeansStopped'
  BY <1>5 DEF DisabledMeansStopped
<1>10. ConnectedServes'
  <2>1. CASE h \in contested
    BY <1>1, <1>2, <2>1 DEF Apart, ConnectedServes
  <2>2. CASE h \notin contested
    BY <1>1, <1>2, <1>4, <2>2 DEF AttachedBy, ConnectedServes
  <2> QED
    BY <2>1, <2>2
<1>11. Reported'
  BY <1>1, <1>2, <1>3, ReportedFrame
<1>12. ((torn => torn') /\ (stray => stray')) \/ (Connecting(req[h]) /\ h \notin contested)
  BY <1>2, <1>4
<1> QED
  BY <1>2, <1>4, <1>6, <1>7, <1>8, <1>9, <1>10, <1>11, <1>12, EndsBy

\* The row says disabled, after the container has gone.
LEMMA DisableEnds ==
    ASSUME Inv, NEW h \in Handlers, Disable(h)
    PROVE  Inv'
<1>1. /\ Local /\ Types /\ Naming /\ Apart /\ Attached /\ Reported /\ RowOf
      /\ FormOf(h) /\ CopyOf(h) /\ req[h] \in Requests
      /\ (Connecting(req[h]) /\ h \notin contested => AttachedBy(h))
      /\ (Publishing(req[h]) /\ h \notin crossing => ReportedBy(h))
  BY DEF Inv, Local, Types, Attached, Reported
<1>2. /\ UNCHANGED <<token, apiToken, instance, domain, tunnels, ingress, dns, container, legacy,
                     raced, unpublished>>
      /\ pc[h] = "disabling" /\ Refuse(h)
      /\ cfg' = [req[h].copy EXCEPT !.status = "disabled"]
      /\ torn' = (torn /\ h \in contested) /\ stray' = (stray /\ h \in contested)
  BY DEF Disable, secrets, remote, docker
<1>3. /\ pc'[h] = "idle" /\ req'[h] = NoRequest /\ Rest(h)
      /\ pc' \in [Handlers -> Steps] /\ req' \in [Handlers -> Requests]
      /\ contested' = contested \ {h} /\ crossing' = crossing \ {h}
      /\ contested \subseteq Handlers /\ crossing \subseteq Handlers
      /\ ~Connecting(req'[h]) /\ ~Publishing(req'[h])
  BY <1>1, <1>2, Ends
<1>4. Connecting(req[h])
  BY <1>1, <1>2 DEF FormOf, Connecting, Connection, Removal
<1>5. /\ cfg' \in Configs /\ cfg'.status = "disabled" /\ cfg'.mode = req[h].copy.mode
      /\ cfg'.tunnel = req[h].copy.tunnel /\ cfg'.name = req[h].copy.name
  BY <1>1, <1>2 DEF Requests, Configs
<1>6. Types'
  <2>1. torn' \in BOOLEAN /\ stray' \in BOOLEAN
    BY <1>1, <1>2 DEF Types
  <2> QED
    BY <1>1, <1>2, <1>3, <1>5, <2>1 DEF Types
<1>7. RowOf'
  BY <1>1, <1>2, <1>5 DEF RowOf, Made, Owned, FormOf, CopyOf, Removal
<1>8. Naming'
  <2>1. SameName(cfg', req[h].copy) /\ req'[h].copy.name # "ours"
    BY <1>3, <1>5 DEF SameName, NoRequest
  <2> QED
    BY <1>1, <1>2, <1>3, <2>1, NamingFrame
<1>9. DisabledMeansStopped'
  <2>1. CASE h \in contested
    BY <1>1, <1>2, <2>1 DEF Apart, DisabledMeansStopped
  <2>2. CASE h \notin contested
    BY <1>1, <1>2, <1>4, <2>2 DEF AttachedBy, DisabledMeansStopped
  <2> QED
    BY <2>1, <2>2
<1>10. ConnectedServes'
  BY <1>5 DEF ConnectedServes
<1>11. Reported'
  BY <1>1, <1>2, <1>3, ReportedFrame
<1>12. ((torn => torn') /\ (stray => stray')) \/ (Connecting(req[h]) /\ h \notin contested)
  BY <1>2, <1>4
<1> QED
  BY <1>2, <1>4, <1>6, <1>7, <1>8, <1>9, <1>10, <1>11, <1>12, EndsBy

\* The row says error.
LEMMA SaveCloudflareFailureEnds ==
    ASSUME Inv, NEW h \in Handlers, SaveCloudflareFailure(h)
    PROVE  Inv'
<1>1. /\ Local /\ Types /\ Naming /\ Apart /\ Attached /\ Reported /\ RowOf
      /\ FormOf(h) /\ CopyOf(h) /\ req[h] \in Requests
      /\ (Connecting(req[h]) /\ h \notin contested => AttachedBy(h))
      /\ (Publishing(req[h]) /\ h \notin crossing => ReportedBy(h))
  BY DEF Inv, Local, Types, Attached, Reported
<1>2. /\ UNCHANGED <<token, apiToken, instance, domain, tunnels, ingress, dns, container, legacy,
                     raced, unpublished>>
      /\ pc[h] = "failing" /\ Refuse(h)
      /\ cfg' = [req[h].copy EXCEPT !.status = "error"]
      /\ UNCHANGED <<torn, stray>>
  BY DEF SaveCloudflareFailure, secrets, remote, docker, history, connection
<1>3. /\ pc'[h] = "idle" /\ req'[h] = NoRequest /\ Rest(h)
      /\ pc' \in [Handlers -> Steps] /\ req' \in [Handlers -> Requests]
      /\ contested' = contested \ {h} /\ crossing' = crossing \ {h}
      /\ contested \subseteq Handlers /\ crossing \subseteq Handlers
      /\ ~Connecting(req'[h]) /\ ~Publishing(req'[h])
  BY <1>1, <1>2, Ends
<1>4. Connecting(req[h])
  BY <1>1, <1>2 DEF FormOf, Connecting, Connection, Removal
<1>5. /\ cfg' \in Configs /\ cfg'.status = "error" /\ cfg'.mode = req[h].copy.mode
      /\ cfg'.tunnel = req[h].copy.tunnel /\ cfg'.name = req[h].copy.name
  BY <1>1, <1>2 DEF Requests, Configs
<1>6. Types'
  <2>1. torn' \in BOOLEAN /\ stray' \in BOOLEAN
    BY <1>1, <1>2 DEF Types
  <2> QED
    BY <1>1, <1>2, <1>3, <1>5, <2>1 DEF Types
<1>7. RowOf'
  BY <1>1, <1>2, <1>5 DEF RowOf, Made, Owned, CopyOf, Identification
<1>8. Naming'
  <2>1. SameName(cfg', req[h].copy) /\ req'[h].copy.name # "ours"
    BY <1>3, <1>5 DEF SameName, NoRequest
  <2> QED
    BY <1>1, <1>2, <1>3, <2>1, NamingFrame
<1>9. DisabledMeansStopped'
  BY <1>5 DEF DisabledMeansStopped
<1>10. ConnectedServes'
  BY <1>5 DEF ConnectedServes
<1>11. Reported'
  BY <1>1, <1>2, <1>3, ReportedFrame
<1>12. ((torn => torn') /\ (stray => stray')) \/ (Connecting(req[h]) /\ h \notin contested)
  BY <1>2, <1>4
<1> QED
  BY <1>2, <1>4, <1>6, <1>7, <1>8, <1>9, <1>10, <1>11, <1>12, EndsBy

-----------------------------------------------------------------------------
(***************************************************************************)
(* Requests arrive, and Docker acts on its own.                            *)
(***************************************************************************)

\* A request that meets others of its kind marks them and itself; one that does not
\* finds what it works on as the last one left it.
LEMMA Begins ==
    ASSUME Inv, NEW h \in Handlers, NEW p \in {"reading", "renaming", "looking"}, NEW r \in Requests,
           Begin(h, p, r),
           p = "reading" => r.kind \in {"save", "reconnect"} /\ (r.kind = "reconnect" => r.token = None),
           p \in {"renaming", "looking"} =>
               r.kind \in {"domain", "sync"} /\ r.app \in Apps /\ r.domain \in Domains,
           p = "looking" => r.domain = domain[r.app],
           r.copy = NoRequest.copy
    PROVE  Inv'
<1> DEFINE rivals == {k \in Handlers : Connecting(r) /\ Connecting(req[k])}
           others == {k \in Handlers : Publishing(r) /\ Publishing(req[k])}
<1>1. /\ Local /\ Types /\ Naming /\ Apart /\ Attached /\ Reported /\ RowOf /\ FormOf(h)
  BY DEF Inv, Local
<1>2. /\ UNCHANGED <<cfg, token, apiToken, instance, domain, tunnels, ingress, dns, container,
                     legacy, raced>>
      /\ pc[h] = "idle" /\ pc' = [pc EXCEPT ![h] = p] /\ req' = [req EXCEPT ![h] = r]
      /\ IF rivals = {} THEN UNCHANGED <<contested, torn, stray>>
         ELSE contested' = contested \cup rivals \cup {h} /\ torn' = TRUE /\ stray' = TRUE
      /\ IF others = {} THEN UNCHANGED <<crossing, unpublished>>
         ELSE crossing' = crossing \cup others \cup {h} /\ unpublished' = Apps
  BY DEF Begin, secrets, remote, docker, connection
<1>3. /\ pc'[h] = p /\ req'[h] = r /\ Rest(h) /\ contested \subseteq Handlers /\ crossing \subseteq Handlers
      /\ pc' \in [Handlers -> Steps] /\ req' \in [Handlers -> Requests]
  <2>1. p \in Steps
    BY DEF Steps
  <2> QED
    BY <1>1, <1>2, <2>1 DEF Types, Rest
<1>4. req[h].kind = "none" /\ ~Connecting(req[h]) /\ ~Publishing(req[h])
  BY <1>1, <1>2 DEF FormOf, Connecting, Publishing
<1>5. Types'
  <2>1. contested' \subseteq Handlers /\ crossing' \subseteq Handlers /\ unpublished' \subseteq Apps
    BY <1>1, <1>2 DEF Types
  <2>2. torn' \in BOOLEAN /\ stray' \in BOOLEAN
    BY <1>1, <1>2 DEF Types
  <2> QED
    BY <1>1, <1>2, <1>3, <2>1, <2>2 DEF Types
<1>6. FormOf(h)' /\ CopyOf(h)' /\ RowOf'
  BY <1>1, <1>2, <1>3 DEF FormOf, CopyOf, RowOf, Made, Owned, NoRequest, Identification,
     Publication, Connection, Removal
<1>7. Local'
  BY <1>1, <1>2, <1>3, <1>5, <1>6, LocalFrame
<1>8. Naming'
  <2>1. SameName(cfg', cfg) /\ req'[h].copy.name # "ours"
    BY <1>2, <1>3 DEF SameName, NoRequest
  <2> QED
    BY <1>1, <1>2, <1>3, <2>1, NamingFrame
<1> HIDE DEF rivals, others
<1>9. contested \subseteq contested' /\ crossing \subseteq crossing'
  BY <1>2
<1>10. Apart'
  <2>1. ASSUME NEW k \in contested' PROVE Connecting(req'[k]) /\ torn' /\ stray'
    <3>1. CASE rivals = {}
      <4>1. k \in contested /\ Connecting(req[k]) /\ torn /\ stray
        BY <1>1, <1>2, <3>1 DEF Apart
      <4> QED
        BY <1>2, <1>3, <1>4, <3>1, <4>1 DEF Rest
    <3>2. CASE rivals # {}
      <4>1. Connecting(r)
        BY <3>2 DEF rivals
      <4>2. k = h \/ k \in rivals \/ k \in contested
        BY <1>2, <3>2
      <4> QED
        BY <1>1, <1>2, <1>3, <3>2, <4>1, <4>2 DEF Apart, Rest, rivals
    <3> QED
      BY <3>1, <3>2
  <2>2. ASSUME NEW k \in crossing' PROVE Publishing(req'[k]) /\ unpublished' = Apps
    <3>1. CASE others = {}
      <4>1. k \in crossing /\ Publishing(req[k]) /\ unpublished = Apps
        BY <1>1, <1>2, <3>1 DEF Apart
      <4> QED
        BY <1>2, <1>3, <1>4, <3>1, <4>1 DEF Rest
    <3>2. CASE others # {}
      <4>1. Publishing(r)
        BY <3>2 DEF others
      <4>2. k = h \/ k \in others \/ k \in crossing
        BY <1>2, <3>2
      <4> QED
        BY <1>1, <1>2, <1>3, <3>2, <4>1, <4>2 DEF Apart, Rest, others
    <3> QED
      BY <3>1, <3>2
  <2>3. ASSUME NEW j \in Handlers, NEW k \in Handlers, j # k,
               Connecting(req'[j]), Connecting(req'[k])
        PROVE  j \in contested'
    <3>1. CASE j # h /\ k # h
      BY <1>1, <1>3, <1>9, <2>3, <3>1 DEF Apart, Rest
    <3>2. CASE j = h
      <4>1. k \in rivals
        BY <1>3, <2>3, <3>2 DEF rivals, Rest
      <4> QED
        BY <1>2, <3>2, <4>1
    <3>3. CASE k = h
      <4>1. j \in rivals
        BY <1>3, <2>3, <3>3 DEF rivals, Rest
      <4> QED
        BY <1>2, <4>1
    <3> QED
      BY <3>1, <3>2, <3>3
  <2>4. ASSUME NEW j \in Handlers, NEW k \in Handlers, j # k,
               Publishing(req'[j]), Publishing(req'[k])
        PROVE  j \in crossing'
    <3>1. CASE j # h /\ k # h
      BY <1>1, <1>3, <1>9, <2>4, <3>1 DEF Apart, Rest
    <3>2. CASE j = h
      <4>1. k \in others
        BY <1>3, <2>4, <3>2 DEF others, Rest
      <4> QED
        BY <1>2, <3>2, <4>1
    <3>3. CASE k = h
      <4>1. j \in others
        BY <1>3, <2>4, <3>3 DEF others, Rest
      <4> QED
        BY <1>2, <4>1
    <3> QED
      BY <3>1, <3>2, <3>3
  <2> QED
    BY <2>1, <2>2, <2>3, <2>4 DEF Apart, Connecting, Publishing
<1>11. (torn => torn') /\ (stray => stray')
  BY <1>2
<1>12. ConnectedServes'
  <2>1. (\A k \in Handlers : ~Connecting(req'[k])) => \A k \in Handlers : ~Connecting(req[k])
    BY <1>3, <1>4 DEF Rest
  <2> QED
    BY <1>1, <1>2, <1>11, <2>1 DEF Attached, ConnectedServes, Connecting
<1>13. Attached'
  <2>1. DisabledMeansStopped'
    BY <1>1, <1>2, <1>11 DEF Attached, DisabledMeansStopped
  <2>2. ASSUME NEW k \in Handlers \ contested', Connecting(req'[k])
        PROVE  AttachedBy(k)'
    <3>1. CASE k = h
      <4>1. Connecting(r) /\ p = "reading"
        BY <1>3, <2>2, <3>1 DEF Connecting
      <4>2. rivals = {}
        BY <1>2, <2>2, <3>1
      <4>3. \A j \in Handlers : ~Connecting(req[j])
        BY <4>1, <4>2 DEF rivals
      <4>4. Truthful
        BY <1>1, <4>3 DEF Attached, ConnectedServes, Truthful, Serving
      <4>5. Truthful'
        BY <1>2, <1>11, <4>4 DEF Truthful, Serving
      <4> QED
        BY <1>3, <3>1, <4>1, <4>5 DEF AttachedBy, Publication, Connection
    <3>2. CASE k # h
      <4>1. pc'[k] = pc[k] /\ req'[k] = req[k] /\ AttachedBy(k)
        BY <1>1, <1>3, <1>9, <2>2, <3>2 DEF Rest, Attached
      <4> QED
        BY <1>2, <1>11, <4>1 DEF AttachedBy, Truthful, Serving
    <3> QED
      BY <3>1, <3>2
  <2> QED
    BY <1>12, <2>1, <2>2 DEF Attached, Connecting
<1>14. Reported'
  <2>1. unpublished' = Apps \/ unpublished' = unpublished
    BY <1>2
  <2>2. tunnels' = {} => unpublished' = Apps
    BY <1>1, <1>2, <2>1 DEF Reported
  <2>3. ASSUME NEW t \in tunnels', tunnels' = {t}, NEW a \in Apps \ unpublished'
        PROVE  Reachable(a, t)'
    <3>1. Reachable(a, t)
      BY <1>1, <1>2, <2>1, <2>3 DEF Reported
    <3> QED
      BY <1>2, <3>1 DEF Reachable
  <2>4. ASSUME NEW k \in Handlers \ crossing', Publishing(req'[k])
        PROVE  ReportedBy(k)'
    <3>1. CASE k = h
      BY <1>2, <1>3, <3>1 DEF ReportedBy
    <3>2. CASE k # h
      <4>1. pc'[k] = pc[k] /\ req'[k] = req[k] /\ ReportedBy(k)
        BY <1>1, <1>3, <1>9, <2>4, <3>2 DEF Rest, Reported
      <4>2. PublicApplicationDomains' = PublicApplicationDomains
        BY <1>2 DEF PublicApplicationDomains
      <4> QED
        BY <1>2, <4>1, <4>2 DEF ReportedBy
    <3> QED
      BY <3>1, <3>2
  <2> QED
    BY <2>2, <2>3, <2>4 DEF Reported, Publishing, Reachable
<1> QED
  BY <1>7, <1>8, <1>10, <1>13, <1>14 DEF Inv

\* The four forms.
LEMMA FormsInv ==
    ASSUME Inv, NEW h \in Handlers,
           \/ SaveCloudflareConfig(h) \/ ReconnectCloudflared(h)
           \/ UpdateApplicationDomain(h) \/ SyncAppCloudflareDNS(h)
    PROVE  Inv'
<1>1. CASE SaveCloudflareConfig(h)
  <2>1. PICK mode \in Modes, t \in Typed \cup {None} :
            Begin(h, "reading", [NoRequest EXCEPT !.kind = "save", !.mode = mode, !.token = t])
    BY <1>1 DEF SaveCloudflareConfig, Modes
  <2>2. [NoRequest EXCEPT !.kind = "save", !.mode = mode, !.token = t] \in Requests
    BY DEF NoRequest, Requests, Kinds, Modes, Configs, Tokens
  <2> QED
    BY <2>1, <2>2, Begins DEF NoRequest
<1>2. CASE ReconnectCloudflared(h)
  <2>1. [NoRequest EXCEPT !.kind = "reconnect"] \in Requests
    BY DEF NoRequest, Requests, Kinds, Modes, Configs
  <2> QED
    BY <1>2, <2>1, Begins DEF NoRequest, ReconnectCloudflared
<1>3. CASE UpdateApplicationDomain(h)
  <2>1. PICK a \in Apps, d \in Domains :
            Begin(h, "renaming", [NoRequest EXCEPT !.kind = "domain", !.app = a, !.domain = d])
    BY <1>3 DEF UpdateApplicationDomain
  <2>2. [NoRequest EXCEPT !.kind = "domain", !.app = a, !.domain = d] \in Requests
    BY DEF NoRequest, Requests, Kinds, Modes, Configs
  <2> QED
    BY <2>1, <2>2, Begins DEF NoRequest
<1>4. CASE SyncAppCloudflareDNS(h)
  <2>1. PICK a \in Apps :
            Begin(h, "looking", [NoRequest EXCEPT !.kind = "sync", !.app = a, !.domain = domain[a]])
    BY <1>4 DEF SyncAppCloudflareDNS
  <2>2. domain[a] \in Domains
    BY DEF Inv, Local, Types
  <2>3. [NoRequest EXCEPT !.kind = "sync", !.app = a, !.domain = domain[a]] \in Requests
    BY <2>2 DEF NoRequest, Requests, Kinds, Modes, Configs
  <2> QED
    BY <2>1, <2>2, <2>3, Begins DEF NoRequest
<1> QED
  BY <1>1, <1>2, <1>3, <1>4

\* The container exits, or Docker starts it again.
LEMMA DockerInv ==
    ASSUME Inv, ContainerExits \/ DockerRestarts
    PROVE  Inv'
<1>1. Local /\ Types /\ Naming /\ Apart /\ Attached /\ Reported
  BY DEF Inv, Local
<1>2. /\ UNCHANGED <<cfg, token, apiToken, instance, domain, tunnels, ingress, dns, legacy, pc, req,
                     contested, crossing, torn, stray, raced, unpublished>>
      /\ container.state \in {"running", "exited"}
      /\ \/ container' = [container EXCEPT !.state = "exited"]
         \/ container' = [container EXCEPT !.state = "running"]
  BY DEF ContainerExits, DockerRestarts, secrets, remote, overlaps, history, connection
<1>3. /\ container' \in Containers /\ container'.owner = container.owner
      /\ container'.token = container.token /\ container'.state # "created"
  BY <1>1, <1>2 DEF Types, Containers
<1>4. Local'
  <2>1. Types'
    BY <1>1, <1>2, <1>3 DEF Types
  <2>2. RowOf' /\ \A h \in Handlers : FormOf(h)' /\ CopyOf(h)'
    BY <1>1, <1>2 DEF Local, RowOf, FormOf, CopyOf, Made, Owned
  <2> QED
    BY <2>1, <2>2 DEF Local
<1>5. Naming' /\ Apart'
  BY <1>1, <1>2 DEF Naming, NamedBy, Ours, Apart
<1>6. Attached'
  <2>1. DisabledMeansStopped' /\ ConnectedServes'
    BY <1>1, <1>2, <1>3 DEF Attached, DisabledMeansStopped, ConnectedServes, Connecting
  <2>2. ASSUME NEW h \in Handlers \ contested', Connecting(req'[h])
        PROVE  AttachedBy(h)'
    <3>1. AttachedBy(h)
      BY <1>1, <1>2, <2>2 DEF Attached
    <3> QED
      BY <1>2, <1>3, <3>1 DEF AttachedBy, Truthful, Serving
  <2> QED
    BY <2>1, <2>2 DEF Attached, Connecting
<1>7. Reported'
  BY <1>1, <1>2 DEF Reported, Reachable, ReportedBy, PublicApplicationDomains, Publishing
<1> QED
  BY <1>4, <1>5, <1>6, <1>7 DEF Inv

LEMMA InitInv ==
    ASSUME Init
    PROVE  Inv
<1>1. /\ cfg = NoRequest.copy /\ tunnels = {} /\ torn = FALSE /\ raced = FALSE /\ unpublished = Apps
      /\ pc = [h \in Handlers |-> "idle"] /\ req = [h \in Handlers |-> NoRequest]
      /\ contested = {} /\ crossing = {} /\ container.owner # "minidock"
  BY DEF Init, NoContainer
<1>2. NoRequest \in Requests /\ cfg \in Configs
  BY <1>1 DEF NoRequest, Requests, Kinds, Modes, Configs
<1>3. Types
  <2>1. container \in Containers
    BY DEF Init, Containers, NoContainer
  <2>2. pc \in [Handlers -> Steps] /\ req \in [Handlers -> Requests]
    BY <1>1, <1>2 DEF Steps
  <2>3. /\ ingress \in [Instances -> SUBSET Public]
        /\ dns \in [Public -> Instances \cup {None}] /\ domain \in [Apps -> Domains]
    BY DEF Init
  <2>4. torn \in BOOLEAN /\ stray \in BOOLEAN /\ raced \in BOOLEAN /\ legacy \in BOOLEAN
        /\ apiToken \in BOOLEAN
    BY DEF Init
  <2>5. token = None /\ instance = None
    BY DEF Init
  <2> QED
    BY <1>1, <1>2, <2>1, <2>2, <2>3, <2>4, <2>5 DEF Types
<1>4. \A h \in Handlers : pc[h] = "idle" /\ req[h] = NoRequest
  BY <1>1
<1>5. Local
  <2>1. RowOf
    BY <1>1 DEF RowOf, Made, Owned, NoRequest
  <2>2. ASSUME NEW h \in Handlers PROVE FormOf(h) /\ CopyOf(h)
    BY <1>4 DEF FormOf, CopyOf, Made, Owned, NoRequest, Identification, Publication, Connection,
       Removal
  <2> QED
    BY <1>3, <2>1, <2>2 DEF Local
<1>6. Naming
  <2>1. ASSUME NEW h \in Handlers PROVE NamedBy(h)
    BY <1>4 DEF NamedBy, Ours, NoRequest
  <2> QED
    BY <1>1, <2>1 DEF Naming, Ours, NoRequest
<1>7. \A h \in Handlers : ~Connecting(req[h]) /\ ~Publishing(req[h])
  BY <1>4 DEF Connecting, Publishing, NoRequest
<1>8. Apart
  BY <1>1, <1>7 DEF Apart
<1>9. Attached
  BY <1>1, <1>7 DEF Attached, DisabledMeansStopped, ConnectedServes, NoRequest
<1>10. Reported
  BY <1>1, <1>7 DEF Reported
<1> QED
  BY <1>5, <1>6, <1>8, <1>9, <1>10 DEF Inv

LEMMA StutterInv ==
    ASSUME Inv, UNCHANGED vars
    PROVE  Inv'
<1>1. UNCHANGED <<cfg, token, apiToken, instance, domain, tunnels, ingress, dns, container, legacy,
                  pc, req, contested, crossing, torn, stray, raced, unpublished>>
  BY DEF vars, secrets, remote, docker, overlaps, history, connection
<1>2. Local'
  BY <1>1 DEF Inv, Local, Types, RowOf, FormOf, CopyOf, Made, Owned
<1>3. Naming' /\ Apart'
  BY <1>1 DEF Inv, Naming, NamedBy, Ours, Apart
<1>4. Attached'
  BY <1>1 DEF Inv, Attached, DisabledMeansStopped, ConnectedServes, AttachedBy, Truthful,
     Serving, Connecting
<1>5. Reported'
  BY <1>1 DEF Inv, Reported, Reachable, ReportedBy, PublicApplicationDomains, Publishing
<1> QED
  BY <1>2, <1>3, <1>4, <1>5 DEF Inv

\* Every step of every handler keeps the invariant.
LEMMA StepInv ==
    ASSUME Inv, NEW h \in Handlers, Step(h)
    PROVE  Inv'
<1>1. CASE ReadConfig(h)
  BY <1>1, ReadConfigOnInv, ReadConfigEnds
<1>2. CASE ReadFails(h)
  BY <1>2, ReadFailsInv
<1>3. CASE UnsealTunnelToken(h)
  <2>1. CASE Refuse(h)
    BY <1>3, <2>1, UnsealTunnelTokenEnds
  <2>2. CASE ~Refuse(h)
    <3>1. req[h].kind \in {"save", "reconnect"}
      BY <1>3, <2>2 DEF UnsealTunnelToken
    <3> QED
      BY <1>3, <2>2, <3>1, UnsealReconnectInv, UnsealSaveInv
  <2> QED
    BY <2>1, <2>2
<1>4. CASE CloudflareTunnelName(h)
  BY <1>4, CloudflareTunnelNameInv
<1>5. CASE MintInstanceID(h)
  BY <1>5, MintInstanceIDInv
<1>6. CASE CreateOrGetTunnel(h)
  BY <1>6, CreateOrGetTunnelOn, CreateOrGetTunnelEnds
<1>7. CASE PutApiToken(h)
  BY <1>7, PutApiTokenInv
<1>8. CASE PutTunnelToken(h)
  BY <1>8, PutTunnelTokenInv
<1>9. CASE ListApplications(h)
  BY <1>9, ListApplicationsInv
<1>10. CASE ConfigureTunnelIngress(h)
  BY <1>10, ConfigureTunnelIngressInv
<1>11. CASE UpsertCNAMERecord(h)
  BY <1>11, UpsertCNAMERecordInv
<1>12. CASE Published(h)
  BY <1>12, PublishedOn, PublishedEnds
<1>13. CASE RenameDomain(h)
  BY <1>13, RenameDomainInv
<1>14. CASE LookUpTunnel(h)
  BY <1>14, LookUpTunnelOnInv, LookUpTunnelEnds
<1>15. CASE Configuring(h)
  BY <1>15, ConfiguringInv
<1>16. CASE RemoveLegacyComposeConnector(h)
  BY <1>16, RemoveLegacyInv
<1>17. CASE Inspect(h)
  BY <1>17, InspectInv
<1>18. CASE RemoveContainer(h)
  BY <1>18, RemoveContainerInv
<1>19. CASE MakeContainer(h)
  BY <1>19, MakeContainerInv
<1>20. CASE StartContainer(h)
  BY <1>20, StartContainerInv
<1>21. CASE StartFails(h)
  BY <1>21, StartFailsInv
<1>22. CASE Connect(h)
  BY <1>22, ConnectEnds
<1>23. CASE Detach(h)
  BY <1>23, DetachInv
<1>24. CASE Disable(h)
  BY <1>24, DisableEnds
<1>25. CASE CallFails(h)
  <2>1. CASE ~Refuse(h)
    BY <1>25, <2>1, CallFailsOnInv
  <2>2. CASE Refuse(h)
    <3>1. pc \in [Handlers -> Steps] /\ pc'[h] = "idle"
      BY <2>2 DEF Inv, Local, Types, Refuse
    <3>2. ~Connecting(req[h])
      BY <1>25, <3>1 DEF CallFails, Goto, Connecting
    <3> QED
      BY <1>25, <2>2, <3>2, CallFailsEnds
  <2> QED
    BY <2>1, <2>2
<1>26. CASE SaveCloudflareFailure(h)
  BY <1>26, SaveCloudflareFailureEnds
<1>27. CASE Abandon(h)
  BY <1>27, AbandonEnds
<1> QED
  BY <1>1, <1>2, <1>3, <1>4, <1>5, <1>6, <1>7, <1>8, <1>9, <1>10, <1>11, <1>12, <1>13, <1>14,
     <1>15, <1>16, <1>17, <1>18, <1>19, <1>20, <1>21, <1>22, <1>23, <1>24, <1>25, <1>26, <1>27 DEF
     Step

\* The inductive invariant holds, with any number of handlers at once: what a step
\* relies on is what the steps before it, of this or of other handlers, have left.
THEOREM Invariance == Spec => []Inv
<1>1. Init => Inv
  BY InitInv
<1>2. Inv /\ [Next]_vars => Inv'
  <2> SUFFICES ASSUME Inv, [Next]_vars PROVE Inv'
    OBVIOUS
  <2>1. CASE UNCHANGED vars
    BY <2>1, StutterInv
  <2>2. CASE ContainerExits \/ DockerRestarts
    BY <2>2, DockerInv
  <2>3. ASSUME NEW h \in Handlers,
               \/ SaveCloudflareConfig(h) \/ ReconnectCloudflared(h)
               \/ UpdateApplicationDomain(h) \/ SyncAppCloudflareDNS(h)
        PROVE  Inv'
    BY <2>3, FormsInv
  <2>4. ASSUME NEW h \in Handlers, Step(h)
        PROVE  Inv'
    BY <2>4, StepInv
  <2> QED
    BY <2>1, <2>2, <2>3, <2>4 DEF Next
<1> QED
  BY <1>1, <1>2, PTL DEF Spec

\* However many saves are under way and wherever they fail, the installation makes
\* one tunnel, unless two of them find no stored id before either stores one
\* (cloudflareTunnelName, CreateOrGetTunnel).
THEOREM SingleTunnel == Spec => []OneTunnel
<1>1. Inv => OneTunnel
  <2> SUFFICES ASSUME Inv, ~raced PROVE Cardinality(tunnels) <= 1
    BY DEF OneTunnel
  <2>1. tunnels = {} \/ tunnels = {instance}
    BY DEF Inv, Naming
  <2>2. Cardinality({}) = 0 /\ Cardinality({instance}) = 1
    BY FS_EmptySet, FS_Singleton
  <2> QED
    BY <2>1, <2>2
<1> QED
  BY <1>1, Invariance, PTL

\* While no save or reconnect is under way, a row that says connected tells the
\* truth about the container and the stored token, unless one ended early or
\* overlapped another and none completed undisturbed since (saveCloudflareConfig
\* and reconnectCloudflared write the row last).
THEOREM Connected == Spec => []ConnectedServes
<1>1. Inv => ConnectedServes
  BY DEF Inv, Attached
<1> QED
  BY <1>1, Invariance, PTL

\* While the row says disabled MiniDock has no connector container, wherever earlier
\* requests ended: the row is written after Remove, and leaves that status before
\* Reconcile.  Only overlapping saves and reconnects break it, until the next one
\* completes undisturbed.
THEOREM Stopped == Spec => []DisabledMeansStopped
<1>1. Inv => DisabledMeansStopped
  BY DEF Inv, Attached
<1> QED
  BY <1>1, Invariance, PTL

\* In automatic mode, the public domain of an application whose publication was
\* reported done (syncCloudflareDNSRecords) is routed by the configured tunnel and
\* its record names it, whatever was renamed, synchronized or saved since and is
\* under way now; overlapping publications have to be done again.
THEOREM PublishedServed == Spec => []PublishedIsServed
<1>1. Inv => PublishedIsServed
  <2> SUFFICES ASSUME Inv, tunnels = {cfg.tunnel}, NEW a \in Apps \ unpublished
               PROVE  Reachable(a, cfg.tunnel)
    BY DEF PublishedIsServed, Reachable
  <2> QED
    BY DEF Inv, Reported
<1> QED
  BY <1>1, Invariance, PTL

====
