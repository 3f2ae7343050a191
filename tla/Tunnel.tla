-------------------------------- MODULE Tunnel --------------------------------
(***************************************************************************)
(* Publishing the applications through a Cloudflare tunnel: the handlers   *)
(* saveCloudflareConfig, reconnectCloudflared, updateApplicationDomain and *)
(* syncAppCloudflareDNS (internal/app/server.go), the API client they call *)
(* (cloudflare.go) and the connector container (cloudflare_connector.go).  *)
(*                                                                         *)
(* No transaction spans the database, Cloudflare and Docker.  Every        *)
(* statement, API call and Docker command is a step of its own, and a      *)
(* handler may end after any of them: the client disconnects, which        *)
(* cancels the context of every later call, a statement fails, or the      *)
(* process dies.  Handlers hold nothing in memory between requests, and    *)
(* nothing keeps two of them apart: they interleave at every step.         *)
(*                                                                         *)
(* What each property can promise then depends on who overlapped whom,     *)
(* which the history variables record: saves and reconnects write the row, *)
(* the stored token and the container; saves and the two handlers about a  *)
(* domain write the routes and records.                                    *)
(*                                                                         *)
(* A tunnel, its name and its token are one value, as Cloudflare keeps     *)
(* names unique in an account.  There is one account: a save that names    *)
(* another one (and finds or makes a second tunnel there) is not modelled. *)
(* The vault is unlocked: without its key every handler here returns       *)
(* before it changes anything.                                             *)
(***************************************************************************)
EXTENDS Naturals, FiniteSets

CONSTANTS
    Handlers,   \* requests the server handles at the same time
    Apps,
    Domains,    \* hostnames an application may be given
    Public,     \* the ones isPublicCloudflareDomain accepts
    Instances,  \* the ids rand.Read may return
    Typed,      \* tokens of tunnels the administrator made, as pasted into the form
    Decodable,  \* the ones tunnelIDFromToken can read
    None,
    MaxRequests,  \* bound: requests begun
    MaxFailures   \* bound: calls that fail or handlers that end early

ASSUME DomainsAssumption == Public \subseteq Domains
ASSUME TokensAssumption == Decodable \subseteq Typed /\ Instances \cap Typed = {}
ASSUME NoneAssumption == None \notin Instances \cup Typed \cup Domains \cup Apps
ASSUME TunnelBoundsAssumption == MaxRequests \in Nat /\ MaxFailures \in Nat

VARIABLES
    cfg,       \* the row of cloudflare_config
    token,     \* the sealed tunnel_token (None: no row)
    apiToken,  \* is there a sealed api_token?
    instance,  \* the setting cloudflare_instance_id
    domain,    \* per application: applications.domain
    tunnels,   \* the tunnels this installation made at Cloudflare
    ingress,   \* per tunnel: the hostnames it routes to Caddy
    dns,       \* per hostname: the tunnel its CNAME names
    container, \* what has the name of the connector
    legacy,    \* is the connector of an old Compose file still there?
    pc, req,   \* per handler: its next step, and its form and locals
    contested,   \* history: the saves and reconnects under way that overlapped another one
    crossing,    \* history: the saves and domain handlers under way that overlapped another one
    torn,        \* history: a save or reconnect ended early or overlapped another one, and
                 \*   none was completed undisturbed since
    stray,       \* history: the same, of overlaps only
    raced,       \* history: two saves had found no instance id before either stored one
    unpublished, \* history: the applications whose publication was not reported done
    requests, failures

remote == <<tunnels, ingress, dns>>
docker == <<container, legacy>>
secrets == <<token, apiToken>>
overlaps == <<contested, crossing>>
connection == <<torn, stray>>
history == <<connection, raced, unpublished>>
bounds == <<requests, failures>>
vars == <<cfg, secrets, instance, domain, remote, docker, pc, req, overlaps, history, bounds>>

Tokens == Instances \cup Typed
Configs == [mode : {"disabled", "tunnel_token", "api_token"}, tunnel : Tokens \cup {None},
            name : {"none", "existing", "ours"},   \* existing: "Tunel existente"
            status : {"disabled", "configuring", "connected", "error"}]
NoContainer == [owner |-> "nobody", token |-> None, state |-> "none"]
Containers == [owner : {"nobody", "foreign", "minidock"}, token : Tokens \cup {None},
               state : {"none", "created", "running", "exited"}]

\* kind: the handler.  copy: cfg as it was read.  list: the domains as they were
\* read.  left: hostnames whose record is still to be written.
NoRequest == [kind |-> "none", mode |-> "disabled", token |-> None, app |-> None, domain |-> None,
              copy |-> [mode |-> "disabled", tunnel |-> None, name |-> "none", status |-> "disabled"],
              list |-> {}, left |-> {}]

TypeOK ==
    /\ cfg \in Configs
    /\ token \in Tokens \cup {None} /\ apiToken \in BOOLEAN
    /\ instance \in Instances \cup {None}
    /\ domain \in [Apps -> Domains]
    /\ tunnels \subseteq Instances
    /\ ingress \in [Instances -> SUBSET Public]
    /\ dns \in [Public -> Instances \cup {None}]
    /\ container \in Containers /\ legacy \in BOOLEAN
    /\ (container.owner = "nobody" <=> container.state = "none")
    /\ \A h \in Handlers : req[h].copy \in Configs /\ req[h].list \cup req[h].left \subseteq Public
    /\ contested \subseteq Handlers /\ crossing \subseteq Handlers
    /\ torn \in BOOLEAN /\ stray \in BOOLEAN /\ raced \in BOOLEAN /\ unpublished \subseteq Apps
    /\ requests \in 0 .. MaxRequests /\ failures \in 0 .. MaxFailures

Init ==
    /\ cfg = NoRequest.copy
    /\ token = None /\ apiToken = FALSE /\ instance = None
    /\ domain \in [Apps -> Domains]
    /\ tunnels = {} /\ ingress = [t \in Instances |-> {}] /\ dns = [d \in Public |-> None]
    /\ container \in {NoContainer, [owner |-> "foreign", token |-> None, state |-> "running"]}
    /\ legacy = TRUE
    /\ pc = [h \in Handlers |-> "idle"] /\ req = [h \in Handlers |-> NoRequest]
    /\ contested = {} /\ crossing = {}
    /\ torn = FALSE /\ stray = FALSE /\ raced = FALSE /\ unpublished = Apps
    /\ requests = 0 /\ failures = 0

\* What the requests under way work on: the connector, or what is published.
Connecting(r) == r.kind \in {"save", "reconnect"}
Publishing(r) == r.kind \in {"save", "domain", "sync"}

Goto(h, step) == pc' = [pc EXCEPT ![h] = step] /\ UNCHANGED overlaps
Refuse(h) ==
    /\ pc' = [pc EXCEPT ![h] = "idle"]
    /\ req' = [req EXCEPT ![h] = NoRequest]
    /\ contested' = contested \ {h} /\ crossing' = crossing \ {h}

PublicApplicationDomains == {domain[a] : a \in Apps} \cap Public

-----------------------------------------------------------------------------
(***************************************************************************)
(* The forms.                                                              *)
(***************************************************************************)
Begin(h, step, r) ==
    LET rivals == {k \in Handlers : Connecting(r) /\ Connecting(req[k])}
        others == {k \in Handlers : Publishing(r) /\ Publishing(req[k])}
    IN
    /\ pc[h] = "idle" /\ requests < MaxRequests
    /\ req' = [req EXCEPT ![h] = r]
    /\ pc' = [pc EXCEPT ![h] = step]
    /\ IF rivals = {}
       THEN UNCHANGED <<contested, connection>>
       ELSE contested' = contested \cup rivals \cup {h} /\ torn' = TRUE /\ stray' = TRUE
    /\ IF others = {}
       THEN UNCHANGED <<crossing, unpublished>>
       ELSE crossing' = crossing \cup others \cup {h} /\ unpublished' = Apps
    /\ requests' = requests + 1
    /\ UNCHANGED <<cfg, secrets, instance, domain, remote, docker, raced, failures>>

SaveCloudflareConfig(h) ==
    \E mode \in {"disabled", "tunnel_token", "api_token"}, t \in Typed \cup {None} :
        /\ (mode # "tunnel_token" => t = None)
        /\ Begin(h, "reading", [NoRequest EXCEPT !.kind = "save", !.mode = mode, !.token = t])
ReconnectCloudflared(h) == Begin(h, "reading", [NoRequest EXCEPT !.kind = "reconnect"])
UpdateApplicationDomain(h) ==
    \E a \in Apps, d \in Domains :
        Begin(h, "renaming", [NoRequest EXCEPT !.kind = "domain", !.app = a, !.domain = d])
SyncAppCloudflareDNS(h) ==
    \E a \in Apps : Begin(h, "looking", [NoRequest EXCEPT !.kind = "sync", !.app = a, !.domain = domain[a]])

\* The row is read once; what the handler saves at its end is this copy.
ReadConfig(h) ==
    LET r == req[h]
        copy == IF r.kind = "save" THEN [cfg EXCEPT !.mode = r.mode] ELSE cfg
    IN
    /\ pc[h] = "reading"
    /\ IF r.kind = "reconnect" /\ cfg.mode = "disabled"
       THEN Refuse(h)
       ELSE /\ Goto(h, CASE r.kind = "reconnect" -> "unsealing"
                         [] r.kind = "save" /\ r.mode = "disabled" -> "detaching"
                         [] r.kind = "save" /\ r.mode = "tunnel_token" -> "unsealing"
                         [] r.kind = "save" /\ r.mode = "api_token" -> "naming")
            /\ req' = [req EXCEPT ![h].copy = copy]
    /\ UNCHANGED <<cfg, secrets, instance, domain, remote, docker, history, bounds>>

\* saveCloudflareConfig ignores the error of this read and goes on with a
\* configuration that has only the mode of the form.
ReadFails(h) ==
    /\ pc[h] = "reading" /\ req[h].kind = "save" /\ failures < MaxFailures
    /\ failures' = failures + 1
    /\ req' = [req EXCEPT ![h].copy = [NoRequest.copy EXCEPT !.mode = req[h].mode]]
    /\ Goto(h, CASE req[h].mode = "disabled" -> "detaching"
                 [] req[h].mode = "tunnel_token" -> "unsealing"
                 [] req[h].mode = "api_token" -> "naming")
    /\ UNCHANGED <<cfg, secrets, instance, domain, remote, docker, history, requests>>

\* The pasted token, or else the stored one.  A save notes the tunnel it names.
UnsealTunnelToken(h) ==
    LET r == req[h]
        t == IF r.token = None THEN token ELSE r.token
    IN
    /\ pc[h] = "unsealing"
    /\ \/ /\ t = None /\ Refuse(h)
       \/ /\ t # None /\ r.kind = "reconnect"
          /\ Goto(h, "migrating") /\ req' = [req EXCEPT ![h].token = t]
       \/ /\ t # None /\ r.kind = "save"
          /\ Goto(h, "storing")
          /\ req' = [req EXCEPT ![h].token = t, ![h].copy.name = "existing",
                                ![h].copy.tunnel = IF t \in Decodable \cup Instances THEN t ELSE None]
    /\ UNCHANGED <<cfg, secrets, instance, domain, remote, docker, history, bounds>>

-----------------------------------------------------------------------------
(***************************************************************************)
(* The automatic configuration.                                            *)
(***************************************************************************)

\* VerifyToken and the first half of cloudflareTunnelName: a configured tunnel
\* keeps its name, otherwise the id of this installation names it.
CloudflareTunnelName(h) ==
    LET ours == req[h].copy.tunnel # None /\ req[h].copy.name = "ours"
        known == IF ours THEN req[h].copy.tunnel ELSE instance
    IN
    /\ pc[h] = "naming"
    /\ Goto(h, IF known = None THEN "minting" ELSE "creating")
    /\ req' = [req EXCEPT ![h].token = known]
    /\ raced' = (raced \/ (known = None /\ \E k \in Handlers : pc[k] = "minting"))
    /\ UNCHANGED <<cfg, secrets, instance, domain, remote, docker, connection, unpublished, bounds>>

\* Mutant: the new id is used without being stored.
MintWithoutSetting(h) ==
    /\ pc[h] = "minting"
    /\ \E i \in Instances \ tunnels : req' = [req EXCEPT ![h].token = i]
    /\ Goto(h, "creating")
    /\ UNCHANGED <<cfg, secrets, instance, domain, remote, docker, history, bounds>>

\* The second half, when no id was stored: one is drawn and stored.
MintInstanceID(h) ==
    /\ pc[h] = "minting"
    /\ \E i \in Instances \ tunnels : instance' = i /\ req' = [req EXCEPT ![h].token = i]
    /\ Goto(h, "creating")
    /\ UNCHANGED <<cfg, secrets, domain, remote, docker, history, bounds>>

\* The POST makes the tunnel, or is refused because the name is taken and the
\* GET finds it; then its token is read.  The answer may get lost.
CreateOrGetTunnel(h) ==
    /\ pc[h] = "creating"
    /\ tunnels' = tunnels \cup {req[h].token}
    /\ \/ /\ Goto(h, "storing_api")
          /\ req' = [req EXCEPT ![h].copy.tunnel = req[h].token, ![h].copy.name = "ours"]
          /\ UNCHANGED failures
       \/ /\ failures < MaxFailures /\ failures' = failures + 1
          /\ Refuse(h)
    /\ UNCHANGED <<cfg, secrets, instance, domain, ingress, dns, docker, history, requests>>

PutApiToken(h) ==
    /\ pc[h] = "storing_api"
    /\ apiToken' = TRUE
    /\ Goto(h, "storing")
    /\ UNCHANGED <<cfg, token, instance, domain, remote, docker, req, history, bounds>>
PutTunnelToken(h) ==
    /\ pc[h] = "storing"
    /\ token' = req[h].token
    /\ Goto(h, IF req[h].mode = "api_token" THEN "listing" ELSE "configuring")
    /\ UNCHANGED <<cfg, apiToken, instance, domain, remote, docker, req, history, bounds>>

\* store.Applications.  A save writes the records of all public domains, the
\* other handlers the record of the domain they were asked for.
ListApplications(h) ==
    /\ pc[h] = "listing"
    /\ req' = [req EXCEPT ![h].list = PublicApplicationDomains,
                          ![h].left = IF req[h].kind = "save" THEN PublicApplicationDomains
                                      ELSE {req[h].domain}]
    /\ Goto(h, "routing")
    /\ UNCHANGED <<cfg, secrets, instance, domain, remote, docker, history, bounds>>

\* Mutant: only the new hostname is put.
ConfigureOneHostname(h) ==
    /\ pc[h] = "routing"
    /\ ingress' = [ingress EXCEPT ![req[h].copy.tunnel] = req[h].left]
    /\ Goto(h, "resolving")
    /\ UNCHANGED <<cfg, secrets, instance, domain, tunnels, dns, docker, req, history, bounds>>

\* The PUT replaces every rule of the tunnel.
ConfigureTunnelIngress(h) ==
    /\ pc[h] = "routing"
    /\ ingress' = [ingress EXCEPT ![req[h].copy.tunnel] = req[h].list]
    /\ Goto(h, "resolving")
    /\ UNCHANGED <<cfg, secrets, instance, domain, tunnels, dns, docker, req, history, bounds>>

UpsertCNAMERecord(h) ==
    /\ pc[h] = "resolving"
    /\ \E d \in req[h].left :
          /\ dns' = [dns EXCEPT ![d] = req[h].copy.tunnel]
          /\ req' = [req EXCEPT ![h].left = @ \ {d}]
    /\ UNCHANGED <<cfg, secrets, instance, domain, tunnels, ingress, docker, pc, overlaps, history, bounds>>

\* syncCloudflareDNSRecords is through: the handler goes on or reports success.
Published(h) ==
    /\ pc[h] = "resolving" /\ req[h].left = {}
    /\ IF req[h].kind = "save" THEN Goto(h, "configuring") /\ UNCHANGED req ELSE Refuse(h)
    /\ unpublished' = IF h \in crossing THEN unpublished
                      ELSE unpublished \ (IF req[h].kind = "save" THEN Apps ELSE {req[h].app})
    /\ UNCHANGED <<cfg, secrets, instance, domain, remote, docker, connection, raced, bounds>>

-----------------------------------------------------------------------------
(***************************************************************************)
(* Domains.                                                                *)
(***************************************************************************)
RenameDomain(h) ==
    /\ pc[h] = "renaming"
    /\ domain' = [domain EXCEPT ![req[h].app] = req[h].domain]
    /\ unpublished' = unpublished \cup {req[h].app}
    /\ Goto(h, "looking")
    /\ UNCHANGED <<cfg, secrets, instance, remote, docker, req, connection, raced, bounds>>

\* Without a public domain, the api_token mode and its token nothing is
\* published (sync then only asks the resolver).
LookUpTunnel(h) ==
    /\ pc[h] = "looking"
    /\ IF req[h].domain \in Public /\ cfg.mode = "api_token" /\ cfg.tunnel # None /\ apiToken
       THEN Goto(h, "listing") /\ req' = [req EXCEPT ![h].copy = cfg]
       ELSE Refuse(h)
    /\ UNCHANGED <<cfg, secrets, instance, domain, remote, docker, history, bounds>>

-----------------------------------------------------------------------------
(***************************************************************************)
(* The connector.                                                          *)
(***************************************************************************)
\* Mutant: the container is replaced before the row says so.
ConfiguringUnsaved(h) ==
    /\ pc[h] = "configuring"
    /\ Goto(h, "migrating")
    /\ UNCHANGED <<cfg, secrets, instance, domain, remote, docker, req, history, bounds>>

Configuring(h) ==
    /\ pc[h] = "configuring"
    /\ cfg' = [req[h].copy EXCEPT !.status = "configuring"]
    /\ Goto(h, "migrating")
    /\ UNCHANGED <<secrets, instance, domain, remote, docker, req, history, bounds>>

\* Nothing is removed, and nothing said, when MiniDock cannot tell its own Compose
\* project: no host name, or its own container cannot be inspected.
RemoveLegacyComposeConnector(h) ==
    /\ pc[h] = "migrating"
    /\ legacy' \in {legacy, FALSE}
    /\ Goto(h, "inspecting")
    /\ UNCHANGED <<cfg, secrets, instance, domain, remote, container, req, history, bounds>>

\* Mutant: the hash of the token is not compared.
InspectIgnoresToken(h) ==
    /\ pc[h] = "inspecting"
    /\ Goto(h, CASE container.owner = "foreign" -> "failing"
                 [] container.owner = "minidock" /\ container.state = "running" -> "connecting"
                 [] container.owner = "minidock" /\ container.state # "running" -> "restarting"
                 [] container.owner = "nobody" -> "making")
    /\ UNCHANGED <<cfg, secrets, instance, domain, remote, docker, req, history, bounds>>

\* A container that is not MiniDock's is left alone.  The right one is kept, or
\* started; any other is replaced.
Inspect(h) ==
    LET right == container.token = req[h].token
    IN
    /\ pc[h] = "inspecting"
    /\ Goto(h, CASE container.owner = "foreign" -> "failing"
                 [] container.owner = "minidock" /\ right /\ container.state = "running" -> "connecting"
                 [] container.owner = "minidock" /\ right /\ container.state # "running" -> "restarting"
                 [] container.owner = "minidock" /\ ~right -> "replacing"
                 [] container.owner = "nobody" -> "making")
    /\ UNCHANGED <<cfg, secrets, instance, domain, remote, docker, req, history, bounds>>

RemoveContainer(h) ==
    /\ pc[h] \in {"replacing", "removing"}
    /\ container' = NoContainer
    /\ Goto(h, IF pc[h] = "replacing" THEN "making" ELSE "disabling")
    /\ UNCHANGED <<cfg, secrets, instance, domain, remote, legacy, req, history, bounds>>

\* A name that was taken meanwhile makes the create fail.
MakeContainer(h) ==
    /\ pc[h] = "making"
    /\ IF container.owner = "nobody"
       THEN /\ container' = [owner |-> "minidock", token |-> req[h].token, state |-> "created"]
            /\ Goto(h, "starting")
       ELSE Goto(h, "failing") /\ UNCHANGED container
    /\ UNCHANGED <<cfg, secrets, instance, domain, remote, legacy, req, history, bounds>>

StartContainer(h) ==
    /\ pc[h] \in {"restarting", "starting"}
    /\ IF container.owner # "nobody"
       THEN container' = [container EXCEPT !.state = "running"] /\ Goto(h, "connecting")
       ELSE Goto(h, "failing") /\ UNCHANGED container
    /\ UNCHANGED <<cfg, secrets, instance, domain, remote, legacy, req, history, bounds>>

\* A container that does not start, or did and the answer was lost.  A new one is
\* removed again, if Docker still answers.
StartFails(h) ==
    /\ pc[h] \in {"restarting", "starting"} /\ failures < MaxFailures
    /\ failures' = failures + 1
    /\ \/ UNCHANGED container
       \/ container.owner # "nobody" /\ container' = [container EXCEPT !.state = "running"]
       \/ pc[h] = "starting" /\ container' = NoContainer
    /\ Goto(h, "failing")
    /\ UNCHANGED <<cfg, secrets, instance, domain, remote, legacy, req, history, requests>>

\* Docker: cloudflared exits, and is started again (--restart unless-stopped).
ContainerExits ==
    /\ container.owner = "minidock" /\ container.state = "running"
    /\ container' = [container EXCEPT !.state = "exited"]
    /\ UNCHANGED <<cfg, secrets, instance, domain, remote, legacy, pc, req, overlaps, history, bounds>>
DockerRestarts ==
    /\ container.owner = "minidock" /\ container.state = "exited"
    /\ container' = [container EXCEPT !.state = "running"]
    /\ UNCHANGED <<cfg, secrets, instance, domain, remote, legacy, pc, req, overlaps, history, bounds>>

Connect(h) ==
    /\ pc[h] = "connecting"
    /\ cfg' = [req[h].copy EXCEPT !.status = "connected"]
    /\ Refuse(h)
    /\ torn' = (torn /\ h \in contested) /\ stray' = (stray /\ h \in contested)
    /\ UNCHANGED <<secrets, instance, domain, remote, docker, raced, unpublished, bounds>>

\* Remove.
Detach(h) ==
    /\ pc[h] = "detaching"
    /\ Goto(h, CASE container.owner = "nobody" -> "disabling"
                 [] container.owner = "foreign" -> "failing"
                 [] container.owner = "minidock" -> "removing")
    /\ UNCHANGED <<cfg, secrets, instance, domain, remote, docker, req, history, bounds>>

Disable(h) ==
    /\ pc[h] = "disabling"
    /\ cfg' = [req[h].copy EXCEPT !.status = "disabled"]
    /\ Refuse(h)
    /\ torn' = (torn /\ h \in contested) /\ stray' = (stray /\ h \in contested)
    /\ UNCHANGED <<secrets, instance, domain, remote, docker, raced, unpublished, bounds>>

-----------------------------------------------------------------------------
(***************************************************************************)
(* Failures.                                                               *)
(***************************************************************************)

\* The API or Docker refuses, or the answer to the call before is lost, and the
\* handler says so in the row; the two handlers about a domain have no row to write.
CallFails(h) ==
    /\ pc[h] \in {"routing", "resolving", "migrating", "inspecting", "replacing", "making",
                  "detaching", "removing", "disabling"}
    /\ failures < MaxFailures
    /\ failures' = failures + 1
    /\ IF req[h].kind \in {"save", "reconnect"}
       THEN Goto(h, "failing") /\ UNCHANGED req
       ELSE Refuse(h)
    /\ UNCHANGED <<cfg, secrets, instance, domain, remote, docker, history, requests>>

SaveCloudflareFailure(h) ==
    /\ pc[h] = "failing"
    /\ cfg' = [req[h].copy EXCEPT !.status = "error"]
    /\ Refuse(h)
    /\ UNCHANGED <<secrets, instance, domain, remote, docker, history, bounds>>

\* The client disconnects, a statement fails or the process dies: the handler
\* ends with no further effect.  Also an API token Cloudflare rejects.
Abandon(h) ==
    /\ pc[h] # "idle" /\ failures < MaxFailures
    /\ failures' = failures + 1
    /\ Refuse(h)
    /\ torn' = (torn \/ Connecting(req[h]))
    /\ UNCHANGED <<cfg, secrets, instance, domain, remote, docker, stray, raced, unpublished, requests>>

Step(h) ==
    \/ ReadConfig(h) \/ ReadFails(h) \/ UnsealTunnelToken(h)
    \/ CloudflareTunnelName(h) \/ MintInstanceID(h) \/ CreateOrGetTunnel(h)
    \/ PutApiToken(h) \/ PutTunnelToken(h) \/ ListApplications(h)
    \/ ConfigureTunnelIngress(h) \/ UpsertCNAMERecord(h) \/ Published(h)
    \/ RenameDomain(h) \/ LookUpTunnel(h)
    \/ Configuring(h) \/ RemoveLegacyComposeConnector(h) \/ Inspect(h) \/ RemoveContainer(h)
    \/ MakeContainer(h) \/ StartContainer(h) \/ StartFails(h) \/ Connect(h) \/ Detach(h) \/ Disable(h)
    \/ CallFails(h) \/ SaveCloudflareFailure(h) \/ Abandon(h)

Next ==
    \/ \E h \in Handlers :
          \/ SaveCloudflareConfig(h) \/ ReconnectCloudflared(h)
          \/ UpdateApplicationDomain(h) \/ SyncAppCloudflareDNS(h)
          \/ Step(h)
    \/ ContainerExits \/ DockerRestarts

Spec == Init /\ [][Next]_vars

-----------------------------------------------------------------------------
(***************************************************************************)
(* Properties.                                                             *)
(***************************************************************************)

\* However often an automatic configuration fails half-way and is tried again,
\* and whatever runs meanwhile, the installation has made one tunnel: its name is
\* stored before it is used.  Only two saves that both find no stored id, before
\* either stores one, make two (cloudflareTunnelName reads and writes the setting
\* in two statements).
OneTunnel == ~raced => Cardinality(tunnels) <= 1

\* While no save or reconnect is under way, a row that says connected tells the
\* truth: MiniDock's container was started with the stored token (it may have
\* exited since).  The exception is a save or reconnect that ended early or
\* overlapped another one, until the next one completes undisturbed.
ConnectedServes ==
    (\A h \in Handlers : ~Connecting(req[h])) /\ cfg.status = "connected" /\ ~torn =>
        container.owner = "minidock" /\ container.state # "created" /\ container.token = token

\* While the row says disabled, MiniDock has no connector container, wherever
\* earlier requests ended.  The exception is a save or reconnect that overlapped
\* another one, until the next one completes undisturbed.
DisabledMeansStopped == cfg.status = "disabled" /\ ~stray => container.owner # "minidock"

\* In automatic mode, the public domain of an application whose publication was
\* reported done is routed by the configured tunnel and its record names it, also
\* while later requests are under way.  What overlapping publications report does
\* not count, nor what was reported before them: each PUT replaces every rule by
\* the domains its handler had read.
PublishedIsServed ==
    cfg.mode = "api_token" /\ tunnels = {cfg.tunnel} =>
        \A a \in Apps \ unpublished :
            domain[a] \in Public => domain[a] \in ingress[cfg.tunnel] /\ dns[domain[a]] = cfg.tunnel
=============================================================================
