------------------------------ MODULE EdgeFiles ------------------------------
(***************************************************************************)
(* One file edge and the daemon behind it.  crenel rewrites the config     *)
(* file (expose, unexpose, import), verifies what it wrote, probes the     *)
(* daemon and compensates; the daemon picks the file up later, or is       *)
(* restarted from it; the operator edits the file; a kill leaves it        *)
(* truncated.  An edge of kind "npm" is a read-only tree that Nginx Proxy  *)
(* Manager regenerates, and at a Traefik edge an API reader fetches the    *)
(* running config in five requests while all of this goes on.              *)
(*                                                                         *)
(* The order of several providers, interference at other edges and the     *)
(* gates of the engine are in module Engine; here one edge is opened up to *)
(* the blocks and routers its config consists of.                          *)
(***************************************************************************)
EXTENDS NginxFile, TraefikFile

CONSTANTS
    Ops,          \* expose and unexpose requests
    Origin,       \* the address the configured origins give each host
    StartFiles,   \* by kind, the configs an edge may start from
    Snippets,     \* by kind, what the operator may paste into the file
    MaxEdits,     \* bound on operator edits
    MaxRuns,      \* bound on crenel invocations
    Down          \* the daemon could not start

Op == [verb : {"expose", "unexpose"}, host : Hosts, mode : {"http", "tcp"},
       auth : {"none", "named"}]

Kinds == {"nginx", "traefik", "npm"}

IsFile(k, f) ==
    CASE k = "nginx" -> f \in Seq(Block)
      [] k = "traefik" -> IsConfig(f)
      [] OTHER -> f \in SUBSET TreeFile /\ IsFiniteSet(f)

ASSUME EdgeFilesAssumption ==
    /\ Ops \subseteq Op
    /\ Origin \in [Hosts -> Backends]
    /\ MaxEdits \in Nat /\ MaxRuns \in Nat
    /\ \A k \in Kinds : \A f \in StartFiles[k] : IsFile(k, f)
    /\ Snippets["nginx"] \subseteq Block
    /\ \A s \in Snippets["traefik"] : IsConfig(s)

VARIABLES
    kind,     \* "nginx", "traefik" or "npm"
    probed,   \* the runtime surface is configured
    file,     \* the config file (the tree of an npm edge)
    running,  \* what the daemon serves; Down if it could not start
    pending,  \* the daemon has been told to load the file and has not yet
    pc,       \* "idle", "verify" or "undo": where the invocation stands
    op,       \* the request of the invocation
    change,   \* its planned change
    snap,     \* the live state it planned from
    before,   \* history: the file when the invocation started
    report,   \* what the last invocation told the operator
    edits, runs,
    got,      \* answers the API reader holds so far
    seen      \* history: what ran at each moment of the API read

vars == <<kind, probed, file, running, pending, pc, op, change, snap, before,
          report, edits, runs, got, seen>>

NoOp == Nothing
NoChange == [add |-> {}, remove |-> {}]
NoReport == [result |-> "none", host |-> Nothing]
NoLive == [routes |-> {}, deny |-> TRUE, unparsed |-> {}, generator |-> FALSE]

EmptyFile(k) == IF k = "traefik" THEN EmptyConfig ELSE <<>>

\* ReadLiveState of the driver.
Read(k, f) ==
    CASE k = "nginx"   -> normalizeNginx(f)
      [] k = "traefik" -> normalizeTraefik(f)
      [] k = "npm"     -> ReadTree(f)

\* Driver.Apply: the file it writes.
Written(k, f, c) == IF k = "nginx" THEN applyNginx(f, c) ELSE applyTraefik(f, c)

\* Traefik's write validates the document before it touches the file.
WriteRefused(k, f, c) == k = "traefik" /\ ~ validate(applyTraefik(f, c))

\* What the daemon takes from the file, and what it answers for a host.
Loads(k, f) == IF k = "traefik" THEN Accepts(f) ELSE k = "nginx" => nginxTest(f)

Serves(k, cfg, h) ==
    CASE k = "traefik" -> traefikServes(cfg, h)
      [] k = "npm"     -> nginxServes(TreeConfig(cfg), h)
      [] k = "nginx"   -> nginxServes(cfg, h)

Answers(k, cfg, h) == Serves(k, cfg, h) # {}

Init ==
    /\ kind \in Kinds
    /\ probed \in {b \in BOOLEAN : kind = "npm" => ~ b}
    /\ file \in StartFiles[kind]
    /\ Loads(kind, file) /\ running = file /\ pending = FALSE
    /\ pc = "idle" /\ op = NoOp /\ change = NoChange /\ snap = NoLive
    /\ before = file /\ report = NoReport
    /\ edits = 0 /\ runs = 0
    /\ got = EmptyTable /\ seen = {}

-----------------------------------------------------------------------------
(***************************************************************************)
(* An invocation: plan, gate, write, reload.                               *)
(***************************************************************************)
\* Driver.Plan: nothing to do when the host is (not) there already.
Plan(o, live) ==
    CASE o.verb = "expose" /\ ~ LiveHasHost(live, o.host) ->
            [add |-> {[host |-> o.host, to |-> Origin[o.host], mode |-> o.mode,
                       auth |-> o.auth, managed |-> TRUE]},
             remove |-> {}]
      [] o.verb = "unexpose" /\ LiveHasHost(live, o.host) ->
            [add |-> {}, remove |-> {o.host}]
      [] OTHER -> NoChange

PlanRefused(k, o) == k = "npm" \/ (k = "nginx" /\ o.mode = "tcp")

\* The outcomes of Apply once the file is written: the config test, then the
\* reload, either of which may fail; without a runtime surface neither is run.
ApplyFails(k, f) == k = "nginx" /\ probed /\ ~ nginxTest(f)
ReloadMayFail(k) == k = "nginx" /\ probed

\* Traefik watches its file; nginx is told.
LoadAsked(k) == k = "traefik" \/ (k = "nginx" /\ probed)

Start(o) ==
    /\ pc = "idle" /\ runs < MaxRuns /\ kind # "npm"
    /\ runs' = runs + 1 /\ op' = o /\ before' = file
    /\ LET live == Read(kind, file)
           c    == Plan(o, live)
       IN IF PlanRefused(kind, o) \/ c = NoChange \/ live.generator
                \/ WriteRefused(kind, file, c)
          THEN /\ report' = [result |-> "nothing", host |-> o.host]
               /\ UNCHANGED <<file, pending, pc, change, snap>>
          ELSE /\ file' = Written(kind, file, c)
               /\ change' = c /\ snap' = live
               /\ \/ /\ ApplyFails(kind, file') \/ ReloadMayFail(kind)
                     /\ pc' = "idle" /\ report' = [result |-> "apply_failed", host |-> o.host]
                     /\ UNCHANGED pending
                  \/ /\ ~ ApplyFails(kind, file')
                     /\ pc' = "verify" /\ pending' = (pending \/ LoadAsked(kind))
                     /\ report' = NoReport
    /\ UNCHANGED <<kind, probed, running, edits, got, seen>>

\* The process dies after os.WriteFile truncated the file; Traefik sees it.
Kill(o) ==
    /\ pc = "idle" /\ runs < MaxRuns /\ kind # "npm"
    /\ Plan(o, Read(kind, file)) # NoChange /\ ~ PlanRefused(kind, o)
    /\ ~ Read(kind, file).generator
    /\ runs' = runs + 1
    /\ file' = EmptyFile(kind) /\ before' = file'
    /\ pending' = (pending \/ kind = "traefik")
    /\ report' = NoReport /\ op' = NoOp
    /\ UNCHANGED <<kind, probed, running, pc, change, snap, edits, got, seen>>

\* The daemon: graceful reload or file watch, at a moment of its own.  It may
\* also miss the change, or fail in a way the command did not report.
Load ==
    /\ pending
    /\ pending' = FALSE
    /\ running' \in {running} \cup {f \in {file} : Loads(kind, f)}
    /\ UNCHANGED <<kind, probed, file, pc, op, change, snap, before, report,
                   edits, runs, got, seen>>

\* The daemon is stopped and started again from the file.
Restart ==
    /\ kind # "npm" /\ pc = "idle"
    /\ running' = IF Loads(kind, file) THEN file
                  ELSE IF kind = "nginx" THEN Down ELSE EmptyFile(kind)
    /\ pending' = FALSE
    /\ UNCHANGED <<kind, probed, file, pc, op, change, snap, before, report,
                   edits, runs, got, seen>>

-----------------------------------------------------------------------------
(***************************************************************************)
(* Read-back, runtime probe, compensation.                                 *)
(***************************************************************************)
verifyFile(o, c, live) ==
    /\ live.deny
    /\ IF o.verb = "expose" THEN LiveReachable(live, o.host) ELSE ~ LiveHasHost(live, o.host)
    /\ \A r \in c.add : FirstRoute(live, r.host).auth = r.auth

\* managedRouterLive: crenel's HTTP router, by name and status.
managedRouterLive(cfg, h) ==
    managedRouterID(h) \in DOMAIN cfg.routers /\ Enabled(cfg, managedRouterID(h))

\* probeHost: any HTTP response at all means served, whoever answers.
probeHost(cfg, h) ==
    /\ cfg # Down
    /\ LET i == Answering(cfg, ListenPort, h)
       IN i # 0 /\ ~ (catchAll(cfg[i]) /\ ~ forwards(cfg[i]))

\* Mutant of Converged: the stranger is not probed.
HostOnly(k, cfg, o) ==
    (k = "traefik" => (managedRouterLive(cfg, o.host) <=> o.verb = "expose"))
    /\ (k = "nginx" => (probeHost(cfg, o.host) <=> o.verb = "expose"))

\* routersMatch for Traefik; for nginx the host and a stranger to be denied.
Converged(k, cfg, o) ==
    /\ k = "traefik" => (managedRouterLive(cfg, o.host) <=> o.verb = "expose")
    /\ k = "nginx" => /\ probeHost(cfg, o.host) <=> o.verb = "expose"
                      /\ ~ probeHost(cfg, Stranger)

\* The poll ends when the daemon converges, or at its deadline.
Verify ==
    /\ pc = "verify"
    /\ LET live == Read(kind, file)
           good == verifyFile(op, change, live)
       IN \/ /\ good /\ probed /\ Converged(kind, running, op)
             /\ pc' = "idle"
             /\ report' = [result |-> "verified", host |-> op.host]
          \/ /\ good /\ ~ probed
             /\ pc' = "idle"
             /\ report' = [result |-> "unconfirmed", host |-> op.host]
          \/ /\ ~ good \/ (probed /\ ~ Converged(kind, running, op))
             /\ pc' = "undo" /\ UNCHANGED report
    /\ UNCHANGED <<kind, probed, file, running, pending, op, change, snap, before,
                   edits, runs, got, seen>>

\* The compensator applies the inverse change to the file as it is now.
Undo ==
    /\ pc = "undo"
    /\ LET c == invertChange(change, snap)
       IN /\ file' = IF WriteRefused(kind, file, c) THEN file ELSE Written(kind, file, c)
          /\ \/ /\ ~ ApplyFails(kind, file') /\ ~ WriteRefused(kind, file, c)
                /\ pending' = (pending \/ LoadAsked(kind))
                /\ report' = [result |-> "rolled_back", host |-> op.host]
             \/ /\ ApplyFails(kind, file') \/ ReloadMayFail(kind)
                   \/ WriteRefused(kind, file, c)
                /\ report' = [result |-> "rollback_failed", host |-> op.host]
                /\ UNCHANGED pending
    /\ pc' = "idle"
    /\ UNCHANGED <<kind, probed, running, op, change, snap, before, edits, runs,
                   got, seen>>

\* import, confirmed for one host: the route is read, unmarked, and dials the
\* configured origin.  Adopt only rewrites the file.
ImportCandidate(live, h) ==
    /\ LiveHasHost(live, h) /\ ~ live.generator
    /\ ~ FirstRoute(live, h).managed
    /\ FirstRoute(live, h).to = Origin[h]

Adopted(k, f, h) ==
    IF k = "nginx" THEN {adoptNginx(f, {h})} ELSE adoptTraefik(f, {h})

Import(h) ==
    /\ pc = "idle" /\ runs < MaxRuns /\ kind # "npm"
    /\ ImportCandidate(Read(kind, file), h)
    /\ runs' = runs + 1 /\ before' = file /\ op' = NoOp
    /\ \E f \in Adopted(kind, file, h) :
          IF kind = "traefik" /\ ~ validate(f)
          THEN /\ report' = [result |-> "nothing", host |-> h]
               /\ UNCHANGED <<file, pending>>
          ELSE /\ file' = f /\ pending' = (pending \/ kind = "traefik")
               /\ report' = [result |-> IF /\ managedRoute(Read(kind, f), h)
                                           /\ LiveReachable(Read(kind, f), h)
                                        THEN "imported" ELSE "import_failed",
                             host |-> h]
    /\ UNCHANGED <<kind, probed, running, pc, change, snap, edits, got, seen>>

-----------------------------------------------------------------------------
(***************************************************************************)
(* The operator, NPM and the API reader.                                   *)
(***************************************************************************)
Pasted(k, f, s) ==
    IF k = "nginx" THEN Append(f, s)
    ELSE [f EXCEPT !.routers = Over(s.routers, @), !.services = Over(s.services, @),
                   !.tcp = Over(s.tcp, @), !.defs = @ \/ s.defs]

\* The operator pastes a snippet that loads, and reloads the daemon.
Edit ==
    /\ pc = "idle" /\ edits < MaxEdits /\ kind # "npm"
    /\ \E s \in Snippets[kind] :
          /\ Loads(kind, Pasted(kind, file, s))
          /\ file' = Pasted(kind, file, s)
    /\ edits' = edits + 1 /\ pending' = TRUE
    /\ before' = file' /\ report' = NoReport /\ op' = NoOp
    /\ UNCHANGED <<kind, probed, running, pc, change, snap, runs, got, seen>>

\* A save in the NPM interface regenerates the tree.
Regenerate ==
    /\ kind = "npm" /\ edits < MaxEdits
    /\ file' \in StartFiles["npm"] /\ running' = file' /\ before' = file'
    /\ edits' = edits + 1
    /\ UNCHANGED <<kind, probed, pending, pc, op, change, snap, report, runs, got, seen>>

\* One GET of the API reader.
Fetch ==
    /\ kind = "traefik" /\ Cardinality(DOMAIN got) < Len(Endpoints)
    /\ LET ep == Endpoints[Cardinality(DOMAIN got) + 1]
       IN got' = Over(got, [x \in {ep} |-> ApiAnswer(running, ep)])
    /\ seen' = seen \cup {running}
    /\ UNCHANGED <<kind, probed, file, running, pending, pc, op, change, snap, before,
                   report, edits, runs>>

ApiRead == Cardinality(DOMAIN got) = Len(Endpoints)

Next ==
    \/ \E o \in Ops : Start(o) \/ Kill(o)
    \/ \E h \in Hosts : Import(h)
    \/ Load \/ Restart \/ Verify \/ Undo \/ Edit \/ Regenerate \/ Fetch

Spec == Init /\ [][Next]_vars

-----------------------------------------------------------------------------
(***************************************************************************)
(* Properties.                                                             *)
(***************************************************************************)
\* Every driver writes a file its own reader can read back, whatever it started
\* from, and the state of an invocation stays well formed.
TypeOK ==
    /\ kind \in Kinds /\ probed \in BOOLEAN
    /\ IsFile(kind, file) /\ IsFile(kind, before)
    /\ running # Down => IsFile(kind, running)
    /\ pending \in BOOLEAN
    /\ pc \in {"idle", "verify", "undo"} /\ op \in Ops \cup {NoOp}
    /\ change \in Change /\ snap \in LiveState
    /\ report.host \in Hosts \cup {Nothing}
    /\ edits \in 0 .. MaxEdits /\ runs \in 0 .. MaxRuns

\* Shapes that answer a stranger under a reported default-deny: an acknowledged
\* vhost, for which the operator vouches; a denying server_name _ that is no
\* default server (in a tree too); and a host-less router to a service that is no
\* plain load balancer (see ReadTruthfully below).
Legible(k, f) ==
    CASE k = "nginx" -> \A i \in DOMAIN f : ~ f[i].ack /\ f[i].default # "underscore"
      [] k = "traefik" -> \A n \in DOMAIN f.services : f.services[n].shape # "weighted"
      [] OTHER -> \A t \in f : t.block.default # "underscore"

\* A default-deny reported ENFORCED is true of the config that was read: no port
\* hands a host that nobody configured to a backend, through the implicit
\* default server of nginx, a host-less Traefik router, or a file of the tree
\* that was not read (normalize in both drivers, ReadLiveState of the tree).
EnforcedIsClosed ==
    /\ DenyState(Read(kind, file)) = "enforced"
    /\ Legible(kind, file)
    => ~ Answers(kind, file, Stranger)

\* The same of any Traefik config, nothing excepted: a host-less router that is
\* not counted as unparsed forwards nothing (normalize).
ReadTruthfully ==
    kind = "traefik" /\ DenyState(Read(kind, file)) = "enforced"
    => ~ Answers(kind, file, Stranger)

NamingBlocks(f, g) == {i \in DOMAIN f : isServer(f[i]) /\ g \in ToSet(f[i].names)}
NamingRouters(c, g) == {n \in DOMAIN c.routers : g \in ToSet(c.routers[n].hosts)}
NamingTcp(c, g) == {n \in DOMAIN c.tcp : g \in c.tcp[n].sni}

\* A router of g that uses no name of crenel's, or is the one crenel renders.
PlainRouter(c, n, g) ==
    \/ n \notin ManagedNames /\ c.routers[n].service \notin ManagedNames
    \/ /\ n = managedRouterID(g)
       /\ \E a \in {"none", "named", "detected"} :
             c.routers[n] = ManagedRouter([host |-> g, auth |-> a])
       /\ hasUpstream(c.services, n)

PlainTcp(c, n, g) == n \in TcpNames => n = tcpRouterID(g) /\ c.tcp[n].sni = {g}

\* g is configured in one way only, and crenel's marker on it, if any, is on a
\* block or router that crenel rendered: an adopted one is rendered again
\* from what the reader kept of it.
Plain(k, f, g) ==
    IF k = "nginx"
    THEN \E i \in DOMAIN f :
            /\ NamingBlocks(f, g) = {i}
            /\ f[i].marker # "none" => f[i] = ManagedBlock(BlockRoute(f[i]))
    ELSE /\ \/ /\ NamingTcp(f, g) = {}
               /\ \E n \in DOMAIN f.routers : NamingRouters(f, g) = {n} /\ PlainRouter(f, n, g)
            \/ /\ NamingRouters(f, g) = {}
               /\ \E n \in DOMAIN f.tcp : NamingTcp(f, g) = {n} /\ PlainTcp(f, n, g)
         /\ f.defs => DefsElsewhere

\* What reaches g on the ports, or through the routers, that name it; elsewhere
\* the default server or a host-less router answers, and closing that is the
\* point of a write.
OwnAnswers(k, f, g) ==
    {a \in Serves(k, f, g) :
        IF k = "nginx" THEN \E i \in NamingBlocks(f, g) : f[i].port = a.port
        ELSE \/ \E n \in NamingRouters(f, g) : Enabled(f, n)
             \/ \E n \in NamingTcp(f, g) : f.tcp[n].to # Nothing}

\* A write or a compensation for one host leaves every other host answered as
\* it was: same backend, same gate.  Apply rewrites the whole file to change
\* one block, and renders every block that carries its marker again.
OthersKept ==
    [][(pc = "undo" \/ (runs' # runs /\ op' # NoOp)) =>
          \A g \in Hosts \ {op'.host} :
              Plain(kind, file, g) => OwnAnswers(kind, file', g) = OwnAnswers(kind, file, g)
      ]_vars

Imported == runs' # runs /\ report'.result \in {"imported", "import_failed"}

\* Each host has one router and each router its own service; crenel's router of
\* a host names it, and crenel's services are those of its routers.
Orderly(c) ==
    /\ \A m, n \in DOMAIN c.routers :
          m # n => /\ c.routers[m].service # c.routers[n].service
                   /\ ToSet(c.routers[m].hosts) \cap ToSet(c.routers[n].hosts) = {}
    /\ \A h \in Hosts : managedRouterID(h) \in DOMAIN c.routers
                           => managedRouterID(h) \in NamingRouters(c, h)
    /\ \A n \in DOMAIN c.routers :
          c.routers[n].service \in ManagedNames => c.routers[n].service = n
    /\ DOMAIN c.services \cap ManagedNames \subseteq DOMAIN c.routers
    /\ c.defs => DefsElsewhere

\* Import changes ownership only: an orderly config answers every host as before.
ImportChangesNothing ==
    [][Imported =>
          \A g \in Hosts :
              (kind = "traefik" => Orderly(file))
              => Serves(kind, file', g) = Serves(kind, file, g)
      ]_vars

\* Import never takes a host down, on any file.
ImportTakesNothingDown ==
    [][Imported =>
          \A g \in Hosts : Answers(kind, file, g) => Answers(kind, file', g)]_vars

\* What is about h is crenel's and dials the origin of h.
Solitary(k, f, h) ==
    IF k = "nginx"
    THEN \A i \in NamingBlocks(f, h) : f[i].marker # "none" /\ f[i].to = Origin[h]
    ELSE /\ NamingRouters(f, h) = DOMAIN f.routers \cap {managedRouterID(h)}
         /\ \A n \in NamingRouters(f, h) :
               Enabled(f, n) => f.services[f.routers[n].service].to = Origin[h]
         /\ \A n \in NamingTcp(f, h) : n = tcpRouterID(h) /\ f.tcp[n].to = Origin[h]
         /\ \A n \in DOMAIN f.routers : ~ hostless(f.routers[n])

\* A change reported verified is a fact about the daemon, not about the file:
\* the host answers from its origin, or does not answer, in what runs now; and
\* once the written file runs, it answers with the gate that was asked for.  The
\* daemon may load late, miss the change, or have come back from a truncated
\* file.  The probe of Traefik does not look at TCP routers, and the middleware
\* of the gate must be defined where no write drops it.
VerifiedIsLive ==
    /\ report.result = "verified" /\ running # Down
    /\ Solitary(kind, file, report.host) /\ Solitary(kind, running, report.host)
    /\ kind = "traefik" => /\ op.auth = "named" => DefsElsewhere
                           /\ op.verb = "unexpose" => NamingTcp(running, report.host) = {}
    => LET port == IF kind = "nginx" THEN ListenPort ELSE 443
           own  == {a \in Serves(kind, running, report.host) : a.port = port}
       IN IF op.verb = "expose"
          THEN /\ \E a \in own : a.to = Origin[report.host]
               /\ running = file /\ op.mode = "http" =>
                     own = {[port |-> port, to |-> Origin[report.host],
                             gate |-> IF op.auth = "named" THEN "request" ELSE "none",
                             paths |-> FALSE]}
          ELSE own = {}

\* A compensated change leaves every host answered by the file as before it.  A
\* hand-written block of the host itself is left alone and copied to crenel's
\* port, which is a new answer when it was on another one.
RollbackRestores ==
    report.result = "rolled_back" =>
        \A g \in Hosts :
            /\ OwnAnswers(kind, before, g) # {} /\ Plain(kind, before, g)
            /\ g = report.host /\ kind = "nginx" =>
                  \A i \in NamingBlocks(before, g) :
                      before[i].marker = "none" => before[i].port = ListenPort
            => OwnAnswers(kind, file, g) = OwnAnswers(kind, before, g)

\* A host that answered through a router at every moment of an API read is a
\* route of the result, or the result declares that it is incomplete, although
\* the five answers may come from different configs.
NothingUnread ==
    ApiRead =>
        \A g \in Hosts :
            (\A c \in seen : \E n \in NamingRouters(c, g) : Enabled(c, n))
            => LiveHasHost(normalizeAPI(got), g) \/ normalizeAPI(got).unparsed # {}
=============================================================================
