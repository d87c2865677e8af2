----------------------------- MODULE EdgeDrivers -----------------------------
(***************************************************************************)
(* The edge drivers behind ports.EdgeProvider, as far as the engine's      *)
(* transaction can tell them apart: what each one reads, plans, writes and *)
(* probes (internal/drivers/edge/{caddy,nginx,traefik}).                   *)
(*                                                                         *)
(*   "caddy"          admin API, granular apply, no persist path           *)
(*   "caddy_durable"  the same with a persist path (flat Caddyfile region) *)
(*   "nginx"          config file, test + reload commands when Probed      *)
(*   "traefik"        dynamic config file the daemon watches               *)
(*                                                                         *)
(* Of a route's address only what crenel compares it with is kept: the     *)
(* service's own origin, the downstream edge, or something else.           *)
(***************************************************************************)
EXTENDS Topology

CONSTANTS
    EdgeKind,       \* edge -> the driver that serves it
    Probed,         \* file edges whose daemon crenel can reload and probe
    AuthCapable,    \* edges that can render a named forward-auth policy
    Generated,      \* edges whose whole config a generator owns
    ForceUnknown,   \* Engine.Force: touch routes of unknown ownership
    NoRoute

Route == [mode  : {"http", "tcp"},
          dial  : {"origin", "downstream", "elsewhere"},
          auth  : {"none", "named", "detected"},
          tls   : BOOLEAN,
          owner : {"crenel", "unmanaged", "foreign", "unknown"}]

RouteTable == [Hosts -> Route \cup {NoRoute}]

ASSUME EdgeDriverAssumption ==
    /\ EdgeKind \in [Edges -> {"caddy", "caddy_durable", "nginx", "traefik"}]
    /\ Probed \subseteq {e \in Edges : EdgeKind[e] \in {"nginx", "traefik"}}
    /\ AuthCapable \subseteq Edges
    /\ Generated \subseteq Edges
    /\ ForceUnknown \in BOOLEAN
    /\ NoRoute \notin Route

NoRoutes == [h \in Hosts |-> NoRoute]

AdminEdge(e) == EdgeKind[e] \in {"caddy", "caddy_durable"}
FileEdge(e) == ~ AdminEdge(e)

(***************************************************************************)
(* One edge's live state.  mine holds the routes that carry crenel's       *)
(* marker (Caddy @id, nginx comment, Traefik crenel-* key), other every    *)
(* route that does not; first says which of the two a read lists first     *)
(* (Caddy inserts its own at index 0, nginx renders the others first,      *)
(* Traefik sorts by name).  loaded is what the daemon of a file edge       *)
(* serves; disk is the boot config of an admin-API edge and region the     *)
(* hosts of crenel's sentinel region in it.                                *)
(***************************************************************************)
EdgeState == [mine   : RouteTable,
              other  : RouteTable,
              first  : {"mine", "other"},
              deny   : BOOLEAN,
              wedged : BOOLEAN,
              loaded : SUBSET Hosts,
              disk   : RouteTable,
              region : SUBSET Hosts]

OrElse(r1, r2) == IF r1 # NoRoute THEN r1 ELSE r2

\* The first route for h in read order.
findRoute(s, h) ==
    IF s.first = "mine" THEN OrElse(s.mine[h], s.other[h]) ELSE OrElse(s.other[h], s.mine[h])

\* The last one: the index of owners by host keeps it.
ownershipByHost(s, h) ==
    IF s.first = "mine" THEN OrElse(s.other[h], s.mine[h]) ELSE OrElse(s.mine[h], s.other[h])

\* A route the refuse-to-manage gate stops at (gate.go).
OwnerRefuses(r) ==
    r # NoRoute /\ (r.owner = "foreign" \/ (r.owner = "unknown" /\ ~ ForceUnknown))

HasHost(s, h) == findRoute(s, h) # NoRoute

Reachable(s, h) == s.deny /\ HasHost(s, h)

RoutedHosts(s) == {h \in Hosts : HasHost(s, h)}

\* What the data plane of edge e answers for.
Served(e, s) == IF FileEdge(e) THEN s.loaded ELSE RoutedHosts(s)

-----------------------------------------------------------------------------
(***************************************************************************)
(* EdgeChange: routes to add and hosts to remove.                          *)
(***************************************************************************)
EdgeChange == [add : RouteTable, remove : SUBSET Hosts]

NoEdgeChange == [add |-> NoRoutes, remove |-> {}]

AddedHosts(c) == {h \in Hosts : c.add[h] # NoRoute}

touchedHosts(c) == AddedHosts(c) \cup c.remove

EmptyEdgeChange(c) == touchedHosts(c) = {}

Add(h, r) == [add |-> [NoRoutes EXCEPT ![h] = r], remove |-> {}]
Remove(h) == [add |-> NoRoutes, remove |-> {h}]

TerminalRoute(o) ==
    [mode |-> "http", dial |-> "origin", auth |-> o.auth, tls |-> FALSE, owner |-> "crenel"]

forwardRoute(e) ==
    [mode |-> "http", dial |-> "downstream", auth |-> "none",
     tls |-> e \in DownstreamTLS, owner |-> "crenel"]

\* Driver.Plan of a terminal edge, planForward of a chain front.
EdgePlan(o, e, s) ==
    IF o.verb = "expose" /\ ~ HasHost(s, o.host)
    THEN Add(o.host, IF roleFor(e, o.service) = "terminal"
                     THEN TerminalRoute(o) ELSE forwardRoute(e))
    ELSE IF o.verb = "unexpose" /\ HasHost(s, o.host)
    THEN Remove(o.host)
    ELSE NoEdgeChange

\* The plan of one edge fails: a policy the driver cannot render, or a front
\* with no address to dial.
EdgePlanError(o, e, s) ==
    \/ roleFor(e, o.service) = "terminal" /\ o.auth = "named" /\ e \notin AuthCapable
    \/ /\ roleFor(e, o.service) = "forward" /\ o.verb = "expose"
       /\ ~ HasHost(s, o.host) /\ e \notin DownstreamAddress

\* PlanRename: the source route under the new name, the old name removed.
RenameRoute(o, s) == [findRoute(s, o.old) EXCEPT !.owner = "crenel"]

RenamePlan(o, s) ==
    [add |-> [NoRoutes EXCEPT ![o.host] = RenameRoute(o, s)], remove |-> {o.old}]

\* Mutant of invertEdge: the compensator forgets what the change removed.
UndoAddsOnly(c, snap) == [add |-> NoRoutes, remove |-> AddedHosts(c)]

\* The compensating change, built against the pre-apply snapshot.
invertEdge(c, snap) ==
    [add    |-> [h \in Hosts |-> IF h \in c.remove THEN findRoute(snap, h) ELSE NoRoute],
     remove |-> AddedHosts(c)]

-----------------------------------------------------------------------------
(***************************************************************************)
(* Apply.                                                                  *)
(***************************************************************************)
\* Mutant of Render: the forward-auth policy is not written.
RenderUngated(e, r) ==
    [r EXCEPT !.auth = "none", !.tls = r.tls /\ AdminEdge(e), !.owner = "crenel"]

\* What the driver writes for a planned route: its own marker, and the TLS hop
\* only where the renderer knows it (Caddy).
Render(e, r) == [r EXCEPT !.tls = r.tls /\ AdminEdge(e), !.owner = "crenel"]

\* Caddy refuses to insert a route whose gate it cannot name.
CannotRender(e, c) ==
    AdminEdge(e) /\ \E h \in AddedHosts(c) : c.add[h].auth = "detected"

\* Removing deletes crenel's own entry.  Only a durable Caddy edge goes on to
\* sweep an unmarked route for the host, and only when it had no own entry.
Write(e, s, c) ==
    [s EXCEPT
        !.mine = [h \in Hosts |->
            IF c.add[h] # NoRoute THEN Render(e, c.add[h])
            ELSE IF h \in c.remove THEN NoRoute
            ELSE s.mine[h]],
        !.other = [h \in Hosts |->
            IF /\ EdgeKind[e] = "caddy_durable"
               /\ h \in c.remove /\ s.mine[h] = NoRoute
            THEN NoRoute
            ELSE s.other[h]],
        !.deny = s.deny \/ EdgeKind[e] = "nginx"]

\* The daemon of a file edge picks up the file; a no-op elsewhere.
Load(e, s) == IF FileEdge(e) THEN [s EXCEPT !.loaded = RoutedHosts(s)] ELSE s

\* Traefik watches its file, nginx is reloaded only through a runtime config.
SelfLoading(e) == EdgeKind[e] = "traefik" \/ (EdgeKind[e] = "nginx" /\ e \in Probed)

\* A call that works: the state it leaves and whether it reports an error.
Nominal(e, s, c) ==
    IF s.wedged \/ CannotRender(e, c)
    THEN [s |-> s, err |-> TRUE]
    ELSE [s   |-> IF SelfLoading(e) THEN Load(e, Write(e, s, c)) ELSE Write(e, s, c),
          err |-> FALSE]

(***************************************************************************)
(* The ways a call goes wrong.  "err": refused, nothing changed.           *)
(* "landed": the write took effect and the call still reports an error     *)
(* (Caddy: the settle probe after the reload fails, leaving the admin API  *)
(* wedged or not; nginx: the file is written, then nginx -t or the reload  *)
(* fails).  "partial": of a Caddy change with adds and removes only the    *)
(* adds landed.  "silent": success reported, nothing changed.  "stale":    *)
(* the file is written and the daemon keeps serving the old config.        *)
(***************************************************************************)
Faulty(e, s, c, kinds) ==
    (IF "err" \in kinds THEN {[s |-> s, err |-> TRUE]} ELSE {})
    \cup (IF "landed" \in kinds /\ ~ s.wedged /\ ~ CannotRender(e, c)
                /\ EdgeKind[e] # "traefik"
          THEN {[s |-> [Write(e, s, c) EXCEPT !.wedged = w], err |-> TRUE] :
                    w \in {b \in BOOLEAN : b => AdminEdge(e)}}
          ELSE {})
    \cup (IF /\ "partial" \in kinds /\ ~ s.wedged /\ ~ CannotRender(e, c)
             /\ AdminEdge(e) /\ c.remove # {} /\ AddedHosts(c) # {}
          THEN {[s |-> Write(e, s, [c EXCEPT !.remove = {}]), err |-> TRUE]}
          ELSE {})
    \cup (IF "silent" \in kinds /\ AdminEdge(e) /\ ~ s.wedged
          THEN {[s |-> s, err |-> FALSE]} ELSE {})
    \cup (IF "stale" \in kinds /\ FileEdge(e)
          THEN {[s |-> Write(e, s, c), err |-> FALSE]} ELSE {})

-----------------------------------------------------------------------------
(***************************************************************************)
(* Read-back.                                                              *)
(***************************************************************************)
verifyEdgeAuth(s, c) ==
    \A h \in AddedHosts(c) : /\ HasHost(s, h)
                             /\ findRoute(s, h).auth = c.add[h].auth

verifyEdgeForwardTLS(s, c) ==
    \A h \in AddedHosts(c) : c.add[h].tls => HasHost(s, h) /\ findRoute(s, h).tls

verifyEdgeHost(o, s) ==
    IF o.verb = "expose" THEN Reachable(s, o.host) ELSE ~ HasHost(s, o.host)

\* Mutant of verifyEdgeRename: only the new name is read back.
NewNameReachable(s, c) == \A h \in AddedHosts(c) : Reachable(s, h)

verifyEdgeRename(s, c) ==
    /\ \A h \in AddedHosts(c) : Reachable(s, h)
    /\ \A h \in c.remove : ~ HasHost(s, h)

\* Mutant of VerifyRuntime: only added hosts are probed.
ProbeAddsOnly(o, e, s, c) ==
    IF e \notin Probed THEN "unavailable"
    ELSE IF \A h \in AddedHosts(c) : h \in s.loaded THEN "confirmed" ELSE "failed"

\* The runtime probe of a file driver.  nginx expects every touched host to be
\* served exactly under expose; Traefik asks for nothing under rename.
VerifyRuntime(o, e, s, c) ==
    IF e \notin Probed THEN "unavailable"
    ELSE IF \A h \in touchedHosts(c) :
              \/ o.verb = "expose" /\ h \in s.loaded
              \/ o.verb = "unexpose" /\ h \notin s.loaded
              \/ /\ o.verb = "rename"
                 /\ EdgeKind[e] = "traefik" \/ h \notin s.loaded
    THEN "confirmed"
    ELSE "failed"

\* One edge's result in Engine.verify.
VerifyEdge(o, e, s, c) ==
    /\ ~ s.wedged
    /\ s.deny
    /\ IF o.verb = "rename" THEN verifyEdgeRename(s, c) ELSE verifyEdgeHost(o, s)
    /\ verifyEdgeAuth(s, c)
    /\ verifyEdgeForwardTLS(s, c)
    /\ FileEdge(e) => VerifyRuntime(o, e, s, c) # "failed"

RuntimeUnconfirmed(o, e, s, c) ==
    FileEdge(e) /\ VerifyRuntime(o, e, s, c) = "unavailable"

-----------------------------------------------------------------------------
(***************************************************************************)
(* Persist of a durable Caddy edge (flat region): the managed routes are   *)
(* written to the sentinel region and Caddy is reloaded from the file.  A  *)
(* Caddyfile block carries neither the @id, nor the policy's name, nor the *)
(* TLS transport.                                                          *)
(***************************************************************************)
\* Mutant of PersistHosts: hosts persisted earlier lost their marker in the
\* reload and are forgotten.
MarkedHosts(s) == {h \in Hosts : s.mine[h] # NoRoute}

PersistHosts(s) == {h \in Hosts : HasHost(s, h) /\ (s.mine[h] # NoRoute \/ h \in s.region)}

\* caddy validate rejects an import of "(detected)" and a second site block for
\* a host the operator's part of the file already declares.
PersistInvalid(s) ==
    \E h \in PersistHosts(s) : \/ findRoute(s, h).auth = "detected"
                               \/ h \notin s.region /\ s.disk[h] # NoRoute

PersistBlocked(s) == s.wedged \/ PersistInvalid(s)

FileRoute(r) == [r EXCEPT !.auth = IF r.auth = "none" THEN "none" ELSE "detected",
                          !.tls = FALSE,
                          !.owner = "unmanaged"]

mergeManagedRegion(s) ==
    [s EXCEPT
        !.disk = [h \in Hosts |-> IF h \in PersistHosts(s) THEN FileRoute(findRoute(s, h))
                                  ELSE IF h \in s.region THEN NoRoute
                                  ELSE s.disk[h]],
        !.region = PersistHosts(s)]

\* Caddy boots, or is reloaded, from its on-disk config.
Boot(s) == [s EXCEPT !.mine = NoRoutes, !.other = s.disk, !.wedged = FALSE]
=============================================================================
