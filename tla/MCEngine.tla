------------------------------ MODULE MCEngine ------------------------------
(***************************************************************************)
(* Instances of module Engine for TLC: up to two edges (front and home),   *)
(* up to two DNS providers (lan and cf), one or two hosts.  The .cfg files *)
(* pick one definition below for each constant.                            *)
(***************************************************************************)
EXTENDS EngineProperties, TLC

CONSTANTS front, home, lan, cf, app, blog, own, alien

-----------------------------------------------------------------------------
\* Wiring.  front is the chain front of home, or both are independent.
Position == [t \in Targets |-> IF t \in {front, lan} THEN 1 ELSE 2]

ChainFronts == [e \in Edges |-> IF e = home THEN Hosts ELSE {}]
AllFronts == [e \in Edges |-> Services]

ChainDown == [e \in Edges |-> IF e = front THEN home ELSE NoEdge]
NoDown == [e \in Edges |-> NoEdge]

Scopes == [p \in Providers |-> IF p = cf THEN "public" ELSE "internal"]

CoverAll == [p \in Providers |-> Hosts]
CoverNone == [p \in Providers |-> {}]

Kinds(f, h) == [e \in Edges |-> IF e = front THEN f ELSE h]
CaddyNginx == Kinds("caddy", "nginx")
CaddyTraefik == Kinds("caddy", "traefik")
CaddyCaddy == Kinds("caddy", "caddy")
DurableNginx == Kinds("caddy_durable", "nginx")

DnsKinds(i, p) == [d \in Providers |-> IF d = cf THEN p ELSE i]
SplitCloudflare == DnsKinds("split", "cloudflare")
SplitDnscontrol == DnsKinds("split", "dnscontrol")

OwnTarget == [p \in Providers |-> own]

-----------------------------------------------------------------------------
\* Operations.
Request(v, h, g, s, auth) ==
    [verb |-> v, host |-> h, old |-> g, service |-> s,
     scopes |-> {}, edges |-> {}, auth |-> auth]

Expose(h, auth) == Request("expose", h, h, h, auth)
Unexpose(h) == Request("unexpose", h, h, h, "none")
Rename(g, h) == Request("rename", h, g, NoService, "none")

RenameOnly == {Rename(app, blog)}
Both == {Expose(app, "none"), Unexpose(app)}
BothAuth == Both \cup {Expose(app, "named")}
Narrowed == Both \cup {[Expose(app, "none") EXCEPT !.scopes = {"internal"}],
                       [Expose(app, "none") EXCEPT !.scopes = {"public"}],
                       [Expose(app, "none") EXCEPT !.edges = {home}]}
Renames == {Rename(app, blog), Rename(blog, app)}
PersistOps == {Expose(app, "none"), Expose(app, "named"), Unexpose(app), Unexpose(blog)}

RenamesAndPersists == Renames \cup PersistOps

-----------------------------------------------------------------------------
\* Live states.
Owned(w) ==
    [mode |-> "http", dial |-> "origin", auth |-> "none", tls |-> FALSE, owner |-> w]

\* An edge whose daemon runs what its config says.
LiveEdge(e, m, o, d) ==
    LET s == [mine |-> m, other |-> o, first |-> IF AdminEdge(e) THEN "mine" ELSE "other",
              deny |-> d, wedged |-> FALSE, loaded |-> {},
              disk |-> IF AdminEdge(e) THEN o ELSE NoRoutes, region |-> {}]
    IN  Load(e, s)

EmptyEdge(e) == LiveEdge(e, NoRoutes, NoRoutes, TRUE)
Table(h, r) == [g \in Hosts |-> IF g = h THEN r ELSE NoRoute]

\* The states of an edge as far as host h goes.
EdgeStates(e, h, owners) ==
    {EmptyEdge(e), LiveEdge(e, Table(h, Owned("crenel")), NoRoutes, TRUE)}
    \cup {LiveEdge(e, NoRoutes, Table(h, Owned(w)), TRUE) : w \in owners}

Empty == [h \in Hosts |-> NoRecord]
Holding(v, o) == [h \in Hosts |-> [value |-> v, ours |-> o]]

ZoneStates(p) ==
    IF DnsKind[p] = "cloudflare"
    THEN {Empty, Holding(own, TRUE), Holding(alien, TRUE), Holding(alien, FALSE)}
    ELSE {Empty, Holding(own, TRUE), Holding(alien, FALSE)}

Worlds(edges(_), zones(_)) ==
    {w \in [edge : [Edges -> UNION {edges(e) : e \in Edges}],
            zone : [Providers -> UNION {zones(p) : p \in Providers}]] :
        /\ \A e \in Edges : w.edge[e] \in edges(e)
        /\ \A p \in Providers : w.zone[p] \in zones(p)}

\* Nothing is exposed yet.
BareEdges(e) == {EmptyEdge(e)}
BareZones(p) == {Empty}
Bare == Worlds(BareEdges, BareZones)

\* Nothing, or everything, is exposed by crenel.
OwnEdges(e) == EdgeStates(e, app, {})
OwnZones(p) == {Empty, Holding(own, TRUE)}
OwnWorlds == Worlds(OwnEdges, OwnZones)

\* Routes and records of every owner.
MixedEdges(e) == EdgeStates(e, app, {"unmanaged", "foreign", "unknown"})
MixedWorlds == Worlds(MixedEdges, ZoneStates)

\* Persisting: app and blog are each absent, crenel's, in crenel's region of
\* the boot config, or in the operator's part of it.
PersistEdge(e, m, r, o) ==
    LET file == [h \in Hosts |-> IF h \in r \cup o THEN Owned("unmanaged") ELSE NoRoute]
    IN  [LiveEdge(e, [h \in Hosts |-> IF h \in m THEN Owned("crenel") ELSE NoRoute], file, TRUE)
            EXCEPT !.region = IF EdgeKind[e] = "caddy_durable" THEN r ELSE {}]
PersistEdges(e) ==
    {PersistEdge(e, t[1], t[2], t[3]) :
        t \in {u \in (SUBSET Hosts) \X (SUBSET Hosts) \X (SUBSET Hosts) :
                u[1] \cap u[2] = {} /\ u[1] \cap u[3] = {} /\ u[2] \cap u[3] = {}}}
PersistWorlds == Worlds(PersistEdges, BareZones)

\* The name app is routed on some of the edges.
RenameEdges(e) ==
    MixedEdges(e) \cup EdgeStates(e, blog, {"foreign"})
    \cup {LiveEdge(e, Table(app, [Owned("crenel") EXCEPT !.auth = "named"]), NoRoutes, TRUE)}
RenameWorlds == Worlds(RenameEdges, BareZones)
BothWorlds == RenameWorlds \cup PersistWorlds
=============================================================================
