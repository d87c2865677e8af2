------------------------------ MODULE MCConverge ------------------------------
(***************************************************************************)
(* Instances of module Converge: a Caddy front and a Traefik               *)
(* edge at home, a split-horizon and a public provider, two services and   *)
(* the zone's wildcard.  app is served at home and relayed by the front,   *)
(* blog is served by both edges.                                           *)
(***************************************************************************)
EXTENDS Converge, TLC

CONSTANTS front, home, lan, cf, app, blog, star, own, alien

Position == [t \in Targets |-> IF t \in {front, lan} THEN 1 ELSE 2]
BothServeBlog == [e \in Edges |-> IF e = home THEN {app, blog} ELSE {blog}]
ChainDown == [e \in Edges |-> IF e = front THEN home ELSE NoEdge]
Scopes == [p \in Providers |-> IF p = cf THEN "public" ELSE "internal"]
CoverAll == [p \in Providers |-> Hosts]
CaddyTraefik == [e \in Edges |-> IF e = front THEN "caddy" ELSE "traefik"]
SplitCloudflare == [p \in Providers |-> IF p = cf THEN "cloudflare" ELSE "split"]
OwnTarget == [p \in Providers |-> own]

-----------------------------------------------------------------------------
Exposing(h, auth) == [host |-> h, mode |-> "http", auth |-> auth, edges |-> {}, scopes |-> {}]
Applying(f, a, p) == [verb |-> "apply", file |-> f, adopt |-> a, prune |-> p]
Reconcile == [verb |-> "reconcile", file |-> {}, adopt |-> FALSE, prune |-> FALSE]

AllRuns == {Reconcile,
            Applying({Exposing(app, "none")}, TRUE, TRUE),
            Applying({Exposing(app, "named"), Exposing(blog, "none")}, TRUE, FALSE)}

-----------------------------------------------------------------------------
R(m, d, a, w) == [mode |-> m, dial |-> d, auth |-> a, tls |-> FALSE, owner |-> w]
Mine(a) == R("http", "origin", a, "crenel")
Relay == R("http", "downstream", "none", "crenel")

\* a, b and s: the routes of app, blog and the wildcard.
Edge(e, a, b, s) ==
    LET T(own_) == [h \in Hosts |->
            LET r == CASE h = app -> a [] h = blog -> b [] OTHER -> s
            IN  IF r # NoRoute /\ (r.owner = "crenel") = own_ THEN r ELSE NoRoute]
        st == [mine |-> T(TRUE), other |-> T(FALSE), deny |-> TRUE, wedged |-> FALSE,
               first |-> IF AdminEdge(e) THEN "mine" ELSE "other",
               loaded |-> {}, disk |-> NoRoutes, region |-> {}]
    IN  Load(e, st)

FrontEdges ==
    {Edge(front, a, b, s) : a \in {NoRoute, Relay},
                            b \in {NoRoute, R("tcp", "origin", "none", "crenel")},
                            s \in {NoRoute, R("http", "downstream", "none", "unmanaged"),
                                   R("http", "elsewhere", "none", "unmanaged")}}
HomeEdges ==
    {Edge(home, a, b, NoRoute) : a \in {NoRoute, Mine("named"), R("http", "origin", "none", "unmanaged"),
                                        R("http", "origin", "none", "foreign")},
                                 b \in {NoRoute, Mine("named"), R("http", "origin", "none", "unmanaged"),
                                        R("tcp", "origin", "none", "unmanaged")}}

Rec(v, o) == [value |-> v, ours |-> o]
Records(a, b, s) == [h \in Hosts |-> CASE h = app -> a [] h = blog -> b [] OTHER -> s]

LanZones == {Records(t[1], NoRecord, t[2]) :
                t \in {<<NoRecord, NoRecord>>, <<Rec(alien, FALSE), NoRecord>>, <<NoRecord, Rec(own, FALSE)>>}}
CfZones == {Records(t[1], t[2], NoRecord) :
                t \in {<<NoRecord, NoRecord>>, <<Rec(own, FALSE), NoRecord>>,
                       <<NoRecord, Rec(own, TRUE)>>, <<Rec(alien, TRUE), Rec(own, TRUE)>>}}

Worlds == {[edge |-> [e \in Edges |-> IF e = front THEN f ELSE h],
            zone |-> [p \in Providers |-> IF p = lan THEN l ELSE c]] :
              f \in FrontEdges, h \in HomeEdges, l \in LanZones, c \in CfZones}

=============================================================================
