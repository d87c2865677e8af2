------------------------------ MODULE CaddyEdge ------------------------------
(***************************************************************************)
(* The Caddy edge driver against a Caddy admin API                         *)
(* (internal/drivers/edge/caddy/{caddy,types,render,ack_locator}.go, the   *)
(* admin API as caddyfake/fake.go and the driver use it, and core/ack.go,  *)
(* core/triage.go on top).                                                 *)
(*                                                                         *)
(* The live config is a tree of routes.  Every operation is a sequence of  *)
(* admin calls: reads of the whole config, and writes that address a route *)
(* by its @id or by its INDEX PATH in a config read earlier.  Another      *)
(* client of the admin API may write between any two of them.              *)
(*                                                                         *)
(* A hostname's zone is its parent domain; a zone used as a matcher stands *)
(* for the pattern *.zone.  Nesting is bounded at one subroute.            *)
(***************************************************************************)
EXTENDS Naturals, FiniteSets, Sequences, SequencesExt

CONSTANTS
    Hosts,          \* hostnames
    ZoneOf,         \* host -> its zone
    Nodes,          \* the routes an operator has put on the edge
    MaxRoutes,      \* bound: routes of the managed server at the start
    Inserted,       \* the routes other admin clients insert
    Shapes,         \* the rest of an edge's config, see Shape
    Gates,          \* references of the forward-auth policies an expose may name
    Durable,        \* persistPath is set
    Layer4,         \* the edge has the caddy-l4 plugin
    Troubles        \* bound: failed calls and other clients' writes, together

Zones == {ZoneOf[h] : h \in Hosts}
Patterns == Hosts \cup Zones

\* Routes.  handle is the set of handler kinds of a route; where several occur
\* they run in the order subroute, reverse_proxy, static_response.  An @id is
\* crenel's, an acknowledgement's, or the operator's own.
NoId == <<>>
Ids(kinds) == {NoId} \cup (kinds \X (Hosts \cup Seq(Nat)))

Route(kinds, below) ==
    [id : Ids({"route", "ack", "own"}), match : Seq(Patterns), extra : BOOLEAN, handle : SUBSET kinds,
     auth : {"none", "named", "detected"}, tls : BOOLEAN,
     dial : {"none", "origin", "elsewhere"}, subs : below]

SubNode == Route({"proxy", "deny", "other"}, {<<>>})
Node == {n \in Route({"sub", "proxy", "deny", "other"}, Seq(SubNode)) :
            n.subs = <<>> \/ "sub" \in n.handle}

routeID(h) == <<"route", h>>
l4RouteID(h) == <<"l4", h>>
AckId(q) == <<"ack", q>>

IsAck(id) == id # NoId /\ id[1] = "ack"
IsOwned(id) == id # NoId /\ id[1] = "route"

hostMatches(n) == ToSet(n.match)
hasHost(n) == n.match # <<>>
rawRouteHost(n) == IF hasHost(n) THEN n.match[1] ELSE NoId

\* crenel's @id of a host is on a route of that host.
MarkedTruly(n) == IsOwned(n.id) => n.id = routeID(rawRouteHost(n))
TrueNode(n) == n \in Node /\ MarkedTruly(n) /\ \A j \in DOMAIN n.subs : MarkedTruly(n.subs[j])

\* What surrounds the routes of the managed server: a sibling http server, the
\* layer4 app, the admin block, whether crenel applies granularly or by full
\* POST /load, and a bound on the operations of a behaviour.  crenel puts its
\* own routes on the managed server only.
Layer4Route == [id : Ids({"l4", "own"}), sni : Seq(Patterns), proxy : BOOLEAN]

Shape(s) ==
    /\ s.sibling \in Seq(Node) /\ s.l4 \in Seq(Layer4Route)
    /\ \A i \in DOMAIN s.sibling : ~ IsOwned(s.sibling[i].id)
            /\ \A j \in DOMAIN s.sibling[i].subs : ~ IsOwned(s.sibling[i].subs[j].id)
    /\ s.admin \in {"default", "listen", "rich"}
    /\ s.granular \in BOOLEAN
    /\ s.ops \in Nat

ASSUME CaddyAssumption ==
    /\ IsFiniteSet(Hosts) /\ NoId \notin Hosts
    /\ ZoneOf \in [Hosts -> Zones]
    /\ Hosts \cap Zones = {}
    /\ \A n \in Nodes \cup Inserted : TrueNode(n)
    /\ {Durable, Layer4} \subseteq BOOLEAN
    /\ {MaxRoutes, Troubles} \subseteq Nat
    /\ \A s \in Shapes : Shape(s)

VARIABLES
    cfg,        \* the running config: the managed server's routes and a Shape
    job,        \* the crenel operation in flight, or the last one
    jobs,       \* operations started
    troubles,   \* failures and other clients' writes left
    before      \* ghost: the config when the job started

vars == <<cfg, job, jobs, troubles, before>>

-----------------------------------------------------------------------------
(***************************************************************************)
(* What a route matches and does.                                          *)
(***************************************************************************)
isWildcardHost(p) == p \in Zones
wildcardCovers(p, h) == p = ZoneOf[h]
sameZone(p, h) == p \in Hosts /\ ZoneOf[p] = ZoneOf[h]

routeHasExactHost(n, h) == h \in hostMatches(n)
routeWildcardCovers(n, h) == \E p \in hostMatches(n) : wildcardCovers(p, h)

Proxies(n) == "proxy" \in n.handle
HasSub(n) == "sub" \in n.handle
hasDenyHandler(n) == "deny" \in n.handle

routeForwards(n) == Proxies(n) \/ HasSub(n)
serverForwards(s) == \E i \in DOMAIN s : routeForwards(s[i])

-----------------------------------------------------------------------------
(***************************************************************************)
(* ReadLiveState: the tree as a set of understood routes and a set of      *)
(* unparsed entries, each with its locator (server, index path).           *)
(***************************************************************************)
Understood(n, p, m, a, loc) ==
    [host |-> p, managed |-> m, auth |-> a, tls |-> n.tls, dial |-> n.dial, loc |-> loc]

\* An entry the operator has acknowledged keeps its place but stops blocking.
ackAware(n, loc) == [loc |-> loc, acked |-> IsAck(n.id)]

Nothing == [routes |-> {}, unparsed |-> {}, ok |-> FALSE]
Resolved == [Nothing EXCEPT !.ok = TRUE]
Unread(n, loc) == [Nothing EXCEPT !.unparsed = {ackAware(n, loc)}]

Union(R) ==
    [routes   |-> UNION {r.routes : r \in R},
     unparsed |-> UNION {r.unparsed : r \in R},
     ok       |-> \E r \in R : r.ok]

Inherited(a, n) == IF n.auth # "none" THEN n.auth ELSE a

\* collectLeaves at a route with no subroute below it.
collectLeaf(n, p, m, a, loc) ==
    IF n.extra THEN Unread(n, loc)
    ELSE IF Proxies(n)
    THEN [Resolved EXCEPT !.routes =
            {Understood(n, p, m \/ n.id = routeID(p), Inherited(a, n), loc)}]
    ELSE IF hasDenyHandler(n) THEN Resolved
    ELSE Unread(n, loc)

collectLeaves(n, p, loc) ==
    IF n.extra \/ Proxies(n) \/ ~ HasSub(n) THEN collectLeaf(n, p, FALSE, "none", loc)
    ELSE LET below == Union(
                {collectLeaf(n.subs[x[1]], x[2], n.id = routeID(p), n.auth, loc \o <<x[1]>>) :
                    x \in {y \in (DOMAIN n.subs) \X Patterns :
                            IF hasHost(n.subs[y[1]])
                            THEN y[2] \in hostMatches(n.subs[y[1]]) ELSE y[2] = p}})
         IN  IF below.ok \/ below.unparsed # {} THEN [below EXCEPT !.ok = TRUE]
             ELSE Unread(n, loc)

\* A host-less subroute at the top: "deny" when it wraps only denies, "open"
\* when it forwards, "unknown" otherwise.
classifyHostlessSubroute(subs) ==
    LET blank(j) == ~ hasHost(subs[j])
        stop(j) == ~ blank(j) \/ Proxies(subs[j])
    IN  IF \E j \in DOMAIN subs : stop(j)
        THEN LET j == CHOOSE k \in DOMAIN subs : stop(k) /\ \A l \in 1..(k - 1) : ~ stop(l)
             IN  IF blank(j) THEN "open" ELSE "unknown"
        ELSE IF subs # <<>> /\ \A j \in DOMAIN subs : hasDenyHandler(subs[j])
        THEN "deny" ELSE "unknown"

Permissive(n) ==
    /\ ~ hasHost(n)
    /\ \/ Proxies(n)
       \/ ~ hasDenyHandler(n) /\ HasSub(n) /\ classifyHostlessSubroute(n.subs) = "open"

\* A route with no host matcher at the top of a server, when it does not forward.
readHostless(n, loc) ==
    IF \/ Permissive(n) \/ hasDenyHandler(n)
       \/ HasSub(n) /\ classifyHostlessSubroute(n.subs) = "deny"
    THEN Resolved ELSE Unread(n, loc)

normalizeServer(s, key) ==
    Union({IF hasHost(s[i])
           THEN Union({collectLeaves(s[i], p, <<key, i>>) : p \in hostMatches(s[i])})
           ELSE readHostless(s[i], <<key, i>>) : i \in DOMAIN s})

permissiveCatchAll(s) == \E i \in DOMAIN s : Permissive(s[i])

\* Mutant of readSibling: only the configured server is read.
SiblingUnread(s) == Nothing

\* A sibling server that forwards is folded in when all of it is understood,
\* and is one unparsed block otherwise.
readSibling(s) ==
    LET r == normalizeServer(s, "sibling")
    IN  IF ~ serverForwards(s) THEN Nothing
        ELSE IF r.unparsed = {} /\ ~ permissiveCatchAll(s) THEN r
        ELSE [Nothing EXCEPT !.unparsed = {[loc |-> <<"sibling">>, acked |-> FALSE]}]

\* Of a layer4 route the first SNI is read; one without SNI or proxy is skipped.
appendLayer4Routes(c) ==
    {[host |-> c.l4[i].sni[1], managed |-> c.l4[i].id = l4RouteID(c.l4[i].sni[1]),
      auth |-> "none", tls |-> FALSE, dial |-> "tcp", loc |-> <<"l4", i>>] :
        i \in {j \in DOMAIN c.l4 : c.l4[j].sni # <<>> /\ c.l4[j].proxy}}

normalize(c) ==
    LET main == normalizeServer(c.routes, "srv0")
        side == readSibling(c.sibling)
    IN  [routes   |-> appendLayer4Routes(c) \cup main.routes \cup side.routes,
         unparsed |-> main.unparsed \cup side.unparsed,
         deny     |-> ~ permissiveCatchAll(c.routes)]

FullyParsed(l) == \A u \in l.unparsed : u.acked

DenyState(l) ==
    IF ~ l.deny THEN "missing" ELSE IF FullyParsed(l) THEN "enforced" ELSE "unknown"

HasHost(l, h) == \E r \in l.routes : r.host = h

NotUnderstood(l) == {u \in l.unparsed : ~ u.acked}

-----------------------------------------------------------------------------
(***************************************************************************)
(* The admin API (caddyfake): routes addressed by path.  A path is <<i>>,  *)
(* or <<i, j>> below the subroute handler of route i.                      *)
(***************************************************************************)
Routes == cfg.routes
WithRoutes(c, s) == [c EXCEPT !.routes = s]

\* insertAt: an index past the end appends.
insertAt(s, i, n) == InsertAt(s, IF i > Len(s) THEN Len(s) + 1 ELSE i, n)

ValidPath(s, path) ==
    /\ path[1] \in DOMAIN s
    /\ Len(path) = 2 => HasSub(s[path[1]]) /\ path[2] \in DOMAIN s[path[1]].subs

NodeAt(s, path) ==
    IF Len(path) = 1 THEN s[path[1]] ELSE s[path[1]].subs[path[2]]

\* Every addressable route of s.
Paths(s) ==
    {<<i>> : i \in DOMAIN s}
    \cup (UNION {{<<i, j>> : j \in DOMAIN s[i].subs} : i \in {k \in DOMAIN s : HasSub(s[k])}})

\* Caddy's index of @ids is global, and a config in which two nodes carry one
\* @id is rejected.
IdsUnique(s, l4) ==
    \A p \in Paths(s) : NodeAt(s, p).id # NoId =>
        /\ \A q \in Paths(s) \ {p} : NodeAt(s, q).id # NodeAt(s, p).id
        /\ \A i \in DOMAIN l4 : l4[i].id # NodeAt(s, p).id

handlePutRoute(s, path, n) ==
    IF Len(path) = 1 THEN insertAt(s, path[1], n)
    ELSE [s EXCEPT ![path[1]].subs = insertAt(@, path[2], n)]

PutOK(c, path, n) ==
    /\ Len(path) = 1 \/ (path[1] \in DOMAIN c.routes /\ HasSub(c.routes[path[1]]))
    /\ IdsUnique(handlePutRoute(c.routes, path, n), c.l4)

setByPath(s, path, n) ==
    IF Len(path) = 1 THEN [s EXCEPT ![path[1]] = n]
    ELSE [s EXCEPT ![path[1]].subs[path[2]] = n]

PatchOK(c, path, n) ==
    /\ ValidPath(c.routes, path)
    /\ IdsUnique(setByPath(c.routes, path, n), c.l4)

deleteByPath(s, path) ==
    IF Len(path) = 1 THEN RemoveAt(s, path[1])
    ELSE [s EXCEPT ![path[1]].subs = RemoveAt(@, path[2])]

\* p comes before q in a depth-first walk.
Precedes(p, q) ==
    \/ p[1] < q[1]
    \/ p[1] = q[1] /\ Len(p) < Len(q)
    \/ p[1] = q[1] /\ Len(p) = 2 /\ Len(q) = 2 /\ p[2] < q[2]

FirstOf(S) == CHOOSE p \in S : \A q \in S \ {p} : Precedes(p, q)

\* DELETE /id: the first route with the id, anywhere in the tree.
WithId(s, id) == {p \in Paths(s) : NodeAt(s, p).id = id}

-----------------------------------------------------------------------------
(***************************************************************************)
(* Where a route is inserted and found.                                    *)
(***************************************************************************)
\* A policy renders as JSON when it names a handler blob, or an authorizer with
\* its verify URI; a Caddyfile snippet, or an authorizer without one, does not.
authGate(g) == g \in {"handler", "endpoint"}

InsertedRoute(h, g) ==
    [id |-> routeID(h), match |-> <<h>>, extra |-> FALSE, handle |-> {"proxy"},
     auth |-> IF g = "none" THEN "none" ELSE "named", tls |-> FALSE, dial |-> "origin", subs |-> <<>>]

Covering(s, h) == {i \in DOMAIN s : HasSub(s[i]) /\ routeWildcardCovers(s[i], h)}

anyWildcardSubroute(s) ==
    \E i \in DOMAIN s : HasSub(s[i]) /\ \E p \in hostMatches(s[i]) : isWildcardHost(p)

flatSiblingInZone(s, h) ==
    \E i \in DOMAIN s : \E p \in hostMatches(s[i]) : sameZone(p, h)

\* Mutant of httpRouteInsertPath: a nested route goes behind the zone's deny.
BehindTheDeny(s, h) ==
    IF Cardinality(Covering(s, h)) = 1
    THEN LET i == CHOOSE x \in Covering(s, h) : TRUE IN <<i, Len(s[i].subs) + 1>>
    ELSE <<1>>

\* The path to insert at, or <<>> when the edge's shape is refused.
httpRouteInsertPath(s, h) ==
    IF Cardinality(Covering(s, h)) = 1 THEN <<CHOOSE i \in Covering(s, h) : TRUE, 1>>
    ELSE IF Covering(s, h) = {} /\ (~ anyWildcardSubroute(s) \/ flatSiblingInZone(s, h))
    THEN <<1>> ELSE <<>>

\* Routes for exactly h, flat ones before nested ones; never a wildcard route.
FlatFor(s, h) == {p \in Paths(s) : Len(p) = 1 /\ routeHasExactHost(NodeAt(s, p), h)}
NestedFor(s, h) ==
    {p \in Paths(s) : /\ Len(p) = 2 /\ routeWildcardCovers(s[p[1]], h)
                      /\ routeHasExactHost(NodeAt(s, p), h)}

\* Mutant of findHostRoutePath: a wildcard's subroute is not searched.
FlatOnly(s, h) == IF FlatFor(s, h) # {} THEN FirstOf(FlatFor(s, h)) ELSE <<>>

\* Mutant of findHostRoutePath: the whole zone's route instead of the host's.
WholeZone(s, h) ==
    IF FlatFor(s, h) # {} THEN FirstOf(FlatFor(s, h))
    ELSE IF NestedFor(s, h) # {} THEN <<FirstOf(NestedFor(s, h))[1]>> ELSE <<>>

findHostRoutePath(s, h) ==
    IF FlatFor(s, h) # {} THEN FirstOf(FlatFor(s, h))
    ELSE IF NestedFor(s, h) # {} THEN FirstOf(NestedFor(s, h)) ELSE <<>>

\* adoptWalk: the wanted routes in walk order, not descending into a match.
AdoptPaths(s, want) ==
    LET hit == {p \in Paths(s) : rawRouteHost(NodeAt(s, p)) \in want}
    IN  {p \in hit : /\ NodeAt(s, p).id # routeID(rawRouteHost(NodeAt(s, p)))
                     /\ Len(p) = 2 => <<p[1]>> \notin hit}

\* ackWalk: the first route for h, in walk order, not descending into a match.
AckPath(s, h) ==
    LET hit == {p \in Paths(s) : rawRouteHost(NodeAt(s, p)) = h}
    IN  IF hit = {} THEN <<>> ELSE FirstOf(hit)

-----------------------------------------------------------------------------
(***************************************************************************)
(* Full POST /load.                                                        *)
(***************************************************************************)
\* Mutant of fullLoadSafe: a route's forward-auth handler is not looked at.
AuthNotChecked(l, add, remove) ==
    l.unparsed = {} /\ \A r \in l.routes : r.host \notin remove => r.dial # "tcp"

fullLoadSafe(l, add, remove) ==
    /\ l.unparsed = {}
    /\ \A r \in l.routes : r.host \notin remove => r.auth = "none" /\ r.dial # "tcp"

multiServerFullLoadSafe(c) == ~ serverForwards(c.sibling)

\* "none": nothing to carry; "listen": a plain custom listener is carried
\* through; anything richer refuses.
adminCarryListen(c) == c.admin # "rich"

\* targetRoutes: (host, dial) of every site block of the rendered config.
targetRoutes(l, add, remove) ==
    {<<r.host, r.dial>> : r \in {x \in l.routes : x.dial # "tcp" /\ x.host \notin remove}}
    \cup {<<h, "origin">> : h \in add}

SiteBlock(x) ==
    [id |-> NoId, match |-> <<x[1]>>, extra |-> FALSE, handle |-> {"proxy"},
     auth |-> "none", tls |-> FALSE, dial |-> x[2], subs |-> <<>>]

DenyAll == [id |-> NoId, match |-> <<>>, extra |-> FALSE, handle |-> {"deny"},
            auth |-> "none", tls |-> FALSE, dial |-> "none", subs |-> <<>>]

\* The adapter puts exact hosts before wildcards and the host-less block last.
renderCaddyfile(T) ==
    LET exact == {x \in T : x[1] \in Hosts}
        blocks == SetToSeq(exact) \o SetToSeq(T \ exact)
    IN  [i \in DOMAIN blocks |-> SiteBlock(blocks[i])] \o <<DenyAll>>

\* Two site blocks for one address do not load.
LoadOK(T) == \A x, y \in T : x[1] = y[1] => x = y

-----------------------------------------------------------------------------
(***************************************************************************)
(* Jobs: an operation, the admin calls it still has to make, its outcome.  *)
(***************************************************************************)
Job(verb, add, remove, todo) ==
    [verb |-> verb, add |-> add, remove |-> remove, gate |-> "none", loc |-> <<>>, todo |-> todo,
     status |-> "running", clean |-> TRUE]

Idle == [Job("none", {}, {}, <<>>) EXCEPT !.status = "done"]

Call(kind, host) == [kind |-> kind, host |-> host]
At(kind, path, n) == [kind |-> kind, path |-> path, node |-> n]

Each(kind, S) == LET q == SetToSeq(S) IN [i \in DOMAIN q |-> Call(kind, q[i])]

\* Mutant of applyGranular: the old name comes down before the new one is up.
BreakBeforeMake(add, remove) == Each("delete", remove) \o Each("insert", add)

\* Make before break: new hosts, removals, then the hosts rendered afresh.
applyGranular(add, remove) ==
    Each("insert", add \ remove) \o Each("delete", remove) \o Each("insert", add \cap remove)

Stamped(s, p, id) == [NodeAt(s, p) EXCEPT !.id = id]

InWalkOrder(S) ==
    CHOOSE q \in SetToSeqs(S) : \A i, j \in DOMAIN q : i < j => Precedes(q[i], q[j])

adoptCalls(s, want) ==
    LET q == InWalkOrder(AdoptPaths(s, want))
    IN  [i \in DOMAIN q |-> At("patch", q[i],
            Stamped(s, q[i], routeID(rawRouteHost(NodeAt(s, q[i])))))]

\* One marker PATCH: none when it is already there, or there is none to remove.
ackCalls(s, p, marker) ==
    LET id == NodeAt(s, p).id
    IN  IF id = marker \/ (marker = NoId /\ ~ IsAck(id)) THEN <<>>
        ELSE <<At("patch", p, Stamped(s, p, marker))>>

\* The marker of a path-addressed ack is the position the route has now.
locatorMarker(p) == AckId(p)

Locators == {u.loc : u \in normalize(cfg).unparsed}
PathOf(loc) == Tail(loc)

Begin(j) ==
    /\ job' = j
    /\ jobs' = jobs + 1
    /\ before' = cfg
    /\ UNCHANGED <<cfg, troubles>>

Refuse(j) == Begin([j EXCEPT !.status = "error", !.todo = <<>>])

\* Driver.Plan and Apply for expose, unexpose, a rename and a re-rendering.
Change(add, remove, g) ==
    /\ \A h \in remove : HasHost(normalize(cfg), h)
    /\ \A h \in add \ remove : ~ HasHost(normalize(cfg), h)
    /\ IF g # "none" /\ (~ cfg.granular \/ ~ authGate(g))
       THEN Refuse(Job("apply", add, remove, <<>>))
       ELSE IF cfg.granular
       THEN Begin([Job("apply", add, remove, applyGranular(add, remove)) EXCEPT !.gate = g])
       ELSE IF /\ fullLoadSafe(normalize(cfg), add, remove) /\ multiServerFullLoadSafe(cfg)
               /\ adminCarryListen(cfg)
            THEN Begin(Job("load", add, remove,
                    <<[kind |-> "load", target |-> targetRoutes(normalize(cfg), add, remove)]>>))
            ELSE Refuse(Job("load", add, remove, <<>>))

Apply ==
    \/ \E h \in Hosts, g \in Gates : Change({h}, {}, g)
    \/ \E h \in Hosts : Change({}, {h}, "none") \/ Change({h}, {h}, "none")
    \/ \E h, new \in Hosts : h # new /\ Change({new}, {h}, "none")

\* The passthrough route of the layer4 app: refused without plugin or granular.
ApplyLayer4 ==
    \E h \in Hosts :
        /\ ~ HasHost(normalize(cfg), h)
        /\ IF Layer4 /\ cfg.granular THEN Begin(Job("l4", {h}, {}, <<Call("l4", h)>>))
           ELSE Refuse(Job("l4", {h}, {}, <<>>))

\* planImport: unmanaged routes whose backend is the configured origin.
planImport(l) == {r.host : r \in {x \in l.routes : ~ x.managed /\ x.dial = "origin"}} \cap Hosts

\* Engine.Import adopts all of them, a declarative apply those it declares.
Import ==
    \E want \in SUBSET planImport(normalize(cfg)) \ {{}} :
        Begin(Job("adopt", want, {}, adoptCalls(Routes, want)))

AckOrUnack(verb, h, marker) ==
    LET p == AckPath(Routes, h)
    IN  IF p = <<>>
        THEN IF marker # NoId THEN Refuse(Job(verb, {h}, {}, <<>>))
             ELSE Begin(Job(verb, {h}, {}, <<>>))
        ELSE IF NodeAt(Routes, p).id = routeID(h) THEN Refuse(Job(verb, {h}, {}, <<>>))
        ELSE Begin(Job(verb, {h}, {}, ackCalls(Routes, p, marker)))

Ack == \E h \in Hosts : AckOrUnack("ack", h, AckId(h))
Unack == \E h \in Hosts : AckOrUnack("unack", h, NoId)

\* Only a route of the configured server has a path; a whole sibling does not.
AckLocator(verb, on) ==
    \E loc \in Locators :
        IF Len(loc) = 1 \/ ~ ValidPath(Routes, PathOf(loc)) THEN Refuse(Job(verb, {}, {}, <<>>))
        ELSE IF IsOwned(NodeAt(Routes, PathOf(loc)).id) THEN Refuse(Job(verb, {}, {}, <<>>))
        ELSE Begin([Job(verb, {}, {}, ackCalls(Routes, PathOf(loc),
                        IF on THEN locatorMarker(PathOf(loc)) ELSE NoId)) EXCEPT !.loc = loc])

AckRoute == AckLocator("ackroute", TRUE)
UnackRoute == AckLocator("unackroute", FALSE)

-----------------------------------------------------------------------------
(***************************************************************************)
(* The admin calls.  Every write reloads Caddy; the health probe after it  *)
(* may fail, and so may any call before it took effect.                    *)
(***************************************************************************)
Head1 == Head(job.todo)
Doing(kind) == job.status = "running" /\ job.todo # <<>> /\ Head1.kind = kind

Then(todo) == job' = [job EXCEPT !.todo = todo \o Tail(@)]
Fail == job' = [job EXCEPT !.status = "error", !.todo = <<>>]

Keep == UNCHANGED <<jobs, troubles, before>>

\* httpRouteInsertPath reads the config again for every insert.
LocateInsert ==
    /\ Doing("insert")
    /\ LET p == httpRouteInsertPath(Routes, Head1.host)
       IN  IF p = <<>> THEN Fail ELSE Then(<<At("put", p, InsertedRoute(Head1.host, job.gate))>>)
    /\ UNCHANGED cfg /\ Keep

insertRoute ==
    /\ Doing("put")
    /\ IF PutOK(cfg, Head1.path, Head1.node)
       THEN cfg' = WithRoutes(cfg, handlePutRoute(Routes, Head1.path, Head1.node)) /\ Then(<<>>)
       ELSE UNCHANGED cfg /\ Fail
    /\ Keep

insertLayer4Route ==
    /\ Doing("l4")
    /\ cfg' = [cfg EXCEPT !.l4 = <<[id |-> l4RouteID(Head1.host), sni |-> <<Head1.host>>,
                                    proxy |-> TRUE]>> \o @]
    /\ Then(<<>>) /\ Keep

\* A removed host may also have a passthrough route, which goes with it.
WithoutL4(c, h) ==
    IF Layer4
    THEN [c EXCEPT !.l4 = SelectSeq(@, LAMBDA r : r.id # l4RouteID(h))] ELSE c

maxHostMatchDeletes == 8
SweepCall(h, n) == [kind |-> "sweep", host |-> h, n |-> n]

deleteByID(h) ==
    LET own == WithId(Routes, routeID(h))
    IN  IF own # {}
        THEN /\ cfg' = WithoutL4(WithRoutes(cfg, deleteByPath(Routes, FirstOf(own))), h)
             /\ Then(<<>>)
        ELSE IF Durable THEN UNCHANGED cfg /\ Then(<<SweepCall(h, 0)>>)
        ELSE cfg' = WithoutL4(cfg, h) /\ Then(<<>>)

deleteRoute == Doing("delete") /\ deleteByID(Head1.host) /\ Keep

\* The sweep of a durable edge: find a route by host, delete it by its path, at
\* most maxHostMatchDeletes times.
Sweep ==
    /\ Doing("sweep")
    /\ LET p == findHostRoutePath(Routes, Head1.host)
       IN  IF Head1.n = maxHostMatchDeletes THEN UNCHANGED cfg /\ Fail
           ELSE IF p = <<>> THEN cfg' = WithoutL4(cfg, Head1.host) /\ Then(<<>>)
           ELSE UNCHANGED cfg /\ Then(<<[kind |-> "delpath", path |-> p],
                                        SweepCall(Head1.host, Head1.n + 1)>>)
    /\ Keep

handleDeletePath ==
    /\ Doing("delpath")
    /\ IF ValidPath(Routes, Head1.path)
       THEN cfg' = WithRoutes(cfg, deleteByPath(Routes, Head1.path)) ELSE UNCHANGED cfg
    /\ Then(<<>>) /\ Keep

handlePatchRoute ==
    /\ Doing("patch")
    /\ IF PatchOK(cfg, Head1.path, Head1.node)
       THEN cfg' = WithRoutes(cfg, setByPath(Routes, Head1.path, Head1.node)) /\ Then(<<>>)
       ELSE UNCHANGED cfg /\ Fail
    /\ Keep

load ==
    /\ Doing("load")
    /\ IF LoadOK(Head1.target)
       THEN /\ cfg' = [WithRoutes(cfg, renderCaddyfile(Head1.target))
                          EXCEPT !.sibling = <<>>, !.l4 = <<>>]
            /\ Then(<<>>)
       ELSE UNCHANGED cfg /\ Fail
    /\ Keep

ReadFirst(r, q) ==
    \/ r.loc[1] # q.loc[1] /\ (r.loc[1] = "l4" \/ q.loc[1] = "sibling")
    \/ r.loc[1] = q.loc[1] /\ Precedes(Tail(r.loc), Tail(q.loc))

\* The first route a read lists for h carries crenel's marker.
managedRoute(l, h) ==
    \E r \in l.routes : /\ r.host = h /\ r.managed
                        /\ \A q \in l.routes : q.host = h => q = r \/ ReadFirst(r, q)

verifyImport(l, want) == l.deny /\ \A h \in want : managedRoute(l, h)

AckedEntries(l) == {u \in l.unparsed : u.acked}

\* Mutant of Confirmed: the command is over when its last call was answered.
Answered == TRUE

\* The read-back of Import, Ack, Unack, AckRoute and UnackRoute.  Ack looks for
\* the reason, Unack for the host, in any acknowledged entry.
Confirmed ==
    LET l == normalize(cfg)
    IN  /\ job.verb = "adopt" => verifyImport(l, job.add)
        /\ job.verb = "ack" => AckedEntries(l) # {}
        /\ job.verb = "unack" => \A u \in AckedEntries(l), h \in job.add :
                ~ routeHasExactHost(NodeAt(Routes, PathOf(u.loc)), h)
        /\ job.verb = "ackroute" => \E u \in AckedEntries(l) : u.loc = job.loc
        /\ job.verb = "unackroute" => \A u \in AckedEntries(l) : u.loc # job.loc

Finish ==
    /\ job.status = "running" /\ job.todo = <<>>
    /\ job' = [job EXCEPT !.status = IF Confirmed THEN "done" ELSE "error"]
    /\ UNCHANGED cfg /\ Keep

\* A call refused or timed out before it had an effect.
CallFails ==
    /\ job.status = "running" /\ job.todo # <<>> /\ troubles > 0
    /\ Fail
    /\ troubles' = troubles - 1
    /\ UNCHANGED <<cfg, jobs, before>>

\* A write that landed although its answer, or the settle probe, timed out.
LandsThenFails ==
    /\ troubles > 0
    /\ \/ /\ Doing("put") /\ PutOK(cfg, Head1.path, Head1.node)
          /\ cfg' = WithRoutes(cfg, handlePutRoute(Routes, Head1.path, Head1.node))
       \/ /\ Doing("patch") /\ PatchOK(cfg, Head1.path, Head1.node)
          /\ cfg' = WithRoutes(cfg, setByPath(Routes, Head1.path, Head1.node))
       \/ /\ Doing("delete") /\ WithId(Routes, routeID(Head1.host)) # {}
          /\ cfg' = WithRoutes(cfg, deleteByPath(Routes, FirstOf(WithId(Routes, routeID(Head1.host)))))
    /\ Fail
    /\ troubles' = troubles - 1
    /\ UNCHANGED <<jobs, before>>

\* Another client of the admin API puts a route first, or deletes one.
OtherClient ==
    /\ job.status = "running" /\ troubles > 0
    /\ \/ \E n \in Inserted : /\ IdsUnique(<<n>> \o Routes, cfg.l4)
                              /\ cfg' = WithRoutes(cfg, <<n>> \o Routes)
       \/ \E i \in DOMAIN Routes : cfg' = WithRoutes(cfg, RemoveAt(Routes, i))
    /\ job' = [job EXCEPT !.clean = FALSE]
    /\ troubles' = troubles - 1
    /\ UNCHANGED <<jobs, before>>

Step == LocateInsert \/ insertRoute \/ insertLayer4Route \/ deleteRoute \/ Sweep
            \/ handleDeletePath \/ handlePatchRoute \/ load \/ Finish

\* @ids are unique, and a catch-all stands last: what follows it is dead config.
Init ==
    /\ \E s \in Shapes, r \in UNION {[1..n -> Nodes] : n \in 0..MaxRoutes} :
          cfg = [routes |-> r, sibling |-> s.sibling, l4 |-> s.l4, admin |-> s.admin,
                 granular |-> s.granular, ops |-> s.ops]
    /\ IdsUnique(cfg.routes, cfg.l4)
    /\ \A i \in DOMAIN cfg.routes : hasHost(cfg.routes[i]) \/ i = Len(cfg.routes)
    /\ job = Idle /\ jobs = 0 /\ troubles = Troubles /\ before = cfg

\* An operation starts when the one before it has returned.
Next == \/ /\ job.status # "running" /\ jobs < cfg.ops
           /\ Apply \/ ApplyLayer4 \/ Import \/ Ack \/ Unack \/ AckRoute \/ UnackRoute
        \/ Step \/ CallFails \/ LandsThenFails \/ OtherClient

Spec == Init /\ [][Next]_vars

-----------------------------------------------------------------------------
(***************************************************************************)
(* What Caddy does with a request.  Routes are tried in order; a route     *)
(* with a further matcher takes some requests of its hosts and lets the    *)
(* others pass, so a host may have several answers.                        *)
(***************************************************************************)
MatchesHost(n, h) == ~ hasHost(n) \/ routeHasExactHost(n, h) \/ routeWildcardCovers(n, h)

\* <<i, j>>: the j-th route of i's subroute, or i's own handlers after it.
Candidates(s, h) ==
    UNION {{<<i, j>> : j \in {k \in 1..(Len(s[i].subs) + 1) :
                IF k <= Len(s[i].subs) THEN HasSub(s[i]) /\ MatchesHost(s[i].subs[k], h)
                ELSE s[i].handle # {"sub"}}} :
           i \in {k \in DOMAIN s : MatchesHost(s[k], h)}}

Terminal(s, c) == IF c[2] <= Len(s[c[1]].subs) THEN s[c[1]].subs[c[2]] ELSE s[c[1]]

Always(s, c) == ~ s[c[1]].extra /\ ~ Terminal(s, c).extra

Answers(s, h) ==
    LET cs == Candidates(s, h)
    IN  {c \in cs : \A d \in cs : Always(s, d) => ~ Precedes(d, c)}

\* A proxy, or a handler crenel does not model.
Exposes(s, c) == Terminal(s, c).handle \cap {"proxy", "other"} # {}

AuthAt(s, c) == Inherited(s[c[1]].auth, Terminal(s, c))

Serves(s, h) == \E c \in Answers(s, h) : Exposes(s, c)

Behaviour(s, h) ==
    {<<Terminal(s, c).handle \ {"sub"}, Terminal(s, c).dial, AuthAt(s, c), Terminal(s, c).tls>> :
        c \in Answers(s, h)}

\* The address crenel gives the route of an answer.
LocOf(key, s, c) == IF c[2] <= Len(s[c[1]].subs) THEN <<key>> \o c ELSE <<key, c[1]>>

Ended == job.status = "done"
Touched == job.add \cup job.remove

\* A route is read by its proxy, or else its deny, or else its subroute: what
\* stands beside a subroute, or beside a deny, is not looked at.
ReadWhole(n) ==
    /\ HasSub(n) => n.handle = {"sub"}
    /\ hasDenyHandler(n) => "other" \notin n.handle

\* The job's own host and g are matched by one and the same route.
Grouped(s, g) ==
    \E p \in Paths(s) : hostMatches(NodeAt(s, p)) \cap Touched # {} /\ MatchesHost(NodeAt(s, p), g)

-----------------------------------------------------------------------------
JobType ==
    /\ job.status \in {"running", "done", "error"}
    /\ job.clean \in BOOLEAN
    /\ job.status = "running" \/ job.todo = <<>>

\* The live config stays well formed: every route of the tree is addressable,
\* and no two carry the same @id (Caddy's index of @ids is global).
TypeOK ==
    /\ JobType
    /\ jobs \in 0..cfg.ops /\ troubles \in 0..Troubles
    /\ \A p, q \in Paths(cfg.routes) :
          LET i == NodeAt(cfg.routes, p).id
          IN  i = NodeAt(cfg.routes, q).id => p = q \/ i = NoId

\* ENFORCED is never certified over config that was not read (DenyState,
\* normalize, collectLeaves): whatever the data plane forwards, on the managed
\* server or on a sibling that forwards, is a listed route or one the operator
\* acknowledged.
EnforcedIsClosed ==
    LET live == normalize(cfg) IN
    DenyState(live) = "enforced" =>
        \A key \in {"srv0", "sibling"}, h \in Hosts :
            LET s == IF key = "srv0" THEN cfg.routes ELSE cfg.sibling
            IN  \A c \in Answers(s, h) :
                Exposes(s, c) /\ ReadWhole(s[c[1]]) /\ ReadWhole(Terminal(s, c))
                /\ (key = "srv0" \/ serverForwards(s)) =>
                    \/ IsAck(s[c[1]].id) \/ IsAck(Terminal(s, c).id)
                    \/ \E r \in live.routes :
                          r.loc = LocOf(key, s, c) /\ (r.host = h \/ r.host = ZoneOf[h])

\* Exposing a host serves it (insertRoute, httpRouteInsertPath): when nothing
\* but a deny inside the zone's own subroute answered the host before, crenel's
\* route is what answers it once the apply has returned, behind the policy the
\* operator named, and it reads as managed.
ExposeServes ==
    Ended /\ job.verb = "apply" /\ job.clean =>
        \A h \in job.add \ job.remove :
            (\A c \in Answers(before.routes, h) :
                ~ Exposes(before.routes, c) /\ ~ routeHasExactHost(Terminal(before.routes, c), h)
                /\ (hasHost(before.routes[c[1]]) => HasSub(before.routes[c[1]])))
            => /\ \A c \in Answers(cfg.routes, h) :
                    /\ Terminal(cfg.routes, c).id = routeID(h)
                    /\ job.gate # "none" => AuthAt(cfg.routes, c) = "named"
               /\ \E r \in normalize(cfg).routes : r.host = h /\ r.managed

\* An unexpose on a durable edge leaves no route for the host, flat or nested in
\* its zone, when none of them carried crenel's @id (deleteRoute's sweep).
SweepClears ==
    Ended /\ job.verb = "apply" /\ job.clean /\ Durable =>
        \A h \in job.remove \ job.add :
            WithId(before.routes, routeID(h)) = {}
                => FlatFor(cfg.routes, h) \cup NestedFor(cfg.routes, h) = {}

\* A rename is make-before-break (applyGranular): whatever call fails, one of
\* the two names is served at every moment if the old one was.
RenameNeverDark ==
    job.verb = "apply" /\ job.clean /\ job.add # {} /\ job.remove # {}
    /\ job.add \cap job.remove = {} /\ (\A h \in job.remove : Serves(before.routes, h))
    /\ (\A h \in job.add : \A c \in Answers(before.routes, h) :
            hasHost(before.routes[c[1]]) => HasSub(before.routes[c[1]]))
        => \E h \in Touched : Serves(cfg.routes, h)

\* An import that was confirmed took nothing down and opened nothing, on any
\* host, and what it adopted can be found by its @id again, once (Import,
\* adoptWalk, verifyImport).
ImportChangesNothing ==
    Ended /\ job.verb = "adopt" /\ job.clean =>
        /\ \A h \in Hosts : Behaviour(cfg.routes, h) = Behaviour(before.routes, h)
        /\ \A h \in job.add : \/ Cardinality(WithId(cfg.routes, routeID(h))) = 1
                             \/ \E i \in DOMAIN cfg.l4 : cfg.l4[i].id = l4RouteID(h)

\* On an edge that denied by default, a full replace loses no exposure and strips
\* no gate of another host (fullLoadSafe, multiServerFullLoadSafe).  A permissive
\* catch-all is neither route nor unparsed entry, and gives way to the deny.
FullLoadKeeps ==
    Ended /\ job.verb = "load" /\ job.clean /\ normalize(before).deny =>
        /\ \A g \in Hosts \ job.remove : Serves(before.routes, g) =>
              /\ Serves(cfg.routes, g)
              /\ \A c \in Answers(before.routes, g) : AuthAt(before.routes, c) = "none"
        /\ ~ serverForwards(before.sibling)
        /\ \A i \in DOMAIN before.l4 : ToSet(before.l4[i].sni) \subseteq job.remove

\* A crenel call never changes what the data plane does for a host its job is
\* not about, unless one route serves both (applyGranular, Adopt, Ack).
OthersUnaffected ==
    [][job.status = "running" /\ job.clean /\ job'.clean /\ job.verb # "load"
       /\ cfg'.routes # cfg.routes =>
        \A g \in Hosts \ Touched :
            Grouped(cfg.routes, g) \/ Behaviour(cfg'.routes, g) = Behaviour(cfg.routes, g)]_vars

=============================================================================
