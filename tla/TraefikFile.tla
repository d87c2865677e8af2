----------------------------- MODULE TraefikFile -----------------------------
(***************************************************************************)
(* The Traefik driver's view of a dynamic config                           *)
(* (internal/drivers/edge/traefik): normalize, Apply and Adopt over the    *)
(* file, and the read-only reader of the running daemon's API.  Routers    *)
(* and services are tables by name; crenel's names carry the crenel-       *)
(* prefix.  YAML and JSON are left out: decode keeps the tables below and  *)
(* drops every other section of the document.                              *)
(***************************************************************************)
EXTENDS LiveConfig, Naturals, SequencesExt, FiniteSetsExt

CONSTANTS
    OtherNames,     \* router and service names that are not crenel's
    DockerNames,    \* those with an orchestrator's provider suffix
    DefsElsewhere   \* middlewares are defined outside the managed file

ASSUME TraefikAssumption ==
    /\ IsFiniteSet(OtherNames) /\ DockerNames \subseteq OtherNames
    /\ DefsElsewhere \in BOOLEAN

managedRouterID(h) == <<"crenel", h>>
tcpRouterID(h) == <<"crenel-tcp", h>>
denyKey == <<"crenel", "deny">>

ManagedNames == {managedRouterID(h) : h \in Hosts} \cup {denyKey}
TcpNames == {tcpRouterID(h) : h \in Hosts}
Names == OtherNames \cup ManagedNames

\* Only crenel's names carry its prefix, and no host is called deny.
ASSUME NamesAssumption ==
    /\ OtherNames \cap (ManagedNames \cup TcpNames) = {}
    /\ "deny" \notin Hosts

\* A router without hosts matches every host; cond: also scoped by a predicate
\* that is not about the host.  mw is its first middleware: the forward-auth one,
\* a header one, or Pangolin's badger; lost stands for a reference to nothing.
Router == [hosts   : UNION {[1 .. n -> Hosts] : n \in 0 .. 2},
           cond    : BOOLEAN,
           service : Names,
           mw      : {"none", "auth", "headers", "badger", "lost"},
           ack     : BOOLEAN]

Service == [shape : {"servers", "weighted", "empty"}, to : Backends]

TcpRouter == [sni : SUBSET Hosts, to : Backends \cup {Nothing}]

\* What Traefik holds: routers, services, TCP routers with their service folded
\* in, and whether this document also defines the middlewares.
IsTable(f, keys, values) == DOMAIN f \subseteq keys /\ f \in [DOMAIN f -> values]

IsConfig(c) ==
    /\ c = [routers |-> c.routers, services |-> c.services, tcp |-> c.tcp, defs |-> c.defs]
    /\ IsTable(c.routers, Names, Router) /\ IsTable(c.services, Names, Service)
    /\ IsTable(c.tcp, OtherNames \cup TcpNames, TcpRouter)
    /\ c.defs \in BOOLEAN

EmptyTable == [k \in {} |-> Nothing]

EmptyConfig ==
    [routers |-> EmptyTable, services |-> EmptyTable, tcp |-> EmptyTable, defs |-> FALSE]

Without(f, keys) == [k \in DOMAIN f \ keys |-> f[k]]

\* The entries of f, then those of g that f does not have.
Over(f, g) == [k \in DOMAIN f \cup DOMAIN g |-> IF k \in DOMAIN f THEN f[k] ELSE g[k]]

-----------------------------------------------------------------------------
(***************************************************************************)
(* normalize.                                                              *)
(***************************************************************************)
hasUpstream(services, k) == k \in DOMAIN services /\ services[k].shape = "servers"

isManaged(k) == k \in ManagedNames \cup TcpNames

\* The first middleware of a managed router is taken for its policy, whatever it
\* is; on another router only a name that contains "auth" counts.
authForRouter(managed, r) ==
    CASE managed /\ r.mw # "none" -> (IF r.mw = "lost" THEN "detected" ELSE "named")
      [] ~ managed /\ r.mw = "auth" -> "detected"
      [] OTHER -> "none"

nonHostPredicates(r) == r.cond

hostless(r) == r.hosts = <<>>

RouterRoutes(k, r, services) ==
    IF hostless(r) \/ nonHostPredicates(r) \/ ~ hasUpstream(services, r.service) THEN {}
    ELSE {[host |-> h, to |-> services[r.service].to, mode |-> "http",
           auth |-> authForRouter(isManaged(k), r), managed |-> isManaged(k)] : h \in ToSet(r.hosts)}

\* Mutant of RouterUnparsed: a router whose service is not found is skipped.
UnresolvedSkipped(r, services) ==
    IF ~ hostless(r) /\ nonHostPredicates(r) THEN {ackAware(r.ack, "matcher")} ELSE {}

\* Host-less routers never reach the declarations: isCatchAll holds of all of
\* them, and without an upstream they are taken to forward nothing.
RouterUnparsed(r, services) ==
    CASE ~ hostless(r) /\ nonHostPredicates(r) -> {ackAware(r.ack, "matcher")}
      [] ~ hostless(r) /\ ~ nonHostPredicates(r) /\ ~ hasUpstream(services, r.service) ->
            {ackAware(r.ack, "backend")}
      [] OTHER -> {}

OpensAll(r, services) == hostless(r) /\ hasUpstream(services, r.service)

TcpRoutes(k, r) ==
    {[host |-> h, to |-> r.to, mode |-> "tcp", auth |-> "none", managed |-> isManaged(k)] :
        h \in {g \in r.sni : r.to # Nothing}}

detectGenerator(c) ==
    \/ \E k \in DOMAIN c.routers : c.routers[k].mw = "badger"
    \/ (DOMAIN c.routers \cup DOMAIN c.tcp) \cap DockerNames # {}

normalizeTraefik(c) ==
    LET read == (UNION {RouterRoutes(k, c.routers[k], c.services) : k \in DOMAIN c.routers})
                \cup (UNION {TcpRoutes(k, c.tcp[k]) : k \in DOMAIN c.tcp})
    IN [routes    |-> IF detectGenerator(c) THEN {[r EXCEPT !.managed = FALSE] : r \in read}
                      ELSE read,
        deny      |-> \A k \in DOMAIN c.routers : ~ OpensAll(c.routers[k], c.services),
        unparsed  |-> UNION {RouterUnparsed(c.routers[k], c.services) : k \in DOMAIN c.routers},
        generator |-> detectGenerator(c)]

-----------------------------------------------------------------------------
(***************************************************************************)
(* Apply and Adopt.                                                        *)
(***************************************************************************)
\* write refuses a document with a service that has no servers; a weighted
\* service is decoded into one.
validate(c) == \A k \in DOMAIN c.services : c.services[k].shape = "servers"

\* The router crenel writes for an HTTP route: one host, a service of its own name.
ManagedRouter(r) ==
    [hosts |-> <<r.host>>, cond |-> FALSE, service |-> managedRouterID(r.host),
     mw |-> CASE r.auth = "named" -> "auth" [] r.auth = "detected" -> "lost" [] OTHER -> "none",
     ack |-> FALSE]

\* Removes before adds, the stale deny goes, and what decode dropped is gone.
applyTraefik(c, ch) ==
    LET gone == {managedRouterID(h) : h \in ch.remove} \cup {denyKey}
        own  == {managedRouterID(r.host) : r \in {q \in ch.add : q.mode = "http"}}
        raw  == {tcpRouterID(r.host) : r \in {q \in ch.add : q.mode = "tcp"}}
        routeOf(k) == CHOOSE r \in ch.add : r.host = k[2]
    IN [routers  |-> Over([k \in own |-> ManagedRouter(routeOf(k))], Without(c.routers, gone)),
        services |-> Over([k \in own |-> [shape |-> "servers", to |-> routeOf(k).to]],
                          Without(c.services, gone)),
        tcp      |-> Over([k \in raw |-> [sni |-> {k[2]}, to |-> routeOf(k).to]],
                          Without(c.tcp, {tcpRouterID(h) : h \in ch.remove})),
        defs     |-> FALSE]

\* The first host of the router that was asked for.
FirstWanted(r, hosts) == r.hosts[Min({i \in DOMAIN r.hosts : r.hosts[i] \in hosts})]

\* Mutant of AdoptRouter: the router keeps pointing at the service that moved.
AdoptKeepsService(c, k, hosts) ==
    LET r   == c.routers[k]
        new == managedRouterID(FirstWanted(r, hosts))
    IN [c EXCEPT
          !.routers = Over([x \in {new} |-> r], Without(c.routers, {k})),
          !.services = IF r.service \in DOMAIN c.services
                       THEN Without(Over([x \in {new} |-> c.services[r.service]], c.services),
                                    {r.service})
                       ELSE c.services]

\* Adopt re-keys one router, and moves the service it names along with it.
AdoptRouter(c, k, hosts) ==
    LET r   == c.routers[k]
        new == managedRouterID(FirstWanted(r, hosts))
        moved == r.service \in DOMAIN c.services
    IN [c EXCEPT
          !.routers = Over([x \in {new} |-> [r EXCEPT !.service = new]],
                           Without(c.routers, {k})),
          !.services = IF moved
                       THEN Without(Over([x \in {new} |-> c.services[r.service]], c.services),
                                    {r.service})
                       ELSE c.services]

Adoptable(c, hosts) ==
    {k \in DOMAIN c.routers \ ManagedNames : ToSet(c.routers[k].hosts) \cap hosts # {}}

\* The config after the routers of order were visited.
Visited(c, order, hosts) ==
    LET after[n \in 0 .. Len(order)] ==
            IF n = 0 THEN c ELSE AdoptRouter(after[n - 1], order[n], hosts)
    IN after[Len(order)]

\* The routers are visited in the map's random order.
adoptTraefik(c, hosts) ==
    {[Visited(c, order, hosts) EXCEPT !.defs = FALSE] :
        order \in SetToSeqs(Adoptable(c, hosts))}

-----------------------------------------------------------------------------
(***************************************************************************)
(* The daemon (external): it drops a whole document with an empty service, *)
(* disables a router whose service or middleware is missing, and answers   *)
(* TLS passthrough first, then the exact hosts, then the host-less rules.  *)
(***************************************************************************)
Accepts(c) == \A k \in DOMAIN c.services : c.services[k].shape # "empty"

Enabled(c, k) ==
    /\ c.routers[k].service \in DOMAIN c.services
    /\ \/ c.routers[k].mw = "none"
       \/ c.routers[k].mw # "lost" /\ (c.defs \/ DefsElsewhere)

GateOf(r) == IF r.mw \in {"auth", "badger"} THEN "request" ELSE "none"

RouterAnswer(c, k) ==
    [port |-> 443, to |-> c.services[c.routers[k].service].to, gate |-> GateOf(c.routers[k]),
     paths |-> c.routers[k].cond]

traefikServes(c, h) ==
    LET raw    == {k \in DOMAIN c.tcp : h \in c.tcp[k].sni /\ c.tcp[k].to # Nothing}
        on     == {k \in DOMAIN c.routers : Enabled(c, k)}
        naming == {k \in on : h \in ToSet(c.routers[k].hosts)}
        anyone == {k \in on : hostless(c.routers[k])}
    IN IF raw # {}
       THEN {[port |-> 443, to |-> c.tcp[k].to, gate |-> "none", paths |-> FALSE] : k \in raw}
       ELSE {RouterAnswer(c, k) : k \in IF naming # {} THEN naming ELSE anyone}

-----------------------------------------------------------------------------
(***************************************************************************)
(* The API reader: five GETs, each answered from what runs at that moment. *)
(***************************************************************************)
Endpoints == <<"routers", "services", "middlewares", "tcp_routers", "tcp_services">>

\* What the daemon reports for one endpoint; a router carries its status.
ApiAnswer(c, ep) ==
    CASE ep = "routers"     -> [k \in DOMAIN c.routers |-> [r |-> c.routers[k],
                                                            enabled |-> Enabled(c, k)]]
      [] ep = "services"    -> c.services
      [] ep = "middlewares" -> {c.routers[k].mw : k \in DOMAIN c.routers} \ {"none", "lost"}
      [] OTHER              -> c.tcp

\* The middleware's type decides; one the API did not list, its name.
authForAPIRouter(r) == IF r.mw \in {"auth", "badger"} THEN "detected" ELSE "none"

\* A router that is not enabled is declared too.
ApiUnparsed(x, services) ==
    IF x.enabled THEN RouterUnparsed([x.r EXCEPT !.ack = FALSE], services) ELSE {"handler"}

\* A TCP router with the address its service has in the other answer.
ApiTcp(got, k) ==
    [sni |-> got["tcp_routers"][k].sni,
     to  |-> IF k \in DOMAIN got["tcp_services"] THEN got["tcp_services"][k].to ELSE Nothing]

\* A TCP router with no exact HostSNI or no address is declared.
ApiTcpUnparsed(r) == IF r.sni = {} \/ r.to = Nothing THEN {"matcher"} ELSE {}

\* got maps each endpoint to its answer.
normalizeAPI(got) ==
    LET rs   == got["routers"]
        svcs == got["services"]
        live == {k \in DOMAIN rs : rs[k].enabled}
    IN [routes    |->
            (UNION {{[q EXCEPT !.managed = FALSE, !.auth = authForAPIRouter(rs[k].r)] :
                        q \in RouterRoutes(k, rs[k].r, svcs)} : k \in live})
            \cup (UNION {{[q EXCEPT !.managed = FALSE] : q \in TcpRoutes(k, ApiTcp(got, k))} :
                            k \in DOMAIN got["tcp_routers"]}),
        deny      |-> \A k \in live : ~ OpensAll(rs[k].r, svcs),
        unparsed  |-> (UNION {ApiUnparsed(rs[k], svcs) : k \in DOMAIN rs})
                      \cup (UNION {ApiTcpUnparsed(ApiTcp(got, k)) :
                                      k \in DOMAIN got["tcp_routers"]}),
        generator |-> \/ "badger" \in got["middlewares"]
                      \/ (DOMAIN rs \cup DOMAIN got["tcp_routers"]) \cap DockerNames # {}]
=============================================================================
