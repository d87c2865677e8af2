----------------------------- MODULE LiveConfig -----------------------------
(***************************************************************************)
(* What a driver of a file edge reads out of a config: the routes it       *)
(* understood, the default-deny it saw, and everything it declares not to  *)
(* have understood (internal/model/model.go).  The nginx driver, the       *)
(* Nginx-Proxy-Manager tree reader, the Traefik driver and the Traefik API *)
(* reader all produce one of these.                                        *)
(***************************************************************************)
EXTENDS FiniteSets

CONSTANTS
    Hosts,      \* host names a config may route
    Stranger,   \* a host that no config names: the runtime probe's .invalid name
    Backends,   \* addresses a route may dial
    Nothing     \* no backend

ASSUME LiveConfigAssumption ==
    /\ IsFiniteSet(Hosts) /\ Stranger \notin Hosts
    /\ Nothing \notin Backends /\ Nothing \notin Hosts

Named == Hosts \cup {Stranger}

LiveRoute == [host    : Hosts,
              to      : Backends \cup {Nothing},
              mode    : {"http", "tcp"},
              auth    : {"none", "named", "detected"},
              managed : BOOLEAN]

UnknownKinds == {"server_block", "matcher", "handler", "backend", "acknowledged"}

LiveState == [routes    : SUBSET LiveRoute,
              deny      : BOOLEAN,
              unparsed  : SUBSET UnknownKinds,
              generator : BOOLEAN]

\* An unknown the operator marked crenel-ack is declared, and blocks nothing.
ackAware(ack, kind) == IF ack THEN "acknowledged" ELSE kind

FullyParsed(s) == s.unparsed \subseteq {"acknowledged"}

DenyState(s) ==
    IF ~ s.deny THEN "missing" ELSE IF FullyParsed(s) THEN "enforced" ELSE "unknown"

RoutesFor(s, h) == {r \in s.routes : r.host = h}

LiveHasHost(s, h) == RoutesFor(s, h) # {}

\* The first route for h in read order: a route without the marker is listed
\* before crenel's own (nginx renders the others first, Traefik sorts by name).
FirstRoute(s, h) ==
    CHOOSE r \in RoutesFor(s, h) : r.managed => \A q \in RoutesFor(s, h) : q.managed

managedRoute(s, h) == LiveHasHost(s, h) /\ FirstRoute(s, h).managed

LiveReachable(s, h) == s.deny /\ LiveHasHost(s, h)

\* A driver's EdgeChange: routes to add, hosts to remove.
Change == [add : SUBSET LiveRoute, remove : SUBSET Hosts]

\* Mutant of invertChange: what the change removed stays removed.
RemovesStay(c, s) == [add |-> {}, remove |-> {r.host : r \in c.add}]

\* What undoes change c, from the snapshot s taken before it.
invertChange(c, s) ==
    [add    |-> {FirstRoute(s, h) : h \in {g \in c.remove : LiveHasHost(s, g)}},
     remove |-> {r.host : r \in c.add}]
=============================================================================
