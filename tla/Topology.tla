------------------------------ MODULE Topology ------------------------------
(***************************************************************************)
(* The wiring of a crenel engine (internal/core/engine.go, chain_write.go, *)
(* dns_zone.go) and everything that is computed from the wiring alone:     *)
(* which edges take part in an operation and in which role, which DNS      *)
(* providers are asked for a record, and the order in which the providers  *)
(* are changed.                                                            *)
(*                                                                         *)
(* A service and its host are in bijection inside a managed zone, so one   *)
(* set of Hosts stands for both.  NoService is the empty service of a      *)
(* rename operation: only an edge with no origins map fronts it.           *)
(***************************************************************************)
EXTENDS Naturals, FiniteSets

CONSTANTS
    Hosts,              \* hostnames, each also the key of its service
    NoService,          \* Op.Service == "" (rename)
    Edges,              \* names of the configured edge bindings
    NoEdge,             \* DownstreamEdge == ""
    Providers,          \* DNS providers
    WirePos,            \* position of an edge or provider in its wiring list
    Fronts,             \* edge -> services its origins map holds
    Downstream,         \* edge -> the edge it forwards to, or NoEdge
    DownstreamAddress,  \* the chain fronts that have a downstream_address
    DownstreamTLS,      \* the chain fronts that dial their downstream over TLS
    InternalScope,      \* services declared scope internal in origins
    Scope,              \* provider -> "internal" or "public"
    Covers              \* provider -> hosts inside its managed zone

Services == Hosts \cup {NoService}

Targets == Edges \cup Providers

ASSUME TopologyAssumption ==
    /\ IsFiniteSet(Edges)
    /\ IsFiniteSet(Providers)
    /\ Edges \cap Providers = {}
    /\ NoEdge \notin Edges
    /\ NoService \notin Hosts
    /\ WirePos \in [Targets -> Nat]
    /\ Fronts \in [Edges -> SUBSET Services]
    /\ Downstream \in [Edges -> Edges \cup {NoEdge}]
    /\ DownstreamAddress \subseteq Edges
    /\ DownstreamTLS \subseteq DownstreamAddress
    /\ InternalScope \subseteq Hosts
    /\ Scope \in [Providers -> {"internal", "public"}]
    /\ Covers \in [Providers -> SUBSET Hosts]

\* Two targets of one kind never share a wiring position.
ASSUME WiringAssumption ==
    \A s, t \in Targets :
        (s \in Edges <=> t \in Edges) /\ WirePos[s] = WirePos[t] => s = t

-----------------------------------------------------------------------------
(***************************************************************************)
(* The transient operation.  old is the host a rename moves away from      *)
(* (equal to host for the other verbs); scopes and edges are the operator's *)
(* appointments, empty meaning "all".                                      *)
(***************************************************************************)
Op == [verb    : {"expose", "unexpose", "rename"},
       host    : Hosts,
       old     : Hosts,
       service : Services,
       scopes  : SUBSET {"internal", "public"},
       edges   : SUBSET Edges,
       auth    : {"none", "named"}]

edgeSelected(o, e) == o.edges = {} \/ e \in o.edges

scopeSelected(o, p) == o.scopes = {} \/ Scope[p] \in o.scopes

dnsCoversHost(o, p) == o.host \in Covers[p]

internalScoped(s) == s \in InternalScope

\* The three skip predicates of Engine.Plan, composed.
PlanSkips(o, p) ==
    \/ ~ scopeSelected(o, p)
    \/ ~ dnsCoversHost(o, p)
    \/ Scope[p] = "public" /\ internalScoped(o.service)

-----------------------------------------------------------------------------
(***************************************************************************)
(* Chains.  Hop[k][e] is the edge k forwards below e.                      *)
(***************************************************************************)
N == Cardinality(Edges)

Hop[k \in 0..N] ==
    IF k = 0
    THEN [e \in Edges |-> e]
    ELSE [e \in Edges |->
            IF Hop[k-1][e] = NoEdge THEN NoEdge ELSE Downstream[Hop[k-1][e]]]

\* A chain does not loop back on itself.
ASSUME ChainAssumption == \A e \in Edges : Hop[N][e] = NoEdge

downstreamParticipates(e, s) ==
    \E k \in 1..N : Hop[k][e] # NoEdge /\ s \in Fronts[Hop[k][e]]

roleFor(e, s) ==
    IF s \in Fronts[e] THEN "terminal"
    ELSE IF internalScoped(s) THEN "none"
    ELSE IF downstreamParticipates(e, s) THEN "forward"
    ELSE "none"

\* The length of the longest chain of fronts that leads to e.  A chain of k
\* fronts has a suffix of every shorter length, so the lengths can be counted.
chainDepth(e) == Cardinality({k \in 1..N : \E b \in Edges : Hop[k][b] = e})

-----------------------------------------------------------------------------
(***************************************************************************)
(* The order of the apply steps: exposure rank, then chain depth, then     *)
(* wiring order (the sort is stable).                                      *)
(***************************************************************************)
rankEdge == 0
rankInternalDNS == 1
rankPublicDNS == 2

\* Mutant of rank: names are announced first.
NamesFirst(t) == IF t \in Edges THEN rankPublicDNS ELSE rankEdge

rank(t) ==
    IF t \in Edges THEN rankEdge
    ELSE IF Scope[t] = "public" THEN rankPublicDNS
    ELSE rankInternalDNS

depth(t) == IF t \in Edges THEN chainDepth(t) ELSE 0

\* Mutant of Before: the teardown keeps the order of the build-up.
BuildUpOrder(v, s, t) ==
    \/ rank(s) < rank(t)
    \/ /\ rank(s) = rank(t)
       /\ depth(s) > depth(t) \/ (depth(s) = depth(t) /\ WirePos[s] < WirePos[t])

\* Step s is applied before step t under verb v.
Before(v, s, t) ==
    \/ v = "expose" /\ rank(s) < rank(t)
    \/ v # "expose" /\ rank(s) > rank(t)
    \/ /\ rank(s) = rank(t)
       /\ \/ v = "expose" /\ depth(s) > depth(t)
          \/ v # "expose" /\ depth(s) < depth(t)
          \/ depth(s) = depth(t) /\ WirePos[s] < WirePos[t]

\* s is the first step of S, or the last one.
First(v, s, S) == s \in S /\ \A t \in S \ {s} : Before(v, s, t)
Last(v, s, S) == s \in S /\ \A t \in S \ {s} : Before(v, t, s)
=============================================================================
