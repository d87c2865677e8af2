----------------------------- MODULE DriverProofs -----------------------------
(***************************************************************************)
(* What the operators of the edge and DNS drivers return and preserve: the *)
(* lemmas that the proofs about Engine and Converge share.                 *)
(***************************************************************************)
EXTENDS EdgeDrivers, DnsDrivers, TLAPS

-----------------------------------------------------------------------------
(***************************************************************************)
(* What the edge drivers' operators return.                                *)
(***************************************************************************)
\* A route table, an edge change and an edge state stay within their types
\* under the constructors the drivers use (Driver.Plan, planForward).
LEMMA NoRoutesType == NoRoutes \in RouteTable
BY DEF NoRoutes, RouteTable

\* findRoute, OrElse returns a route or none.
LEMMA FindRouteType ==
    ASSUME NEW s \in EdgeState, NEW h \in Hosts
    PROVE  findRoute(s, h) \in Route \cup {NoRoute}
BY DEF findRoute, OrElse, EdgeState, RouteTable

\* The empty edge change is an edge change.
LEMMA NoEdgeChangeType == NoEdgeChange \in EdgeChange
BY NoRoutesType DEF NoEdgeChange, EdgeChange

\* Adding one route is an edge change.
LEMMA AddType ==
    ASSUME NEW h \in Hosts, NEW r \in Route \cup {NoRoute}
    PROVE  Add(h, r) \in EdgeChange
BY DEF Add, EdgeChange, NoRoutes, RouteTable

\* Removing one host is an edge change.
LEMMA RemoveType ==
    ASSUME NEW h \in Hosts
    PROVE  Remove(h) \in EdgeChange
BY NoRoutesType DEF Remove, EdgeChange

\* Driver.Plan and planForward return an edge change.
LEMMA EdgePlanType ==
    ASSUME NEW o \in Op, NEW e \in Edges, NEW s \in EdgeState
    PROVE  EdgePlan(o, e, s) \in EdgeChange
<1>1. o.host \in Hosts /\ o.auth \in {"none", "named"}
  BY DEF Op
<1>2. TerminalRoute(o) \in Route
  BY <1>1 DEF TerminalRoute, Route
<1>3. forwardRoute(e) \in Route
  BY DEF forwardRoute, Route
<1> QED
  BY <1>1, <1>2, <1>3, AddType, RemoveType, NoEdgeChangeType DEF EdgePlan

\* PlanRename returns an edge change on an edge that routes the old name.
LEMMA RenamePlanType ==
    ASSUME NEW o \in Op, NEW s \in EdgeState, HasHost(s, o.old)
    PROVE  RenamePlan(o, s) \in EdgeChange
<1>1. o.host \in Hosts /\ o.old \in Hosts
  BY DEF Op
<1>2. findRoute(s, o.old) \in Route
  BY <1>1, FindRouteType DEF HasHost
<1>3. RenameRoute(o, s) \in Route
  BY <1>2 DEF RenameRoute, Route
<1> QED
  BY <1>1, <1>3 DEF RenamePlan, EdgeChange, NoRoutes, RouteTable

\* The compensating change is an edge change.
LEMMA InvertEdgeType ==
    ASSUME NEW c \in EdgeChange, NEW s \in EdgeState
    PROVE  invertEdge(c, s) \in EdgeChange
<1>1. \A h \in Hosts : findRoute(s, h) \in Route \cup {NoRoute}
  BY FindRouteType
<1> QED
  BY <1>1 DEF invertEdge, EdgeChange, RouteTable, AddedHosts

\* Applying a change leaves an edge state.
LEMMA WriteType ==
    ASSUME NEW e \in Edges, NEW s \in EdgeState, NEW c \in EdgeChange
    PROVE  Write(e, s, c) \in EdgeState
<1>1. \A h \in Hosts : c.add[h] # NoRoute => Render(e, c.add[h]) \in Route
  BY DEF EdgeChange, RouteTable, Render, Route
<1> DEFINE m == [h \in Hosts |->
                    IF c.add[h] # NoRoute THEN Render(e, c.add[h])
                    ELSE IF h \in c.remove THEN NoRoute
                    ELSE s.mine[h]]
           x == [h \in Hosts |->
                    IF /\ EdgeKind[e] = "caddy_durable"
                       /\ h \in c.remove /\ s.mine[h] = NoRoute
                    THEN NoRoute
                    ELSE s.other[h]]
           d == s.deny \/ EdgeKind[e] = "nginx"
<1>2. m \in RouteTable
  BY <1>1 DEF EdgeState, RouteTable
<1>3. x \in RouteTable
  BY DEF EdgeState, RouteTable
<1>4. d \in BOOLEAN
  BY DEF EdgeState
<1>5. Write(e, s, c) = [s EXCEPT !.mine = m, !.other = x, !.deny = d]
  BY DEF Write
<1> HIDE DEF m, x, d
<1> QED
  BY <1>2, <1>3, <1>4, <1>5 DEF EdgeState

\* The hosts of a config are hosts.
LEMMA LoadType ==
    ASSUME NEW e \in Edges, NEW s \in EdgeState
    PROVE  Load(e, s) \in EdgeState
<1>1. RoutedHosts(s) \in SUBSET Hosts
  BY DEF RoutedHosts
<1> QED
  BY <1>1 DEF Load, EdgeState

\* An edge call that works leaves an edge state.
LEMMA NominalType ==
    ASSUME NEW e \in Edges, NEW s \in EdgeState, NEW c \in EdgeChange
    PROVE  Nominal(e, s, c).s \in EdgeState
BY WriteType, LoadType DEF Nominal

\* An edge call that goes wrong leaves an edge state.
LEMMA FaultyType ==
    ASSUME NEW e \in Edges, NEW s \in EdgeState, NEW c \in EdgeChange,
           NEW kinds, NEW f \in Faulty(e, s, c, kinds)
    PROVE  f.s \in EdgeState
<1>1. Write(e, s, c) \in EdgeState
  BY WriteType
<1>2. [c EXCEPT !.remove = {}] \in EdgeChange
  BY DEF EdgeChange
<1>3. Write(e, s, [c EXCEPT !.remove = {}]) \in EdgeState
  BY <1>2, WriteType
<1>4. \A w \in BOOLEAN : [Write(e, s, c) EXCEPT !.wedged = w] \in EdgeState
  BY <1>1 DEF EdgeState
<1> QED
  BY <1>1, <1>3, <1>4 DEF Faulty

\* Persisting to the boot config, and booting from it, leave an edge state.
LEMMA MergeType ==
    ASSUME NEW s \in EdgeState
    PROVE  mergeManagedRegion(s) \in EdgeState
<1>1. \A h \in Hosts : HasHost(s, h) => FileRoute(findRoute(s, h)) \in Route
  BY FindRouteType DEF FileRoute, Route, HasHost
<1>2. PersistHosts(s) \in SUBSET Hosts
  BY DEF PersistHosts
<1> DEFINE d == [h \in Hosts |-> IF h \in PersistHosts(s) THEN FileRoute(findRoute(s, h))
                                 ELSE IF h \in s.region THEN NoRoute
                                 ELSE s.disk[h]]
<1>3. d \in RouteTable
  BY <1>1 DEF PersistHosts, EdgeState, RouteTable
<1>4. mergeManagedRegion(s) = [s EXCEPT !.disk = d, !.region = PersistHosts(s)]
  BY DEF mergeManagedRegion
<1> HIDE DEF d
<1> QED
  BY <1>2, <1>3, <1>4 DEF EdgeState

\* Booting from the on-disk config leaves an edge state.
LEMMA BootType ==
    ASSUME NEW s \in EdgeState
    PROVE  Boot(s) \in EdgeState
BY NoRoutesType DEF Boot, EdgeState

-----------------------------------------------------------------------------
(***************************************************************************)
(* What the DNS drivers' operators return.                                 *)
(***************************************************************************)
\* Diff returns a DNS change.
LEMMA DiffType ==
    ASSUME NEW o \in Op, NEW p \in Providers, NEW r \in RecordOrNone
    PROVE  Diff(o, p, r) \in DnsChange
BY DnsDriverAssumption DEF Diff, DnsChange, NoDnsChange, RecordOrNone, NoRecord

\* The compensating change is a DNS change.
LEMMA InvertDnsType ==
    ASSUME NEW c \in DnsChange
    PROVE  invertDNS(c) \in DnsChange
BY DEF invertDNS, DnsChange

\* A DNS call that works leaves a record or none.
LEMMA DnsNominalType ==
    ASSUME NEW p \in Providers, NEW r \in RecordOrNone, NEW c \in DnsChange
    PROVE  DnsNominal(p, r, c).r \in RecordOrNone
<1>1. AfterRemove(p, r, c) \in RecordOrNone
  BY DEF AfterRemove, RecordOrNone
<1>2. c.add # NoValue => [value |-> c.add, ours |-> TRUE] \in RecordOrNone
  BY DEF DnsChange, RecordOrNone
<1> QED
  BY <1>1, <1>2 DEF DnsNominal

\* A DNS call that goes wrong leaves a record or none.
LEMMA DnsFaultyType ==
    ASSUME NEW p \in Providers, NEW r \in RecordOrNone, NEW c \in DnsChange,
           NEW kinds, NEW f \in DnsFaulty(p, r, c, kinds)
    PROVE  f.r \in RecordOrNone
BY DnsNominalType DEF DnsFaulty

=============================================================================
