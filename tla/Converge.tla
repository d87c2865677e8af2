------------------------------- MODULE Converge -------------------------------
(***************************************************************************)
(* The two verbs that converge a whole topology: Engine.Reconcile          *)
(* (internal/core/reconcile.go) towards the set of hosts that is live, and *)
(* Engine.ApplyDeclarative (internal/core/declarative.go) towards a file.  *)
(*                                                                         *)
(*   plan -> gate -> confirm -> adopt -> snapshot -> apply -> verify       *)
(*        -> persist                               (or rollback)           *)
(*                                                                         *)
(* Unlike the single-host verbs of module Engine a plan here touches many  *)
(* hosts at once, on every edge and provider.  Star is the name of the     *)
(* zone's wildcard: a route or a record under it answers for every host.   *)
(***************************************************************************)
EXTENDS EdgeDrivers, DnsDrivers

CONSTANTS
    Star,           \* the wildcard name, one of Hosts
    TcpCapable,     \* edges that render SNI passthrough
    ReadOnly,       \* Engine.ReadOnly
    Runs,           \* what the operator may ask for
    MaxRuns,        \* bound on the invocations of one behaviour
    FaultKinds,     \* the kinds of faults that may happen
    MaxFaults,      \* bound on the faults of one behaviour
    InitWorlds      \* initial live states

Exposure == [host   : Hosts \ {Star},
             mode   : {"http", "tcp"},
             auth   : {"none", "named"},
             edges  : SUBSET Edges,
             scopes : SUBSET {"internal", "public"}]

Run == [verb : {"reconcile", "apply"}, file : SUBSET Exposure, adopt : BOOLEAN, prune : BOOLEAN]

ZoneChange == [Hosts -> DnsChange]

NoZoneChange == [h \in Hosts |-> NoDnsChange]

PlanType == [ec    : [Edges -> EdgeChange],
             dc    : [Providers -> ZoneChange],
             adopt : [Edges -> SUBSET Hosts],
             prune : SUBSET Hosts,
             canon : RouteTable]

NoPlan == [ec    |-> [e \in Edges |-> NoEdgeChange],
           dc    |-> [p \in Providers |-> NoZoneChange],
           adopt |-> [e \in Edges |-> {}],
           prune |-> {},
           canon |-> NoRoutes]

World == [edge : [Edges -> EdgeState], zone : [Providers -> Zone]]

ASSUME ConvergeAssumption ==
    /\ Star \in Hosts
    /\ TcpCapable \subseteq Edges
    /\ ReadOnly \in BOOLEAN
    /\ Runs \subseteq Run /\ Runs # {}
    /\ MaxRuns \in Nat /\ MaxFaults \in Nat
    /\ InitWorlds \subseteq World

\* What the drivers report of a route: a marker makes it crenel's, whatever
\* stands in a generated config is foreign, and the file drivers read no TLS
\* hop.
Marked(e, s) == \A h \in Hosts :
    /\ s.mine[h] # NoRoute =>
        /\ s.mine[h].owner = IF e \in Generated THEN "foreign" ELSE "crenel"
        /\ FileEdge(e) => ~ s.mine[h].tls
    /\ s.other[h] # NoRoute =>
        /\ e \in Generated => s.other[h].owner = "foreign"
        /\ FileEdge(e) => ~ s.other[h].tls

ASSUME MarkedAssumption ==
    \A w \in InitWorlds : \A e \in Edges : Marked(e, w.edge[e])

VARIABLES
    edge,       \* live state of every edge
    zone,       \* live records of every DNS provider
    pc,         \* where the running invocation is
    run,        \* what was asked for
    plan,       \* the previewed plan
    snap,       \* edge states read before the first write
    todo,       \* edges to adopt on, then steps not yet run
    applied,    \* steps whose compensator is pending
    outcome,    \* how the last invocation ended
    rbErr,      \* targets named in RollbackErrors
    runsLeft, credit,
    pre,        \* history: the world the plan was computed from
    tainted     \* history: targets changed since by anything but a sound call

world == <<edge, zone>>
vars == <<world, pc, run, plan, snap, todo, applied, outcome, rbErr, runsLeft, credit, pre, tainted>>

-----------------------------------------------------------------------------
(***************************************************************************)
(* What is exposed now, and how it should look.  A plan is computed from   *)
(* one read of the world w: the state s of an edge, the zone z of a        *)
(* provider.                                                               *)
(***************************************************************************)
\* The managed boundary: the service is fronted by some edge.
anyFronts(h) == \E e \in Edges : h \in Fronts[e]

FirstWired(E) == CHOOSE e \in E : \A f \in E \ {e} : WirePos[e] < WirePos[f]

\* The route whose mode and auth are canonical for h: that of the first edge
\* that serves h itself, else that of the first edge that has any.
canonicalRouteOf(w, h) ==
    LET has      == {e \in Edges : HasHost(w.edge[e], h)}
        terminal == {e \in has : roleFor(e, h) = "terminal"}
    IN  IF has = {} \/ ~ anyFronts(h) THEN NoRoute
        ELSE findRoute(w.edge[FirstWired(IF terminal # {} THEN terminal ELSE has)], h)

canonicalState(w) == [h \in Hosts |-> canonicalRouteOf(w, h)]

\* Mutant of canonicalChainRoute: the route comes back without its gate.
canonicalUngated(e, h, r) ==
    IF roleFor(e, h) = "forward" THEN forwardRoute(e)
    ELSE [mode |-> r.mode, dial |-> "origin", auth |-> "none", tls |-> FALSE, owner |-> "crenel"]

\* canonicalRoute and canonicalChainRoute.
canonicalChainRoute(e, h, r) ==
    IF roleFor(e, h) = "forward" THEN forwardRoute(e)
    ELSE [mode |-> r.mode, dial |-> "origin", auth |-> r.auth, tls |-> FALSE, owner |-> "crenel"]

\* The driver's Plan, or forwardRoute, refuses to render it.
CannotPlan(e, h, r) ==
    IF roleFor(e, h) = "forward" THEN e \notin DownstreamAddress
    ELSE \/ r.mode = "tcp" /\ e \notin TcpCapable
         \/ r.auth = "named" /\ e \notin AuthCapable
         \/ r.auth = "detected" /\ AdminEdge(e)

\* A chain front relays the whole zone through one wildcard route.
wildcardForwards(s) == HasHost(s, Star) /\ findRoute(s, Star).dial = "downstream"

MissingRoute(e, s, h, r) ==
    /\ r # NoRoute /\ roleFor(e, h) # "none" /\ ~ HasHost(s, h)
    /\ ~ (roleFor(e, h) = "forward" /\ wildcardForwards(s))

ModeMismatch(e, s, h, r) ==
    /\ r # NoRoute /\ roleFor(e, h) # "none" /\ HasHost(s, h)
    /\ findRoute(s, h).mode # r.mode

reconcileEdge(e, s, canon) ==
    [add    |-> [h \in Hosts |->
                    IF MissingRoute(e, s, h, canon[h]) \/ ModeMismatch(e, s, h, canon[h])
                    THEN canonicalChainRoute(e, h, canon[h]) ELSE NoRoute],
     remove |-> {h \in Hosts : ModeMismatch(e, s, h, canon[h])}]

\* dnsCoverageRecords: what the zone answers, other people's records included.
\* A wildcard answers where there is no exact record.
exactCoverageMatch(p, z, h) == z[h].value = Target[p]
wildcardCoverageMatch(p, z) == z[Star].value = Target[p]

\* A record is demanded at p for h.
Demanded(p, h) == h \in Covers[p] /\ ~ (Scope[p] = "public" /\ internalScoped(h))

MissingRecord(p, z, h) ==
    /\ LiveValue(p, z[h]) = NoValue
    /\ ~ exactCoverageMatch(p, z, h)
    /\ ~ wildcardCoverageMatch(p, z)

WrongTarget(p, z, h) ==
    OwnsAllLiveRecords(p) /\ LiveValue(p, z[h]) \notin {NoValue, Target[p]}

\* Mutant of StaleRecord: the wildcard is a record like any other.
StaleUnexposed(p, z, h, canon) ==
    /\ h \in Covers[p] /\ LiveValue(p, z[h]) # NoValue
    /\ canon[h] = NoRoute

\* A record of a managed service whose host no edge exposes; never a wildcard.
StaleRecord(p, z, h, canon) ==
    /\ h # Star /\ h \in Covers[p] /\ LiveValue(p, z[h]) # NoValue
    /\ anyFronts(h) /\ canon[h] = NoRoute

reconcileZone(p, z, canon) ==
    [h \in Hosts |->
        IF canon[h] # NoRoute /\ Demanded(p, h) /\ (MissingRecord(p, z, h) \/ WrongTarget(p, z, h))
        THEN [add |-> Target[p], remove |-> NoValue]
        ELSE IF StaleRecord(p, z, h, canon)
        THEN [add |-> NoValue, remove |-> LiveValue(p, z[h])]
        ELSE NoDnsChange]

planReconcile(w) ==
    LET canon == canonicalState(w) IN
    [NoPlan EXCEPT !.canon = canon,
                   !.ec    = [e \in Edges |-> reconcileEdge(e, w.edge[e], canon)],
                   !.dc    = [p \in Providers |-> reconcileZone(p, w.zone[p], canon)]]

planReconcileFails(w) ==
    LET canon == canonicalState(w) IN
    \E e \in Edges, h \in Hosts :
        reconcileEdge(e, w.edge[e], canon).add[h] # NoRoute /\ CannotPlan(e, h, canon[h])

-----------------------------------------------------------------------------
(***************************************************************************)
(* The diff of a file against the live state.                              *)
(***************************************************************************)
targetEdges(x) == {e \in Edges : edgeSelected(x, e) /\ x.host \in Fronts[e]}

\* A file wants one route of a host on an edge.
ASSUME FileAssumption ==
    \A r \in Runs : \A x, y \in r.file :
        x.host = y.host /\ targetEdges(x) \cap targetEdges(y) # {} => x = y

desiredHosts(r) == {x.host : x \in r.file}

managedRoute(s, h) == HasHost(s, h) /\ findRoute(s, h).owner = "crenel"

Unmanaged(s, h) == HasHost(s, h) /\ ~ managedRoute(s, h)

\* A host that is there without crenel's marker and cannot be taken over.
Blocked(r, x, s) ==
    /\ Unmanaged(s, x.host)
    /\ \/ findRoute(s, x.host).owner \in {"foreign", "unknown"}
       \/ findRoute(s, x.host).dial # "origin"
       \/ ~ r.adopt

declaredRoute(x) ==
    [mode |-> x.mode, dial |-> "origin", auth |-> x.auth, tls |-> FALSE, owner |-> "crenel"]

declaredAdds(r, e, s) ==
    [h \in Hosts |->
        IF \E x \in r.file : x.host = h /\ e \in targetEdges(x) /\ ~ HasHost(s, h)
        THEN declaredRoute(CHOOSE x \in r.file : x.host = h /\ e \in targetEdges(x))
        ELSE NoRoute]

\* --prune: crenel's own routes of hosts that are not in the file.
ownRoute(s, h) == s.mine[h] # NoRoute /\ s.mine[h].owner = "crenel"

prunedHosts(r, s) ==
    {h \in Hosts : r.prune /\ ownRoute(s, h) /\ h \notin desiredHosts(r)}

\* Records are added by key only: a wrong value is left alone, and the
\* internal-only declaration of a service is not asked for.
declaredZone(r, p, z) ==
    [h \in Hosts |->
        IF /\ h \in Covers[p] /\ LiveValue(p, z[h]) = NoValue
           /\ \E x \in r.file : x.host = h /\ scopeSelected(x, p)
        THEN [add |-> Target[p], remove |-> NoValue]
        ELSE IF /\ r.prune /\ h \in Covers[p] /\ LiveValue(p, z[h]) # NoValue
                /\ anyFronts(h) /\ h \notin desiredHosts(r)
        THEN [add |-> NoValue, remove |-> LiveValue(p, z[h])]
        ELSE NoDnsChange]

adoptedHosts(r, e, s) ==
    {x.host : x \in {y \in r.file :
        e \in targetEdges(y) /\ Unmanaged(s, y.host) /\ ~ Blocked(r, y, s)}}

planDeclarative(r, w) ==
    [ec    |-> [e \in Edges |-> [add    |-> declaredAdds(r, e, w.edge[e]),
                                 remove |-> prunedHosts(r, w.edge[e])]],
     dc    |-> [p \in Providers |-> declaredZone(r, p, w.zone[p])],
     adopt |-> [e \in Edges |-> adoptedHosts(r, e, w.edge[e])],
     prune |-> UNION {prunedHosts(r, w.edge[e]) : e \in Edges},
     canon |-> NoRoutes]

planDeclarativeFails(r, w) ==
    \/ \E x \in r.file : x.mode = "tcp" /\ x.auth = "named"     \* ValidateAuth
    \/ \E x \in r.file : \E e \in targetEdges(x) :
        ~ HasHost(w.edge[e], x.host) /\ CannotPlan(e, x.host, declaredRoute(x))

ApplyBlocked(r, w) == \E x \in r.file : \E e \in targetEdges(x) : Blocked(r, x, w.edge[e])

\* declarativeNewPublic.
NewPublic(pl) ==
    IF \E p \in Providers : Scope[p] = "public"
    THEN {h \in Hosts : \E p \in Providers : Scope[p] = "public" /\ pl.dc[p][h].add # NoValue}
    ELSE UNION {AddedHosts(pl.ec[e]) : e \in Edges}

-----------------------------------------------------------------------------
PlanOf(r, w) == IF r.verb = "reconcile" THEN planReconcile(w) ELSE planDeclarative(r, w)

PlanFails(r, w) ==
    \/ ReadOnly
    \/ r.verb = "reconcile" /\ planReconcileFails(w)
    \/ r.verb = "apply" /\ (planDeclarativeFails(r, w) \/ ApplyBlocked(r, w))

Steps(pl) == {e \in Edges : ~ EmptyEdgeChange(pl.ec[e])}
             \cup {p \in Providers : pl.dc[p] # NoZoneChange}

Adopting(pl) == {e \in Edges : pl.adopt[e] # {}}

gateOwnership(pl, w) ==
    \E e \in Edges :
        /\ ~ EmptyEdgeChange(pl.ec[e])
        /\ \/ e \in Generated
           \/ \E h \in touchedHosts(pl.ec[e]) : OwnerRefuses(ownershipByHost(w.edge[e], h))

\* The world as the drivers read it now.
Live == [edge |-> edge, zone |-> zone]

Init ==
    /\ \E w \in InitWorlds : edge = w.edge /\ zone = w.zone
    /\ pc = "idle"
    /\ run = CHOOSE r \in Runs : TRUE
    /\ plan = NoPlan
    /\ snap = edge
    /\ todo = {} /\ applied = {}
    /\ outcome = "none"
    /\ rbErr = {}
    /\ runsLeft = MaxRuns /\ credit = MaxFaults
    /\ pre = Live
    /\ tainted = {}

Fault(kind) == kind \in FaultKinds /\ credit > 0 /\ credit' = credit - 1

Finish(out) == pc' = "done" /\ outcome' = out

\* The operator runs reconcile or apply; everything up to the prompt reads.
Begin ==
    /\ pc \in {"idle", "done"}
    /\ runsLeft > 0
    /\ runsLeft' = runsLeft - 1
    /\ \E r \in Runs :
        /\ run' = r
        /\ \/ /\ PlanFails(r, Live)
              /\ Finish("refused")
              /\ plan' = NoPlan
           \/ /\ ~ PlanFails(r, Live)
              /\ plan' = PlanOf(r, Live)
              /\ IF Steps(plan') = {} /\ Adopting(plan') = {} THEN Finish("noop")
                 ELSE IF gateOwnership(plan', Live) THEN Finish("refused")
                 ELSE pc' = "confirm" /\ outcome' = "none"
    /\ pre' = Live
    /\ snap' = edge /\ todo' = {} /\ applied' = {} /\ rbErr' = {} /\ tainted' = {}
    /\ UNCHANGED <<world, credit>>

\* The plan is confirmed as it was previewed, however long ago.
Confirm ==
    /\ pc = "confirm"
    /\ \/ Finish("declined") /\ UNCHANGED todo
       \/ pc' = "adopt" /\ todo' = Adopting(plan) /\ UNCHANGED outcome
    /\ UNCHANGED <<world, run, plan, snap, applied, rbErr, runsLeft, credit, pre, tainted>>

\* Driver.Adopt: the routes found for the hosts get crenel's marker.
Adopted(s, H) ==
    [s EXCEPT !.mine  = [h \in Hosts |-> IF h \in H /\ s.other[h] # NoRoute
                                         THEN [s.other[h] EXCEPT !.owner = "crenel"]
                                         ELSE s.mine[h]],
              !.other = [h \in Hosts |-> IF h \in H THEN NoRoute ELSE s.other[h]]]

\* adoptInline, one edge; an error ends the run and undoes nothing.
AdoptStep ==
    /\ pc = "adopt" /\ todo # {}
    /\ LET e == FirstWired(todo) IN
        \/ /\ edge' = [edge EXCEPT ![e] = Adopted(@, plan.adopt[e])]
           /\ todo' = todo \ {e}
           /\ UNCHANGED <<pc, outcome, credit, tainted>>
        \/ /\ Fault("err")
           /\ Finish("failed")
           /\ tainted' = tainted \cup {e}
           /\ UNCHANGED <<edge, todo>>
    /\ UNCHANGED <<zone, run, plan, snap, applied, rbErr, runsLeft, pre>>

Snapshot ==
    /\ pc = "adopt" /\ todo = {}
    /\ snap' = edge
    /\ todo' = Steps(plan)
    /\ pc' = "apply"
    /\ UNCHANGED <<world, run, plan, applied, outcome, rbErr, runsLeft, credit, pre, tainted>>

-----------------------------------------------------------------------------
\* A provider call over many names stops at the first add that is refused; the
\* removes come first, the adds before it have landed.
ZoneOutcomes(p, z, c) ==
    LET refused == {h \in Hosts : AddRefused(p, z[h], c[h])} IN
    IF refused = {}
    THEN {[z |-> [h \in Hosts |-> DnsNominal(p, z[h], c[h]).r], err |-> FALSE]}
    ELSE {[z   |-> [h \in Hosts |-> IF h \in S THEN DnsNominal(p, z[h], c[h]).r
                                    ELSE AfterRemove(p, z[h], c[h])],
           err |-> TRUE] : S \in SUBSET (Hosts \ refused)}

CallEdge(e, c, failed) ==
    \/ LET n == Nominal(e, edge[e], c) IN
       /\ edge' = [edge EXCEPT ![e] = n.s]
       /\ failed = n.err
       /\ UNCHANGED <<zone, credit, tainted>>
    \/ /\ credit > 0
       /\ \E f \in Faulty(e, edge[e], c, FaultKinds) :
            edge' = [edge EXCEPT ![e] = f.s] /\ failed = f.err
       /\ credit' = credit - 1
       /\ tainted' = tainted \cup {e}
       /\ UNCHANGED zone

CallProvider(p, c, failed) ==
    /\ UNCHANGED edge
    /\ \/ /\ \E o \in ZoneOutcomes(p, zone[p], c) :
               zone' = [zone EXCEPT ![p] = o.z] /\ failed = o.err
          /\ UNCHANGED <<credit, tainted>>
       \/ /\ Fault("err") /\ failed
          /\ tainted' = tainted \cup {p}
          /\ UNCHANGED zone

Do(t, failed) == \/ t \in Edges /\ CallEdge(t, plan.ec[t], failed)
                 \/ t \in Providers /\ CallProvider(t, plan.dc[t], failed)

Undo(t, failed) ==
    \/ t \in Edges /\ CallEdge(t, invertEdge(plan.ec[t], snap[t]), failed)
    \/ t \in Providers
       /\ CallProvider(t, [h \in Hosts |-> invertDNS(plan.dc[t][h])], failed)

StartRollback ==
    IF applied # {} THEN pc' = "rollback" /\ UNCHANGED outcome ELSE Finish("failed")

\* Steps run in the order of an expose, whatever the plan removes.
ApplyStep ==
    /\ pc = "apply"
    /\ \E t \in todo :
        /\ First("expose", t, todo)
        /\ Do(t, FALSE)
        /\ todo' = todo \ {t}
        /\ applied' = applied \cup {t}
    /\ UNCHANGED <<pc, run, plan, snap, outcome, rbErr, runsLeft, pre>>

ApplyFails ==
    /\ pc = "apply"
    /\ \E t \in todo : First("expose", t, todo) /\ Do(t, TRUE)
    /\ StartRollback
    /\ UNCHANGED <<run, plan, snap, todo, applied, rbErr, runsLeft, pre>>

\* Mutant of verifyReconcileEdge: the mode is not read back.
ReachableOnly(e, s) ==
    s.deny /\ \A h \in Hosts :
        plan.canon[h] # NoRoute /\ roleFor(e, h) # "none" => Reachable(s, h) \/ wildcardForwards(s)

verifyReconcileEdge(e, s) ==
    /\ s.deny
    /\ \A h \in Hosts :
        plan.canon[h] # NoRoute /\ roleFor(e, h) # "none" =>
            \/ roleFor(e, h) = "forward" /\ ~ Reachable(s, h) /\ wildcardForwards(s)
            \/ Reachable(s, h) /\ findRoute(s, h).mode = plan.canon[h].mode
    /\ verifyEdgeAuth(s, plan.ec[e])

\* The records added are looked up by key, whatever their value.
verifyReconcileZone(p, z) ==
    \A h \in Hosts : LET c == plan.dc[p][h] IN
        /\ c.add # NoValue => LiveValue(p, z[h]) # NoValue
        /\ c.remove # NoValue => LiveValue(p, z[h]) = NoValue

verifyDeclarativeEdge(e, s) ==
    /\ s.deny
    /\ \A h \in (AddedHosts(plan.ec[e]) \cup plan.adopt[e]) \ plan.prune : Reachable(s, h)
    /\ \A h \in plan.prune : ~ HasHost(s, h)
    /\ verifyEdgeAuth(s, plan.ec[e])
    /\ verifyEdgeForwardTLS(s, plan.ec[e])

verifyDeclarativeZone(p, z) ==
    \A h \in Hosts : LET c == plan.dc[p][h] IN
        /\ c.add # NoValue => LiveValue(p, z[h]) = c.add
        /\ c.remove # NoValue => LiveValue(p, z[h]) = NoValue

\* Mutant of ReadBackOK: edges the plan does not change are not read back.
ReadBackChanged ==
    \A e \in Edges \cap Steps(plan) :
        IF run.verb = "reconcile" THEN verifyReconcileEdge(e, edge[e]) ELSE verifyDeclarativeEdge(e, edge[e])

ReadBackOK ==
    IF run.verb = "reconcile"
    THEN /\ \A e \in Edges : verifyReconcileEdge(e, edge[e])
         /\ \A p \in Providers : verifyReconcileZone(p, zone[p])
    ELSE /\ \A e \in Edges : verifyDeclarativeEdge(e, edge[e])
         /\ \A p \in Providers : verifyDeclarativeZone(p, zone[p])

\* persistEdges of a changed edge that has a persist path.
Persisted(e, s) ==
    IF EdgeKind[e] = "caddy_durable" /\ e \in Steps(plan) /\ ~ PersistBlocked(s)
    THEN Boot(mergeManagedRegion(s)) ELSE s

\* The read-back asks no daemon, so gateRuntimeVerify has nothing to refuse.
Verify ==
    /\ pc = "apply" /\ todo = {}
    /\ \/ /\ ReadBackOK
          /\ edge' = [e \in Edges |-> Persisted(e, edge[e])]
          /\ Finish("applied")
       \/ /\ ~ ReadBackOK
          /\ StartRollback
          /\ UNCHANGED edge
    /\ UNCHANGED <<zone, run, plan, snap, todo, applied, rbErr, runsLeft, credit, pre, tainted>>

RollbackStep ==
    /\ pc = "rollback"
    /\ \E t \in applied :
        /\ Last("expose", t, applied)
        /\ applied' = applied \ {t}
        /\ \/ Undo(t, TRUE) /\ rbErr' = rbErr \cup {t}
           \/ Undo(t, FALSE) /\ UNCHANGED rbErr
    /\ IF applied' = {} THEN Finish("failed") ELSE UNCHANGED <<pc, outcome>>
    /\ UNCHANGED <<run, plan, snap, todo, runsLeft, pre>>

-----------------------------------------------------------------------------
\* Another tool deletes a route, or puts up one of its own, for a host.
EdgeEdits(s) ==
    {[s EXCEPT !.mine[h] = NoRoute] : h \in Hosts}
    \cup {[s EXCEPT !.other[h] = [mode |-> "http", dial |-> "elsewhere", auth |-> "none",
                                  tls |-> FALSE, owner |-> "foreign"]] : h \in Hosts}

\* (Edits made before a run are initial worlds of their own.)
Running == pc \notin {"idle", "done"}

OutOfBandEdge ==
    /\ Running /\ Fault("outofband")
    /\ \E e \in Edges : \E s \in EdgeEdits(edge[e]) \ {edge[e]} :
        /\ edge' = [edge EXCEPT ![e] = s]
        /\ tainted' = tainted \cup {e}
    /\ UNCHANGED <<zone, pc, run, plan, snap, todo, applied, outcome, rbErr, runsLeft, pre>>

OutOfBandZone ==
    /\ Running /\ Fault("outofband")
    /\ \E p \in Providers, h \in Hosts :
        \E r \in ({NoRecord} \cup [value : Values, ours : {FALSE}]) \ {zone[p][h]} :
            /\ zone' = [zone EXCEPT ![p] = [@ EXCEPT ![h] = r]]
            /\ tainted' = tainted \cup {p}
    /\ UNCHANGED <<edge, pc, run, plan, snap, todo, applied, outcome, rbErr, runsLeft, pre>>

Crenel == \/ Confirm \/ AdoptStep \/ Snapshot \/ ApplyStep \/ ApplyFails \/ Verify \/ RollbackStep

Next == Begin \/ Crenel \/ OutOfBandEdge \/ OutOfBandZone

Spec == Init /\ [][Next]_vars
-----------------------------------------------------------------------------
(***************************************************************************)
(* Type correctness of the state.                                          *)
(***************************************************************************)
TypeOK ==
    /\ edge \in [Edges -> EdgeState]
    /\ zone \in [Providers -> Zone]
    /\ pc \in {"idle", "confirm", "adopt", "apply", "rollback", "done"}
    /\ run \in Run
    /\ plan \in PlanType
    /\ snap \in [Edges -> EdgeState]
    /\ todo \subseteq Targets /\ applied \subseteq Targets
    /\ outcome \in {"none", "refused", "noop", "declined", "failed", "applied"}
    /\ rbErr \subseteq Targets /\ tainted \subseteq Targets
    /\ runsLeft \in Nat /\ credit \in Nat
    /\ pre \in World

Clean == Targets \ (tainted \cup rbErr)

Reconciling == run.verb = "reconcile"

StopsHalfway(p) == \E h \in Hosts : AddRefused(p, pre.zone[p][h], plan.dc[p][h])

Landed == pc = "done" /\ outcome = "applied"

\* Persist reloaded the edge from its boot config.
Reloaded(e) == Landed /\ EdgeKind[e] = "caddy_durable" /\ e \in Steps(plan)

(***************************************************************************)
(* Converging is idempotent: after a reconcile or an apply that nothing    *)
(* disturbed, the same verb finds nothing left to do (planReconcile and    *)
(* planDeclarative against what the drivers wrote and adopted).  Left out  *)
(* is a topology in which a boot config was loaded over the live one.      *)
(***************************************************************************)
ConvergedStaysConverged ==
    Landed /\ tainted = {} /\ (\A e \in Edges : ~ Reloaded(e)) =>
        /\ ~ PlanFails(run, Live)
        /\ Steps(PlanOf(run, Live)) = {}
        /\ Adopting(PlanOf(run, Live)) = {}

(***************************************************************************)
(* No ungated copy: a route that appears on an edge which serves the host  *)
(* itself is without forward-auth only if the first edge that served the   *)
(* host was without (reconcile) or the file asked for none (apply).  The   *)
(* relay of a chain front carries no auth and must never set it.  Left out *)
(* is a route that the operator's own part of a boot config brings back.   *)
(***************************************************************************)
Ungated(s, h) == HasHost(s, h) /\ findRoute(s, h).auth = "none"

UngatedBefore(h) ==
    LET serving == {e \in Edges : roleFor(e, h) = "terminal" /\ HasHost(pre.edge[e], h)}
    IN  serving = {} \/ Ungated(pre.edge[FirstWired(serving)], h)

NoUngatedCopy ==
    \A e \in Edges \cap Clean, h \in Hosts :
        /\ roleFor(e, h) = "terminal"
        /\ Ungated(edge[e], h) /\ ~ HasHost(pre.edge[e], h)
        /\ ~ (Reloaded(e) /\ h \notin edge[e].region)
        => IF Reconciling THEN UngatedBefore(h) ELSE \E x \in run.file : x.host = h /\ x.auth = "none"

(***************************************************************************)
(* The managed boundary: no step of either verb, rollback included,        *)
(* changes a route without crenel's marker, other than to mark one the     *)
(* file adopts, nor a record of a service no edge fronts, a record crenel  *)
(* does not own at a provider that marks its own, or, in a reconcile, a    *)
(* wildcard at a provider that does not.  Left out are the two things only *)
(* a durable Caddy edge does to an unmarked route: it sweeps the one it is *)
(* told to remove, and a persist loads the boot config over all of them.   *)
(***************************************************************************)
OthersKept ==
    /\ \A e \in Edges \cap Clean, h \in Hosts : LET was == pre.edge[e].other[h] IN
        was # NoRoute =>
            \/ edge[e].other[h] = was
            \/ h \in plan.adopt[e] /\ edge[e].mine[h] = [was EXCEPT !.owner = "crenel"]
            \/ EdgeKind[e] = "caddy_durable" /\ h \in plan.ec[e].remove
            \/ Reloaded(e)
    /\ \A p \in Providers \cap Clean, h \in Hosts :
        /\ pre.zone[p][h].value # NoValue
        /\ \/ ~ anyFronts(h)
           \/ OwnsAllLiveRecords(p) /\ ~ pre.zone[p][h].ours
           \/ h = Star /\ Reconciling /\ ~ OwnsAllLiveRecords(p)
        => zone[p][h] = pre.zone[p][h]

(***************************************************************************)
(* Nothing goes dark: at no point of a reconcile does an edge lose a host, *)
(* and an apply takes down only crenel's own routes of hosts that are not  *)
(* in the file, and only with --prune.  Left out are the unmarked routes   *)
(* that a reload from the boot config does not bring back.                 *)
(***************************************************************************)
NothingGoesDark ==
    \A e \in Edges \cap Clean, h \in Hosts :
        HasHost(pre.edge[e], h) /\ ~ HasHost(edge[e], h) =>
            \/ /\ ~ Reconciling /\ run.prune /\ h \notin desiredHosts(run)
               /\ pre.edge[e].mine[h] # NoRoute
            \/ Reloaded(e) /\ pre.edge[e].mine[h] = NoRoute

(***************************************************************************)
(* Announce last: a record that the run adds is up only once every edge    *)
(* that the run gives a route for the host has it, also while the run is   *)
(* being rolled back.  Left out is a provider call that was refused half   *)
(* way: what it wrote stays up while the routes are rolled back.  (The     *)
(* records that --prune removes go after their routes: both kinds of       *)
(* change run in the order of an expose.)                                  *)
(***************************************************************************)
NamesLast ==
    \A p \in Providers \cap Clean, e \in Edges \cap Clean, h \in Hosts :
        /\ plan.dc[p][h].add # NoValue /\ zone[p][h].value # NoValue
        /\ pre.zone[p][h].value = NoValue /\ ~ StopsHalfway(p)
        /\ h \in AddedHosts(plan.ec[e])
        => HasHost(edge[e], h)

(***************************************************************************)
(* A failed run restores: every edge and provider that no fault touched    *)
(* routes and answers what it did before.  Left out are the marker of an   *)
(* adopted route, which adoptInline writes before the transaction and      *)
(* nothing undoes; the marked copy that the rollback of a re-rendered      *)
(* unmarked route leaves; a re-asserted record value, which travels as an  *)
(* add and is undone by deleting the record; and the records a provider    *)
(* call wrote before it was refused another one.                           *)
(***************************************************************************)
FailedRunRestores ==
    pc = "done" /\ outcome = "failed" =>
        /\ \A e \in Edges \cap Clean, h \in Hosts :
            /\ HasHost(edge[e], h) <=> HasHost(pre.edge[e], h)
            /\ \/ edge[e].mine[h] = pre.edge[e].mine[h]
               \/ h \in plan.adopt[e]
               \/ h \in plan.ec[e].remove /\ pre.edge[e].other[h] # NoRoute
        /\ \A p \in Providers \cap Clean, h \in Hosts :
            ~ StopsHalfway(p) /\ ~ (plan.dc[p][h].add # NoValue /\ pre.zone[p][h].value # NoValue)
            => zone[p][h].value = pre.zone[p][h].value

(***************************************************************************)
(* The read-back looks at the whole topology: when a reconcile passes it,  *)
(* whatever happened since the plan was made, every edge that takes part   *)
(* in serving a host of the plan's canonical set routes it in one and the  *)
(* same mode, itself or through a wildcard forward, behind a default-deny. *)
(***************************************************************************)
VerifiedEdgesAgree ==
    [][Reconciling /\ pc = "apply" /\ pc' = "done" /\ outcome' = "applied" =>
        \A e \in Edges : /\ edge[e].deny
            /\ \A f \in Edges, h \in Hosts :
                /\ plan.canon[h] # NoRoute
                /\ roleFor(e, h) = "terminal" /\ roleFor(f, h) # "none"
                => /\ HasHost(edge[e], h)
                   /\ \/ /\ HasHost(edge[f], h)
                         /\ findRoute(edge[f], h).mode = findRoute(edge[e], h).mode
                      \/ roleFor(f, h) = "forward" /\ wildcardForwards(edge[f])]_vars

=============================================================================
