---------------------------- MODULE ConvergeProofs ----------------------------
(***************************************************************************)
(* Proofs about module Converge, for every wiring, every file and every    *)
(* number of runs and faults.                                              *)
(***************************************************************************)
EXTENDS Converge, DriverProofs, WellFoundedInduction

-----------------------------------------------------------------------------
(***************************************************************************)
(* The wiring order picks an edge of any set of edges that is not empty.   *)
(***************************************************************************)
\* A set of edges that is not empty has a first one (the loops over
\* Engine.Edges stop at it).
LEMMA FirstWiredIn ==
    ASSUME NEW E \in SUBSET Edges, E # {}
    PROVE  FirstWired(E) \in E
<1> DEFINE T == {WirePos[e] : e \in E}
<1>1. \A e \in E : WirePos[e] \in Nat /\ e \in Targets
  BY TopologyAssumption DEF Targets
<1>2. T \subseteq Nat /\ T # {}
  BY <1>1
<1>3. \E n \in T : \A m \in T : ~ (<<m, n>> \in OpToRel(<, Nat))
  <2> HIDE DEF T
  <2> QED
    BY <1>2, NatLessThanWellFounded, WFMin
<1>4. PICK n \in T : \A m \in T : ~ (<<m, n>> \in OpToRel(<, Nat))
  BY <1>3
<1>5. \A m \in T : ~ (m < n)
  BY <1>2, <1>4 DEF OpToRel
<1>6. PICK e \in E : n = WirePos[e]
  BY <1>4
<1>7. \A f \in E \ {e} : WirePos[e] < WirePos[f]
  BY <1>1, <1>5, <1>6, WiringAssumption
<1> QED
  BY <1>7 DEF FirstWired

-----------------------------------------------------------------------------
(***************************************************************************)
(* The inductive invariant.  A target that no fault touched is always at   *)
(* one of a few images of the state pre that the plan was computed from.   *)
(***************************************************************************)
\* Two edge states that route alike: they differ only in what the daemon has
\* loaded, the deny rule, the admin API's health and the boot config.
SameRoutes(s, t) == s.mine = t.mine /\ s.other = t.other /\ s.first = t.first

\* After adoptInline, after the step of the plan, and after its compensator.
Base(e) == Adopted(pre.edge[e], plan.adopt[e])
Wrote(e) == Write(e, Base(e), plan.ec[e])
Undone(e) == Write(e, Wrote(e), invertEdge(plan.ec[e], Base(e)))

EdgeLeg(e) ==
    /\ \/ pc \in {"idle", "confirm"}
       \/ pc = "done" /\ outcome \in {"refused", "noop", "declined"}
       => SameRoutes(edge[e], pre.edge[e])
    /\ pc = "adopt" => SameRoutes(edge[e], IF e \in todo THEN pre.edge[e] ELSE Base(e))
    /\ pc \in {"apply", "rollback"} =>
        /\ SameRoutes(snap[e], Base(e))
        /\ SameRoutes(edge[e], IF e \in applied THEN Wrote(e)
                               ELSE IF e \in Steps(plan) \ todo THEN Undone(e)
                               ELSE Base(e))
    /\ pc = "done" /\ outcome = "failed" =>
        \/ SameRoutes(edge[e], pre.edge[e])
        \/ SameRoutes(edge[e], Base(e))
        \/ e \in Steps(plan) /\ SameRoutes(edge[e], Undone(e))
    /\ Landed => \E s \in EdgeState : SameRoutes(s, Wrote(e)) /\ edge[e] = Persisted(e, s)

Named(p) == [h \in Hosts |-> DnsNominal(p, pre.zone[p][h], plan.dc[p][h]).r]
Unnamed(p) == [h \in Hosts |-> DnsNominal(p, Named(p)[h], invertDNS(plan.dc[p][h])).r]

\* A call that was refused half way.
Halfway(p) ==
    StopsHalfway(p) /\ \A h \in Hosts :
        zone[p][h] \in {Named(p)[h], AfterRemove(p, pre.zone[p][h], plan.dc[p][h])}

ZoneLeg(p) ==
    /\ \/ pc \in {"idle", "confirm", "adopt"}
       \/ pc = "apply" /\ p \notin applied
       \/ pc = "done" /\ outcome \in {"refused", "noop", "declined"}
       => zone[p] = pre.zone[p]
    /\ \/ pc \in {"apply", "rollback"} /\ p \in applied
       \/ Landed
       => zone[p] = Named(p) /\ ~ StopsHalfway(p)
    /\ \/ pc = "rollback" /\ p \notin applied
       \/ pc = "done" /\ outcome = "failed"
       => \/ zone[p] = pre.zone[p]
          \/ zone[p] = Unnamed(p) /\ ~ StopsHalfway(p)
          \/ Halfway(p)

\* The plan is the one that was previewed, and it passed the gate.
Planned ==
    /\ pc = "done" <=> outcome # "none"
    /\ plan = NoPlan \/ plan = PlanOf(run, pre)
    /\ pc # "idle" /\ outcome # "refused" =>
        ~ PlanFails(run, pre) /\ plan = PlanOf(run, pre)
    /\ pc # "idle" /\ outcome \in {"none", "declined", "failed", "applied"} =>
        \A e \in Edges \cap Steps(plan) : e \notin Generated

\* The applied steps are a prefix of the sorted ones.
StepOrder ==
    /\ pc \in {"idle", "confirm", "adopt", "apply"} \/ Landed => rbErr = {}
    /\ pc \in {"confirm", "adopt"} => applied = {}
    /\ pc = "adopt" => todo \subseteq Edges
    /\ pc = "apply" => todo \cup applied = Steps(plan)
    /\ pc \in {"apply", "rollback"} =>
        /\ todo \cup applied \subseteq Steps(plan)
        /\ todo \cap applied = {}
        /\ \A s \in applied, t \in Steps(plan) \ applied : Before("expose", s, t)

MarkedNow == \A e \in Edges : Marked(e, edge[e]) /\ Marked(e, pre.edge[e])

\* What the read-back saw is still there.
StillVerified == Landed /\ (\A e \in Edges : ~ Reloaded(e)) => ReadBackOK

IInv ==
    /\ TypeOK
    /\ Planned
    /\ StepOrder
    /\ MarkedNow
    /\ \A e \in Edges \cap Clean : EdgeLeg(e)
    /\ \A p \in Providers \cap Clean : ZoneLeg(p)
    /\ StillVerified

-----------------------------------------------------------------------------
(***************************************************************************)
(* What a plan looks like.                                                 *)
(***************************************************************************)
\* The empty plan is a plan.
LEMMA NoPlanType == NoPlan \in PlanType
<1>1. NoZoneChange \in ZoneChange
  BY DEF NoZoneChange, ZoneChange, NoDnsChange, DnsChange
<1> QED
  BY <1>1, NoEdgeChangeType, NoRoutesType DEF NoPlan, PlanType

\* A host is in canonicalState exactly when some edge routes it and some edge
\* fronts its service, and the canonical route is a route.
LEMMA CanonFacts ==
    ASSUME NEW w \in World, NEW h \in Hosts
    PROVE  /\ canonicalState(w) \in RouteTable
           /\ canonicalState(w)[h] = canonicalRouteOf(w, h)
           /\ canonicalState(w)[h] # NoRoute <=>
                anyFronts(h) /\ \E e \in Edges : HasHost(w.edge[e], h)
<1>1. \A g \in Hosts :
        /\ canonicalRouteOf(w, g) \in Route \cup {NoRoute}
        /\ canonicalRouteOf(w, g) # NoRoute <=>
                anyFronts(g) /\ \E e \in Edges : HasHost(w.edge[e], g)
  <2> TAKE g \in Hosts
  <2> DEFINE has == {e \in Edges : HasHost(w.edge[e], g)}
             terminal == {e \in has : roleFor(e, g) = "terminal"}
             E == IF terminal # {} THEN terminal ELSE has
  <2>1. canonicalRouteOf(w, g) =
            IF has = {} \/ ~ anyFronts(g) THEN NoRoute ELSE findRoute(w.edge[FirstWired(E)], g)
    BY DEF canonicalRouteOf
  <2>2. E \subseteq has /\ has \subseteq Edges
    OBVIOUS
  <2>3. has # {} => E # {}
    OBVIOUS
  <2>4. has # {} => FirstWired(E) \in has
    <3> HIDE DEF E, has
    <3> QED
      BY <2>2, <2>3, FirstWiredIn
  <2>5. has # {} => /\ findRoute(w.edge[FirstWired(E)], g) \in Route \cup {NoRoute}
                    /\ findRoute(w.edge[FirstWired(E)], g) # NoRoute
    <3> SUFFICES ASSUME has # {}
                 PROVE  /\ findRoute(w.edge[FirstWired(E)], g) \in Route \cup {NoRoute}
                        /\ findRoute(w.edge[FirstWired(E)], g) # NoRoute
      OBVIOUS
    <3> DEFINE f == FirstWired(E)
    <3>1. f \in Edges /\ HasHost(w.edge[f], g)
      BY <2>4
    <3>2. w.edge[f] \in EdgeState
      BY <3>1 DEF World
    <3>3. findRoute(w.edge[f], g) \in Route \cup {NoRoute} /\ findRoute(w.edge[f], g) # NoRoute
      <4> HIDE DEF f
      <4> QED
        BY <3>1, <3>2, FindRouteType DEF HasHost
    <3> QED
      BY <3>3
  <2> HIDE DEF E
  <2> QED
    BY <2>1, <2>5
<1> QED
  BY <1>1 DEF canonicalState, RouteTable

\* planReconcile and planDeclarative return a plan.
LEMMA PlanOfType ==
    ASSUME NEW r \in Run, NEW w \in World
    PROVE  PlanOf(r, w) \in PlanType
<1>1. ASSUME NEW p \in Providers, NEW h \in Hosts
      PROVE  /\ [add |-> Target[p], remove |-> NoValue] \in DnsChange
             /\ [add |-> NoValue, remove |-> LiveValue(p, w.zone[p][h])] \in DnsChange
  <2>1. w.zone[p][h] \in RecordOrNone
    BY DEF World, Zone
  <2> QED
    BY <2>1, DnsDriverAssumption DEF DnsChange, LiveValue, RecordOrNone, NoRecord
<1>2. NoDnsChange \in DnsChange
  BY DEF NoDnsChange, DnsChange
<1>3. \A p \in Providers : \A c : reconcileZone(p, w.zone[p], c) \in ZoneChange
  BY <1>1, <1>2 DEF reconcileZone, ZoneChange
<1>4. \A p \in Providers : declaredZone(r, p, w.zone[p]) \in ZoneChange
  BY <1>1, <1>2 DEF declaredZone, ZoneChange
<1>5. \A e \in Edges : \A c \in RouteTable : reconcileEdge(e, w.edge[e], c) \in EdgeChange
  <2> TAKE e \in Edges
  <2> TAKE c \in RouteTable
  <2>1. forwardRoute(e) \in Route
    BY DEF forwardRoute, Route
  <2>2. \A h \in Hosts : c[h] # NoRoute => canonicalChainRoute(e, h, c[h]) \in Route
    BY <2>1 DEF canonicalChainRoute, RouteTable, Route
  <2>3. \A h \in Hosts : MissingRoute(e, w.edge[e], h, c[h]) \/ ModeMismatch(e, w.edge[e], h, c[h])
                            => c[h] # NoRoute
    BY DEF MissingRoute, ModeMismatch
  <2> QED
    BY <2>2, <2>3 DEF reconcileEdge, EdgeChange, RouteTable
<1>6. \A e \in Edges : [add    |-> declaredAdds(r, e, w.edge[e]),
                        remove |-> prunedHosts(r, w.edge[e])] \in EdgeChange
  <2> TAKE e \in Edges
  <2>1. \A x \in r.file : declaredRoute(x) \in Route
    BY DEF declaredRoute, Route, Run, Exposure
  <2>2. declaredAdds(r, e, w.edge[e]) \in RouteTable
    BY <2>1 DEF declaredAdds, RouteTable
  <2>3. prunedHosts(r, w.edge[e]) \in SUBSET Hosts
    BY DEF prunedHosts
  <2> QED
    BY <2>2, <2>3 DEF EdgeChange
<1>7. \A e \in Edges : adoptedHosts(r, e, w.edge[e]) \in SUBSET Hosts
  BY DEF adoptedHosts, Run, Exposure
<1>8. canonicalState(w) \in RouteTable
  BY CanonFacts DEF canonicalState, RouteTable
<1>9. planReconcile(w) \in PlanType
  BY <1>3, <1>5, <1>8, NoPlanType DEF planReconcile, PlanType
<1>10. planDeclarative(r, w) \in PlanType
  <2>1. UNION {prunedHosts(r, w.edge[e]) : e \in Edges} \in SUBSET Hosts
    BY DEF prunedHosts
  <2> QED
    BY <1>4, <1>6, <1>7, <2>1, NoRoutesType DEF planDeclarative, PlanType
<1> QED
  BY <1>9, <1>10 DEF PlanOf

\* What Engine.Reconcile and ApplyDeclarative ask of one edge for one host.
EdgeAsk(r, w, pl, e, h) ==
    LET was == w.edge[e]   c == pl.ec[e] IN
    /\ h \in pl.adopt[e] =>
        /\ c.add[h] = NoRoute /\ h \notin c.remove
        /\ Unmanaged(was, h) /\ findRoute(was, h).owner \notin {"foreign", "unknown"}
    /\ h \in c.remove =>
        \/ r.verb = "reconcile" /\ c.add[h] # NoRoute /\ HasHost(was, h)
        \/ /\ r.verb # "reconcile" /\ r.prune /\ h \notin desiredHosts(r)
           /\ c.add[h] = NoRoute /\ was.mine[h] # NoRoute
    /\ c.add[h] # NoRoute /\ h \notin c.remove => ~ HasHost(was, h)
    /\ c.add[h] # NoRoute /\ roleFor(e, h) = "terminal" /\ c.add[h].auth = "none" =>
        IF r.verb = "reconcile"
        THEN LET serving == {f \in Edges : roleFor(f, h) = "terminal" /\ HasHost(w.edge[f], h)}
             IN  serving = {} \/ Ungated(w.edge[FirstWired(serving)], h)
        ELSE \E x \in r.file : x.host = h /\ x.auth = "none"

\* An empty plan asks for nothing.
LEMMA NoPlanAsk ==
    ASSUME NEW r, NEW w, NEW e \in Edges, NEW h \in Hosts
    PROVE  EdgeAsk(r, w, NoPlan, e, h)
BY DEF EdgeAsk, NoPlan, NoEdgeChange, NoRoutes

\* planReconcile re-renders a route only to replace it, and copies the gate of
\* the first edge that serves the host.
LEMMA ReconcileAsk ==
    ASSUME NEW r \in Run, r.verb = "reconcile", NEW w \in World, NEW e \in Edges, NEW h \in Hosts
    PROVE  EdgeAsk(r, w, PlanOf(r, w), e, h)
<1> DEFINE canon == canonicalState(w)
           pl == PlanOf(r, w)
           c == reconcileEdge(e, w.edge[e], canon)
           add == IF MissingRoute(e, w.edge[e], h, canon[h]) \/ ModeMismatch(e, w.edge[e], h, canon[h])
                  THEN canonicalChainRoute(e, h, canon[h]) ELSE NoRoute
<1>1. pl.ec[e] = c /\ pl.adopt[e] = {}
  BY DEF PlanOf, planReconcile, NoPlan
<1>2. c.add[h] = add /\ (h \in c.remove <=> ModeMismatch(e, w.edge[e], h, canon[h]))
  BY DEF reconcileEdge
<1>3. canon[h] \in Route \cup {NoRoute} /\ canon[h] = canonicalRouteOf(w, h)
  BY CanonFacts DEF RouteTable
<1>4. canon[h] # NoRoute => canonicalChainRoute(e, h, canon[h]) # NoRoute
  <2>1. canon[h] # NoRoute => canonicalChainRoute(e, h, canon[h]) \in Route
    <3> HIDE DEF canon
    <3> QED
      BY <1>3 DEF canonicalChainRoute, forwardRoute, Route
  <2> QED
    BY <2>1, EdgeDriverAssumption
<1>5. MissingRoute(e, w.edge[e], h, canon[h]) => canon[h] # NoRoute /\ ~ HasHost(w.edge[e], h)
  BY DEF MissingRoute
<1>6. ModeMismatch(e, w.edge[e], h, canon[h]) => canon[h] # NoRoute /\ HasHost(w.edge[e], h)
  BY DEF ModeMismatch
<1>7. ASSUME add # NoRoute, roleFor(e, h) = "terminal", add.auth = "none"
      PROVE  LET serving == {f \in Edges : roleFor(f, h) = "terminal" /\ HasHost(w.edge[f], h)}
             IN  serving = {} \/ Ungated(w.edge[FirstWired(serving)], h)
  <2> DEFINE serving == {f \in Edges : roleFor(f, h) = "terminal" /\ HasHost(w.edge[f], h)}
             has      == {f \in Edges : HasHost(w.edge[f], h)}
             terminal == {f \in has : roleFor(f, h) = "terminal"}
  <2>1. canon[h].auth = "none" /\ canon[h] # NoRoute
    <3> HIDE DEF canon
    <3> QED
      BY <1>7, <1>5, <1>6 DEF canonicalChainRoute
  <2>2. canonicalRouteOf(w, h) = IF has = {} \/ ~ anyFronts(h) THEN NoRoute
              ELSE findRoute(w.edge[FirstWired(IF terminal # {} THEN terminal ELSE has)], h)
    BY DEF canonicalRouteOf
  <2>3. terminal = serving
    OBVIOUS
  <2>4. serving # {} => canon[h] = findRoute(w.edge[FirstWired(serving)], h)
    <3> HIDE DEF canon
    <3> QED
      BY <1>3, <2>1, <2>2, <2>3
  <2> HIDE DEF canon, serving
  <2>5. serving # {} => Ungated(w.edge[FirstWired(serving)], h)
    BY <2>1, <2>4 DEF Ungated, HasHost
  <2> QED
    BY <2>5 DEF serving
<1> HIDE DEF c, add, pl, canon
<1> QED
  BY <1>1, <1>2, <1>4, <1>5, <1>6, <1>7 DEF EdgeAsk, add, pl

\* planDeclarative adds what is not there, removes only with --prune, and
\* adopts what is there.
LEMMA ApplyAsk ==
    ASSUME NEW r \in Run, r.verb # "reconcile", NEW w \in World, NEW e \in Edges, NEW h \in Hosts
    PROVE  EdgeAsk(r, w, PlanOf(r, w), e, h)
<1> DEFINE pl == PlanOf(r, w)
           s == w.edge[e]
           wants == \E x \in r.file : x.host = h /\ e \in targetEdges(x) /\ ~ HasHost(s, h)
           x0 == CHOOSE x \in r.file : x.host = h /\ e \in targetEdges(x)
<1>1. /\ pl.ec[e].add[h] = IF wants THEN declaredRoute(x0) ELSE NoRoute
      /\ pl.ec[e].remove = prunedHosts(r, s)
      /\ pl.adopt[e] = adoptedHosts(r, e, s)
  BY DEF PlanOf, planDeclarative, declaredAdds
<1>2. wants => x0 \in r.file /\ x0.host = h /\ h \in desiredHosts(r) /\ ~ HasHost(s, h)
  BY DEF desiredHosts
<1>3. x0 \in r.file => declaredRoute(x0) # NoRoute /\ declaredRoute(x0).auth = x0.auth
  <2>1. x0 \in r.file => declaredRoute(x0) \in Route
    <3> HIDE DEF x0
    <3> QED
      BY DEF declaredRoute, Route, Run, Exposure
  <2> QED
    BY <2>1, EdgeDriverAssumption DEF declaredRoute
<1>4. h \in prunedHosts(r, s) => r.prune /\ h \notin desiredHosts(r) /\ s.mine[h] # NoRoute
  BY DEF prunedHosts, ownRoute
<1>5. h \in adoptedHosts(r, e, s) =>
        h \in desiredHosts(r) /\ Unmanaged(s, h) /\ findRoute(s, h).owner \notin {"foreign", "unknown"}
  BY DEF adoptedHosts, desiredHosts, Blocked
<1>6. Unmanaged(s, h) => HasHost(s, h)
  BY DEF Unmanaged
<1> HIDE DEF pl, wants, x0
<1> QED
  BY <1>1, <1>2, <1>3, <1>4, <1>5, <1>6 DEF EdgeAsk, pl

\* What every plan of a run asks of one edge for one host.
LEMMA PlanAsk ==
    ASSUME NEW r \in Run, NEW w \in World, NEW pl, pl = NoPlan \/ pl = PlanOf(r, w),
           NEW e \in Edges, NEW h \in Hosts
    PROVE  EdgeAsk(r, w, pl, e, h)
BY NoPlanAsk, ReconcileAsk, ApplyAsk

\* What a plan asks of one provider for one name, and what it must leave alone.
ZoneAsk(r, w, pl, p, h) ==
    LET was == w.zone[p][h]   c == pl.dc[p][h] IN
    /\ \/ c = NoDnsChange
       \/ c.add = Target[p] /\ c.remove = NoValue
       \/ c.add = NoValue /\ c.remove = LiveValue(p, was) /\ c.remove # NoValue
    /\ /\ was.value # NoValue
       /\ \/ ~ anyFronts(h)
          \/ h = Star /\ r.verb = "reconcile" /\ ~ OwnsAllLiveRecords(p)
       => c = NoDnsChange \/ (OwnsAllLiveRecords(p) /\ ~ was.ours)

\* reconcileZone and declaredZone add the target or remove what is live, and
\* only within the managed boundary.
LEMMA PlanZoneAsk ==
    ASSUME NEW r \in Run, NEW w \in World, NEW pl, pl = NoPlan \/ pl = PlanOf(r, w),
           NEW p \in Providers, NEW h \in Hosts
    PROVE  ZoneAsk(r, w, pl, p, h)
<1>1. CASE pl = NoPlan
  BY <1>1 DEF ZoneAsk, NoPlan, NoZoneChange
<1>2. CASE pl = PlanOf(r, w) /\ r.verb = "reconcile"
  <2> DEFINE canon == canonicalState(w)
             z == w.zone[p]
  <2>1. pl.dc[p][h] = reconcileZone(p, z, canon)[h]
    BY <1>2 DEF PlanOf, planReconcile, NoPlan
  <2>2. canon[h] # NoRoute => anyFronts(h)
    BY CanonFacts
  <2>3. reconcileZone(p, z, canon)[h] =
            IF canon[h] # NoRoute /\ Demanded(p, h) /\ (MissingRecord(p, z, h) \/ WrongTarget(p, z, h))
            THEN [add |-> Target[p], remove |-> NoValue]
            ELSE IF StaleRecord(p, z, h, canon)
            THEN [add |-> NoValue, remove |-> LiveValue(p, z[h])]
            ELSE NoDnsChange
    BY DEF reconcileZone
  <2> HIDE DEF canon
  <2> QED
    BY <1>2, <2>1, <2>2, <2>3
       DEF ZoneAsk, StaleRecord, MissingRecord, WrongTarget, OwnsAllLiveRecords, LiveValue
<1>3. CASE pl = PlanOf(r, w) /\ r.verb # "reconcile"
  <2> DEFINE z == w.zone[p]
             wants == /\ h \in Covers[p] /\ LiveValue(p, z[h]) = NoValue
                      /\ \E x \in r.file : x.host = h /\ scopeSelected(x, p)
             prunes == /\ r.prune /\ h \in Covers[p] /\ LiveValue(p, z[h]) # NoValue
                       /\ anyFronts(h) /\ h \notin desiredHosts(r)
  <2>1. pl.dc[p][h] = IF wants THEN [add |-> Target[p], remove |-> NoValue]
                      ELSE IF prunes THEN [add |-> NoValue, remove |-> LiveValue(p, z[h])]
                      ELSE NoDnsChange
    BY <1>3 DEF PlanOf, planDeclarative, declaredZone
  <2>2. wants => LiveValue(p, z[h]) = NoValue
    OBVIOUS
  <2>3. prunes => anyFronts(h) /\ LiveValue(p, z[h]) # NoValue
    OBVIOUS
  <2> HIDE DEF wants, prunes
  <2> QED
    BY <1>3, <2>1, <2>2, <2>3 DEF ZoneAsk, OwnsAllLiveRecords, LiveValue
<1> QED
  BY <1>1, <1>2, <1>3

\* A name's record after the call of a plan and after its compensator: what is
\* added is live, what is removed is gone, and undoing restores the value
\* unless the add re-asserted one.
LEMMA ZoneImages ==
    ASSUME NEW p \in Providers, NEW rec \in RecordOrNone, NEW c,
           \/ c = NoDnsChange
           \/ c.add = Target[p] /\ c.remove = NoValue
           \/ c.add = NoValue /\ c.remove = LiveValue(p, rec) /\ c.remove # NoValue,
           ~ AddRefused(p, rec, c)
    PROVE  LET n == DnsNominal(p, rec, c).r
               u == DnsNominal(p, n, invertDNS(c)).r
           IN  /\ c.add # NoValue => LiveValue(p, n) = Target[p] /\ n.value = Target[p]
               /\ c.remove # NoValue => n = NoRecord
               /\ c = NoDnsChange => n = rec
               /\ ~ (c.add # NoValue /\ rec.value # NoValue) => u.value = rec.value
<1> USE DnsDriverAssumption
<1>1. CASE c = NoDnsChange
  BY <1>1 DEF DnsNominal, AfterRemove, invertDNS, NoDnsChange
<1>2. CASE c.add = Target[p] /\ c.remove = NoValue
  BY <1>2 DEF DnsNominal, AfterRemove, AddRefused, invertDNS, NoDnsChange, LiveValue, NoRecord,
              RecordOrNone
<1>3. CASE c.add = NoValue /\ c.remove = LiveValue(p, rec) /\ c.remove # NoValue
  BY <1>3 DEF DnsNominal, AfterRemove, AddRefused, invertDNS, NoDnsChange, LiveValue, NoRecord,
              RecordOrNone
<1> QED
  BY <1>1, <1>2, <1>3

\* A record of somebody else at a provider that marks its own survives every
\* call, refused or not, and its compensator.
LEMMA ForeignRecordKept ==
    ASSUME NEW p \in Providers, NEW rec \in RecordOrNone, NEW c,
           \/ c = NoDnsChange
           \/ /\ OwnsAllLiveRecords(p) /\ ~ rec.ours /\ rec.value # NoValue
              /\ \/ c.add = Target[p] /\ c.remove = NoValue
                 \/ c.add = NoValue /\ c.remove = LiveValue(p, rec) /\ c.remove # NoValue
    PROVE  LET n == DnsNominal(p, rec, c).r
           IN  /\ n = rec
               /\ AfterRemove(p, rec, c) = rec
               /\ DnsNominal(p, n, invertDNS(c)).r = rec
<1> USE DnsDriverAssumption
<1>1. CASE c = NoDnsChange
  BY <1>1 DEF DnsNominal, AfterRemove, invertDNS, NoDnsChange
<1>2. CASE OwnsAllLiveRecords(p) /\ ~ rec.ours /\ rec.value # NoValue /\ c # NoDnsChange
  <2>1. LiveValue(p, rec) = NoValue
    BY <1>2 DEF LiveValue, OwnsAllLiveRecords
  <2>2. c.add = Target[p] /\ c.remove = NoValue
    BY <1>2, <2>1
  <2> QED
    BY <1>2, <2>2 DEF DnsNominal, AfterRemove, AddRefused, invertDNS, OwnsAllLiveRecords
<1> QED
  BY <1>1, <1>2

-----------------------------------------------------------------------------
(***************************************************************************)
(* The images of an edge, host by host.                                    *)
(***************************************************************************)
\* Adopt leaves an edge state.
LEMMA AdoptedType ==
    ASSUME NEW s \in EdgeState, NEW H \in SUBSET Hosts
    PROVE  Adopted(s, H) \in EdgeState
<1> DEFINE m == [g \in Hosts |-> IF g \in H /\ s.other[g] # NoRoute
                                 THEN [s.other[g] EXCEPT !.owner = "crenel"] ELSE s.mine[g]]
           o == [g \in Hosts |-> IF g \in H THEN NoRoute ELSE s.other[g]]
<1>1. \A g \in Hosts : s.other[g] # NoRoute => [s.other[g] EXCEPT !.owner = "crenel"] \in Route
  BY DEF EdgeState, RouteTable, Route
<1>2. m \in RouteTable /\ o \in RouteTable
  BY <1>1 DEF EdgeState, RouteTable
<1>3. Adopted(s, H) = [s EXCEPT !.mine = m, !.other = o]
  BY DEF Adopted
<1> HIDE DEF m, o
<1> QED
  BY <1>2, <1>3 DEF EdgeState

\* What Adopt leaves of one host's routes.
LEMMA AdoptedCell ==
    ASSUME NEW s \in EdgeState, NEW H \in SUBSET Hosts, NEW h \in Hosts
    PROVE  /\ Adopted(s, H) \in EdgeState
           /\ Adopted(s, H).first = s.first
           /\ Adopted(s, H).mine[h] = IF h \in H /\ s.other[h] # NoRoute
                                      THEN [s.other[h] EXCEPT !.owner = "crenel"] ELSE s.mine[h]
           /\ Adopted(s, H).other[h] = IF h \in H THEN NoRoute ELSE s.other[h]
           /\ HasHost(Adopted(s, H), h) <=> HasHost(s, h)
<1> DEFINE m == [g \in Hosts |-> IF g \in H /\ s.other[g] # NoRoute
                                 THEN [s.other[g] EXCEPT !.owner = "crenel"] ELSE s.mine[g]]
           o == [g \in Hosts |-> IF g \in H THEN NoRoute ELSE s.other[g]]
<1>1. \A g \in Hosts : s.other[g] # NoRoute => [s.other[g] EXCEPT !.owner = "crenel"] \in Route
  BY DEF EdgeState, RouteTable, Route
<1>2. m \in RouteTable /\ o \in RouteTable
  BY <1>1 DEF EdgeState, RouteTable
<1>3. Adopted(s, H) = [s EXCEPT !.mine = m, !.other = o]
  BY DEF Adopted
<1>4. /\ m[h] = IF h \in H /\ s.other[h] # NoRoute
                THEN [s.other[h] EXCEPT !.owner = "crenel"] ELSE s.mine[h]
      /\ o[h] = IF h \in H THEN NoRoute ELSE s.other[h]
  OBVIOUS
<1> HIDE DEF m, o
<1>5. /\ Adopted(s, H) \in EdgeState
      /\ Adopted(s, H).first = s.first
      /\ Adopted(s, H).mine = m
      /\ Adopted(s, H).other = o
  BY <1>2, <1>3 DEF EdgeState
<1>6. s.other[h] # NoRoute => m[h] # NoRoute \/ h \notin H
  BY <1>1, <1>4, EdgeDriverAssumption
<1> QED
  BY <1>4, <1>5, <1>6 DEF HasHost, findRoute, OrElse

\* What Apply leaves of one host's routes.
LEMMA WriteCell ==
    ASSUME NEW e \in Edges, NEW s \in EdgeState, NEW c \in EdgeChange, NEW h \in Hosts
    PROVE  /\ Write(e, s, c).first = s.first
           /\ Write(e, s, c).mine[h] = IF c.add[h] # NoRoute THEN Render(e, c.add[h])
                                       ELSE IF h \in c.remove THEN NoRoute ELSE s.mine[h]
           /\ Write(e, s, c).other[h] =
                IF EdgeKind[e] = "caddy_durable" /\ h \in c.remove /\ s.mine[h] = NoRoute
                THEN NoRoute ELSE s.other[h]
           /\ c.add[h] # NoRoute => Render(e, c.add[h]) # NoRoute
<1>1. c.add[h] # NoRoute => Render(e, c.add[h]) \in Route
  BY DEF EdgeChange, RouteTable, Render, Route
<1>2. Write(e, s, c).first = s.first
  BY DEF Write, EdgeState
<1>3. Write(e, s, c).mine = [g \in Hosts |->
            IF c.add[g] # NoRoute THEN Render(e, c.add[g])
            ELSE IF g \in c.remove THEN NoRoute ELSE s.mine[g]]
  BY DEF Write, EdgeState
<1>4. Write(e, s, c).other = [g \in Hosts |->
            IF EdgeKind[e] = "caddy_durable" /\ g \in c.remove /\ s.mine[g] = NoRoute
            THEN NoRoute ELSE s.other[g]]
  BY DEF Write, EdgeState
<1> QED
  BY <1>1, <1>2, <1>3, <1>4, EdgeDriverAssumption

\* Read-modify-write depends only on what is routed: two states that route
\* alike still do after the same change.
LEMMA SameWrite ==
    ASSUME NEW e \in Edges, NEW s \in EdgeState, NEW t \in EdgeState, NEW c \in EdgeChange,
           SameRoutes(s, t)
    PROVE  SameRoutes(Write(e, s, c), Write(e, t, c))
BY DEF SameRoutes, Write, EdgeState

\* The daemon loading its config changes no route.
LEMMA SameLoad ==
    ASSUME NEW e \in Edges, NEW s \in EdgeState
    PROVE  SameRoutes(Load(e, s), s)
BY DEF SameRoutes, Load, EdgeState

\* Adopt depends only on what is routed.
LEMMA SameAdopted ==
    ASSUME NEW s \in EdgeState, NEW t \in EdgeState, NEW H, SameRoutes(s, t)
    PROVE  SameRoutes(Adopted(s, H), Adopted(t, H))
BY DEF SameRoutes, Adopted, EdgeState

\* So does the compensator.
LEMMA SameInvert ==
    ASSUME NEW s, NEW t, NEW c, SameRoutes(s, t)
    PROVE  invertEdge(c, s) = invertEdge(c, t)
BY DEF SameRoutes, invertEdge, findRoute

\* States that route alike answer every lookup alike.
LEMMA SameFind ==
    ASSUME NEW s, NEW t, NEW h, SameRoutes(s, t)
    PROVE  /\ findRoute(s, h) = findRoute(t, h)
           /\ HasHost(s, h) <=> HasHost(t, h)
           /\ s.mine[h] = t.mine[h] /\ s.other[h] = t.other[h]
BY DEF SameRoutes, findRoute, HasHost

\* Routing alike is an equivalence.
LEMMA SameTransitive ==
    ASSUME NEW s, NEW t, NEW u, SameRoutes(s, t), SameRoutes(t, u)
    PROVE  SameRoutes(s, u)
BY DEF SameRoutes

\* A call that works and reports no error leaves what the write leaves; one
\* that reports an error leaves everything as it was.
LEMMA NominalSame ==
    ASSUME NEW e \in Edges, NEW s \in EdgeState, NEW t \in EdgeState, NEW c \in EdgeChange,
           SameRoutes(s, t)
    PROVE  IF Nominal(e, s, c).err THEN Nominal(e, s, c).s = s
           ELSE SameRoutes(Nominal(e, s, c).s, Write(e, t, c))
<1>1. SameRoutes(Write(e, s, c), Write(e, t, c)) /\ Write(e, s, c) \in EdgeState
  BY SameWrite, WriteType
<1>2. SameRoutes(Load(e, Write(e, s, c)), Write(e, t, c))
  BY <1>1, SameLoad, SameTransitive
<1> QED
  BY <1>1, <1>2 DEF Nominal

\* A change that touches no host changes no route.
LEMMA EmptyWrite ==
    ASSUME NEW e \in Edges, NEW s \in EdgeState, NEW c \in EdgeChange, EmptyEdgeChange(c)
    PROVE  SameRoutes(Write(e, s, c), s)
<1>1. \A h \in Hosts : c.add[h] = NoRoute /\ h \notin c.remove
  BY DEF EmptyEdgeChange, touchedHosts, AddedHosts, EdgeChange
<1>2. \A h \in Hosts : /\ Write(e, s, c).mine[h] = s.mine[h]
                       /\ Write(e, s, c).other[h] = s.other[h]
                       /\ Write(e, s, c).first = s.first
  BY <1>1, WriteCell
<1>3. Write(e, s, c) \in EdgeState
  BY WriteType
<1>4. Write(e, s, c).first = s.first
  BY DEF Write, EdgeState
<1> QED
  BY <1>2, <1>3, <1>4 DEF SameRoutes, EdgeState, RouteTable

\* What one host of an edge looks like after the adoption A, the change c and
\* its compensator, when c asks only for what a plan asks for.
LEMMA EdgeImages ==
    ASSUME NEW e \in Edges, NEW was \in EdgeState, NEW A \in SUBSET Hosts,
           NEW c \in EdgeChange, NEW h \in Hosts,
           h \in A => c.add[h] = NoRoute /\ h \notin c.remove,
           h \in c.remove => IF c.add[h] = NoRoute THEN was.mine[h] # NoRoute ELSE HasHost(was, h),
           c.add[h] # NoRoute /\ h \notin c.remove => ~ HasHost(was, h)
    PROVE  LET base == Adopted(was, A)
               w == Write(e, base, c)
               u == Write(e, w, invertEdge(c, base))
               kept(s) == \/ s.other[h] = was.other[h]
                          \/ h \in A /\ s.mine[h] = [was.other[h] EXCEPT !.owner = "crenel"]
                          \/ EdgeKind[e] = "caddy_durable" /\ h \in c.remove
           IN  /\ was.other[h] # NoRoute => kept(base) /\ kept(w) /\ kept(u)
               /\ HasHost(base, h) <=> HasHost(was, h)
               /\ h \notin A => base.mine[h] = was.mine[h]
               /\ c.add[h] # NoRoute => w.mine[h] # NoRoute /\ HasHost(w, h)
               /\ HasHost(w, h) /\ ~ HasHost(was, h) =>
                    c.add[h] # NoRoute /\ findRoute(w, h).auth = c.add[h].auth
               /\ HasHost(was, h) /\ ~ HasHost(w, h) => h \in c.remove /\ c.add[h] = NoRoute
               /\ was.mine[h] # NoRoute /\ w.mine[h] = NoRoute => h \in c.remove /\ c.add[h] = NoRoute
               /\ HasHost(u, h) <=> HasHost(was, h)
               /\ was.mine[h] # NoRoute /\ Render(e, was.mine[h]) = was.mine[h] =>
                    \/ u.mine[h] = was.mine[h]
                    \/ h \in A
                    \/ h \in c.remove /\ was.other[h] # NoRoute
               /\ was.mine[h] = NoRoute =>
                    \/ u.mine[h] = NoRoute
                    \/ h \in A
                    \/ h \in c.remove /\ was.other[h] # NoRoute
<1> DEFINE base == Adopted(was, A)
           w == Write(e, base, c)
           inv == invertEdge(c, base)
           u == Write(e, w, inv)
<1>1. /\ base \in EdgeState
      /\ base.first = was.first
      /\ base.mine[h] = IF h \in A /\ was.other[h] # NoRoute
                        THEN [was.other[h] EXCEPT !.owner = "crenel"] ELSE was.mine[h]
      /\ base.other[h] = IF h \in A THEN NoRoute ELSE was.other[h]
      /\ HasHost(base, h) <=> HasHost(was, h)
  BY AdoptedCell
<1> HIDE DEF base
<1>2. w \in EdgeState /\ inv \in EdgeChange
  BY <1>1, WriteType, InvertEdgeType
<1>3. /\ w.first = base.first
      /\ w.mine[h] = IF c.add[h] # NoRoute THEN Render(e, c.add[h])
                     ELSE IF h \in c.remove THEN NoRoute ELSE base.mine[h]
      /\ w.other[h] = IF EdgeKind[e] = "caddy_durable" /\ h \in c.remove /\ base.mine[h] = NoRoute
                      THEN NoRoute ELSE base.other[h]
      /\ c.add[h] # NoRoute => Render(e, c.add[h]) # NoRoute
  BY <1>1, WriteCell
<1>4. /\ inv.add[h] = IF h \in c.remove THEN findRoute(base, h) ELSE NoRoute
      /\ h \in inv.remove <=> c.add[h] # NoRoute
  BY DEF invertEdge, AddedHosts
<1> HIDE DEF w, inv
<1>5. /\ u.first = w.first
      /\ u.mine[h] = IF inv.add[h] # NoRoute THEN Render(e, inv.add[h])
                     ELSE IF h \in inv.remove THEN NoRoute ELSE w.mine[h]
      /\ u.other[h] = IF EdgeKind[e] = "caddy_durable" /\ h \in inv.remove /\ w.mine[h] = NoRoute
                      THEN NoRoute ELSE w.other[h]
      /\ inv.add[h] # NoRoute => Render(e, inv.add[h]) # NoRoute
  BY <1>2, WriteCell
<1> HIDE DEF u
<1>6. c.add[h] # NoRoute => Render(e, c.add[h]).auth = c.add[h].auth
  BY DEF Render, EdgeChange, RouteTable, Route
<1>7. /\ was.other[h] # NoRoute =>
            \A s \in {base, w, u} :
                \/ s.other[h] = was.other[h]
                \/ h \in A /\ s.mine[h] = [was.other[h] EXCEPT !.owner = "crenel"]
                \/ EdgeKind[e] = "caddy_durable" /\ h \in c.remove
      /\ h \notin A => base.mine[h] = was.mine[h]
  BY <1>1, <1>3, <1>4, <1>5
<1>8. /\ c.add[h] # NoRoute => w.mine[h] # NoRoute /\ HasHost(w, h)
      /\ HasHost(was, h) /\ ~ HasHost(w, h) => h \in c.remove /\ c.add[h] = NoRoute
      /\ was.mine[h] # NoRoute /\ w.mine[h] = NoRoute => h \in c.remove /\ c.add[h] = NoRoute
  <2>1. h \in A /\ was.other[h] # NoRoute => base.mine[h] # NoRoute
    BY <1>1 DEF HasHost, findRoute, OrElse
  <2> QED
    BY <1>1, <1>3, <2>1 DEF HasHost, findRoute, OrElse
<1>9. HasHost(w, h) /\ ~ HasHost(was, h) =>
            c.add[h] # NoRoute /\ findRoute(w, h).auth = c.add[h].auth
  BY <1>1, <1>3, <1>6 DEF HasHost, findRoute, OrElse
<1>10. HasHost(u, h) <=> HasHost(was, h)
  BY <1>1, <1>3, <1>4, <1>5 DEF HasHost, findRoute, OrElse
<1>11. /\ was.mine[h] # NoRoute /\ Render(e, was.mine[h]) = was.mine[h] =>
                    \/ u.mine[h] = was.mine[h]
                    \/ h \in A
                    \/ h \in c.remove /\ was.other[h] # NoRoute
       /\ was.mine[h] = NoRoute =>
                    \/ u.mine[h] = NoRoute
                    \/ h \in A
                    \/ h \in c.remove /\ was.other[h] # NoRoute
  BY <1>1, <1>3, <1>4, <1>5 DEF HasHost, findRoute, OrElse
<1> QED
  BY <1>1, <1>7, <1>8, <1>9, <1>10, <1>11 DEF base, w, u, inv

\* A reload from the boot config keeps the hosts of crenel's own routes, and
\* what it has in its region is a copy of what was live.
LEMMA ReloadedCell ==
    ASSUME NEW s \in EdgeState, NEW h \in Hosts
    PROVE  LET n == Boot(mergeManagedRegion(s))
           IN  /\ s.mine[h] # NoRoute => HasHost(n, h)
               /\ h \in n.region => HasHost(s, h) /\ findRoute(n, h) = FileRoute(findRoute(s, h))
<1> DEFINE m == mergeManagedRegion(s)
           n == Boot(m)
<1>1. m \in EdgeState
  BY MergeType
<1>2. m.disk[h] = IF h \in PersistHosts(s) THEN FileRoute(findRoute(s, h))
                  ELSE IF h \in s.region THEN NoRoute ELSE s.disk[h]
  BY DEF mergeManagedRegion, EdgeState
<1>3. m.region = PersistHosts(s)
  BY DEF mergeManagedRegion, EdgeState
<1> HIDE DEF m
<1>4. n.mine[h] = NoRoute /\ n.other[h] = m.disk[h] /\ n.region = m.region
  BY <1>1 DEF Boot, EdgeState, NoRoutes
<1> HIDE DEF n
<1>5. HasHost(s, h) => FileRoute(findRoute(s, h)) \in Route
  BY FindRouteType DEF FileRoute, Route, HasHost
<1>6. h \in PersistHosts(s) => findRoute(n, h) = FileRoute(findRoute(s, h)) /\ HasHost(n, h)
  <2>1. h \in PersistHosts(s) => HasHost(s, h)
    BY DEF PersistHosts
  <2> QED
    BY <1>2, <1>4, <1>5, <2>1, EdgeDriverAssumption DEF findRoute, OrElse, HasHost
<1>7. s.mine[h] # NoRoute => h \in PersistHosts(s)
  BY DEF PersistHosts, HasHost, findRoute, OrElse
<1>8. h \in PersistHosts(s) => HasHost(s, h)
  BY DEF PersistHosts
<1> QED
  BY <1>3, <1>4, <1>6, <1>7, <1>8 DEF n, m

-----------------------------------------------------------------------------
(***************************************************************************)
(* The invariant implies the properties.                                   *)
(***************************************************************************)
\* The images of one host of an edge, for the plan at hand.
LEMMA LegImages ==
    ASSUME TypeOK, Planned, NEW e \in Edges, NEW h \in Hosts
    PROVE  LET was == pre.edge[e]
               A == plan.adopt[e]
               c == plan.ec[e]
               kept(s) == \/ s.other[h] = was.other[h]
                          \/ h \in A /\ s.mine[h] = [was.other[h] EXCEPT !.owner = "crenel"]
                          \/ EdgeKind[e] = "caddy_durable" /\ h \in c.remove
           IN  /\ EdgeAsk(run, pre, plan, e, h)
               /\ was.other[h] # NoRoute => kept(Base(e)) /\ kept(Wrote(e)) /\ kept(Undone(e))
               /\ HasHost(Base(e), h) <=> HasHost(was, h)
               /\ h \notin A => Base(e).mine[h] = was.mine[h]
               /\ c.add[h] # NoRoute => Wrote(e).mine[h] # NoRoute /\ HasHost(Wrote(e), h)
               /\ HasHost(Wrote(e), h) /\ ~ HasHost(was, h) =>
                    c.add[h] # NoRoute /\ findRoute(Wrote(e), h).auth = c.add[h].auth
               /\ HasHost(was, h) /\ ~ HasHost(Wrote(e), h) => h \in c.remove /\ c.add[h] = NoRoute
               /\ was.mine[h] # NoRoute /\ Wrote(e).mine[h] = NoRoute =>
                    h \in c.remove /\ c.add[h] = NoRoute
               /\ HasHost(Undone(e), h) <=> HasHost(was, h)
               /\ was.mine[h] # NoRoute /\ Render(e, was.mine[h]) = was.mine[h] =>
                    \/ Undone(e).mine[h] = was.mine[h]
                    \/ h \in A
                    \/ h \in c.remove /\ was.other[h] # NoRoute
               /\ was.mine[h] = NoRoute =>
                    \/ Undone(e).mine[h] = NoRoute
                    \/ h \in A
                    \/ h \in c.remove /\ was.other[h] # NoRoute
<1>1. /\ pre.edge[e] \in EdgeState /\ plan.adopt[e] \in SUBSET Hosts /\ plan.ec[e] \in EdgeChange
      /\ run \in Run /\ pre \in World
  BY DEF TypeOK, World, PlanType
<1>2. EdgeAsk(run, pre, plan, e, h)
  BY <1>1, PlanAsk DEF Planned
<1>3. /\ h \in plan.adopt[e] => plan.ec[e].add[h] = NoRoute /\ h \notin plan.ec[e].remove
      /\ h \in plan.ec[e].remove => IF plan.ec[e].add[h] = NoRoute THEN pre.edge[e].mine[h] # NoRoute
                                    ELSE HasHost(pre.edge[e], h)
      /\ plan.ec[e].add[h] # NoRoute /\ h \notin plan.ec[e].remove => ~ HasHost(pre.edge[e], h)
  BY <1>2 DEF EdgeAsk
<1> QED
  BY <1>1, <1>2, <1>3, EdgeImages DEF Base, Wrote, Undone

\* The images are edge states.
LEMMA ImageTypes ==
    ASSUME TypeOK, NEW e \in Edges
    PROVE  /\ Base(e) \in EdgeState /\ Wrote(e) \in EdgeState /\ Undone(e) \in EdgeState
           /\ pre.edge[e] \in EdgeState /\ edge[e] \in EdgeState /\ snap[e] \in EdgeState
           /\ plan.ec[e] \in EdgeChange
           /\ invertEdge(plan.ec[e], Base(e)) \in EdgeChange
<1>1. /\ pre.edge[e] \in EdgeState /\ plan.adopt[e] \in SUBSET Hosts /\ plan.ec[e] \in EdgeChange
      /\ edge[e] \in EdgeState /\ snap[e] \in EdgeState
  BY DEF TypeOK, World, PlanType
<1>2. Base(e) \in EdgeState
  BY <1>1, AdoptedType DEF Base
<1>3. Wrote(e) \in EdgeState
  BY <1>1, <1>2, WriteType DEF Wrote
<1>4. invertEdge(plan.ec[e], Base(e)) \in EdgeChange
  BY <1>1, <1>2, InvertEdgeType
<1>5. Undone(e) \in EdgeState
  BY <1>3, <1>4, WriteType DEF Undone
<1> QED
  BY <1>1, <1>2, <1>3, <1>4, <1>5

\* An edge that no fault touched is at one of the images, or was reloaded.
LEMMA WhereEdge ==
    ASSUME IInv, NEW e \in Edges, e \in Clean
    PROVE  \/ SameRoutes(edge[e], pre.edge[e])
           \/ SameRoutes(edge[e], Base(e))
           \/ SameRoutes(edge[e], Wrote(e)) /\ pc # "done"
           \/ e \in Steps(plan) /\ SameRoutes(edge[e], Undone(e))
           \/ Landed /\ SameRoutes(edge[e], Wrote(e))
           \/ Reloaded(e) /\ \E s \in EdgeState :
                SameRoutes(s, Wrote(e)) /\ edge[e] = Boot(mergeManagedRegion(s))
<1>1. EdgeLeg(e)
  BY DEF IInv
<1>2. /\ pc \in {"idle", "confirm", "adopt", "apply", "rollback", "done"}
      /\ outcome \in {"none", "refused", "noop", "declined", "failed", "applied"}
      /\ pc = "done" => outcome # "none"
  BY DEF IInv, TypeOK, Planned
<1>3. CASE Landed
  <2>1. PICK s \in EdgeState : SameRoutes(s, Wrote(e)) /\ edge[e] = Persisted(e, s)
    BY <1>1, <1>3 DEF EdgeLeg
  <2> QED
    BY <1>3, <2>1 DEF Persisted, Reloaded
<1>4. CASE ~ Landed
  BY <1>1, <1>2, <1>4 DEF EdgeLeg, Landed
<1> QED
  BY <1>3, <1>4

\* No ungated copy follows from the invariant.
LEMMA InvNoUngatedCopy ==
    ASSUME IInv
    PROVE  NoUngatedCopy
<1> SUFFICES ASSUME NEW e \in Edges \cap Clean, NEW h \in Hosts,
                    roleFor(e, h) = "terminal",
                    Ungated(edge[e], h), ~ HasHost(pre.edge[e], h),
                    ~ (Reloaded(e) /\ h \notin edge[e].region)
             PROVE  IF Reconciling THEN UngatedBefore(h)
                    ELSE \E x \in run.file : x.host = h /\ x.auth = "none"
  BY DEF NoUngatedCopy
<1>1. TypeOK /\ Planned
  BY DEF IInv
<1>2. /\ EdgeAsk(run, pre, plan, e, h)
      /\ HasHost(Base(e), h) <=> HasHost(pre.edge[e], h)
      /\ HasHost(Undone(e), h) <=> HasHost(pre.edge[e], h)
      /\ HasHost(Wrote(e), h) /\ ~ HasHost(pre.edge[e], h) =>
            /\ plan.ec[e].add[h] # NoRoute
            /\ findRoute(Wrote(e), h).auth = plan.ec[e].add[h].auth
  BY <1>1, LegImages
<1>3. Ungated(Wrote(e), h)
  <2>1. HasHost(edge[e], h) /\ findRoute(edge[e], h).auth = "none"
    BY DEF Ungated
  <2>2. CASE SameRoutes(edge[e], pre.edge[e])
    BY <2>1, <2>2, SameFind
  <2>3. CASE SameRoutes(edge[e], Base(e))
    BY <1>2, <2>1, <2>3, SameFind
  <2>4. CASE SameRoutes(edge[e], Undone(e))
    BY <1>2, <2>1, <2>4, SameFind
  <2>5. CASE SameRoutes(edge[e], Wrote(e))
    BY <2>1, <2>5, SameFind DEF Ungated
  <2>6. ASSUME Reloaded(e), NEW s \in EdgeState, SameRoutes(s, Wrote(e)),
               edge[e] = Boot(mergeManagedRegion(s))
        PROVE  Ungated(Wrote(e), h)
    <3>1. HasHost(s, h) /\ findRoute(edge[e], h) = FileRoute(findRoute(s, h))
      BY <2>6, ReloadedCell
    <3>2. findRoute(s, h) \in Route
      BY <3>1, FindRouteType DEF HasHost
    <3>3. findRoute(s, h).auth = "none"
      BY <2>1, <3>1, <3>2 DEF FileRoute, Route
    <3> QED
      BY <2>6, <3>1, <3>3, SameFind DEF Ungated
  <2> QED
    BY <2>2, <2>3, <2>4, <2>5, <2>6, WhereEdge
<1>4. plan.ec[e].add[h] # NoRoute /\ plan.ec[e].add[h].auth = "none"
  BY <1>2, <1>3 DEF Ungated
<1> QED
  BY <1>2, <1>4 DEF EdgeAsk, Reconciling, UngatedBefore

\* The part of the managed boundary that is about routes.
LEMMA InvRoutesKept ==
    ASSUME IInv, NEW e \in Edges \cap Clean, NEW h \in Hosts, pre.edge[e].other[h] # NoRoute
    PROVE  \/ edge[e].other[h] = pre.edge[e].other[h]
           \/ h \in plan.adopt[e] /\ edge[e].mine[h] = [pre.edge[e].other[h] EXCEPT !.owner = "crenel"]
           \/ EdgeKind[e] = "caddy_durable" /\ h \in plan.ec[e].remove
           \/ Reloaded(e)
<1>1. TypeOK /\ Planned
  BY DEF IInv
<1> DEFINE kept(s) ==
             \/ s.other[h] = pre.edge[e].other[h]
             \/ h \in plan.adopt[e] /\ s.mine[h] = [pre.edge[e].other[h] EXCEPT !.owner = "crenel"]
             \/ EdgeKind[e] = "caddy_durable" /\ h \in plan.ec[e].remove
<1>2. kept(Base(e)) /\ kept(Wrote(e)) /\ kept(Undone(e)) /\ kept(pre.edge[e])
  BY <1>1, LegImages
<1>3. \A s : SameRoutes(edge[e], s) => edge[e].other[h] = s.other[h] /\ edge[e].mine[h] = s.mine[h]
  BY SameFind
<1>4. \/ Reloaded(e)
      \/ \E s \in {pre.edge[e], Base(e), Wrote(e), Undone(e)} : SameRoutes(edge[e], s)
  BY WhereEdge
<1> QED
  BY <1>2, <1>3, <1>4

\* Nothing goes dark follows from the invariant.
LEMMA InvNothingGoesDark ==
    ASSUME IInv
    PROVE  NothingGoesDark
<1> SUFFICES ASSUME NEW e \in Edges \cap Clean, NEW h \in Hosts,
                    HasHost(pre.edge[e], h), ~ HasHost(edge[e], h)
             PROVE  \/ /\ ~ Reconciling /\ run.prune /\ h \notin desiredHosts(run)
                       /\ pre.edge[e].mine[h] # NoRoute
                    \/ Reloaded(e) /\ pre.edge[e].mine[h] = NoRoute
  BY DEF NothingGoesDark
<1>1. TypeOK /\ Planned
  BY DEF IInv
<1>2. /\ EdgeAsk(run, pre, plan, e, h)
      /\ HasHost(Base(e), h) <=> HasHost(pre.edge[e], h)
      /\ HasHost(Undone(e), h) <=> HasHost(pre.edge[e], h)
      /\ HasHost(pre.edge[e], h) /\ ~ HasHost(Wrote(e), h) =>
            h \in plan.ec[e].remove /\ plan.ec[e].add[h] = NoRoute
      /\ pre.edge[e].mine[h] # NoRoute /\ Wrote(e).mine[h] = NoRoute =>
            h \in plan.ec[e].remove /\ plan.ec[e].add[h] = NoRoute
  BY <1>1, LegImages
<1>3. h \in plan.ec[e].remove /\ plan.ec[e].add[h] = NoRoute =>
        /\ ~ Reconciling /\ run.prune /\ h \notin desiredHosts(run)
        /\ pre.edge[e].mine[h] # NoRoute
  BY <1>2 DEF EdgeAsk, Reconciling
<1>4. \A s : SameRoutes(edge[e], s) => ~ HasHost(s, h)
  BY SameFind
<1>5. ASSUME Reloaded(e), NEW s \in EdgeState, SameRoutes(s, Wrote(e)),
             edge[e] = Boot(mergeManagedRegion(s))
      PROVE  \/ Reloaded(e) /\ pre.edge[e].mine[h] = NoRoute
             \/ h \in plan.ec[e].remove /\ plan.ec[e].add[h] = NoRoute
  <2>1. s.mine[h] = NoRoute
    BY <1>5, ReloadedCell
  <2>2. Wrote(e).mine[h] = NoRoute
    BY <1>5, <2>1 DEF SameRoutes
  <2> QED
    BY <1>2, <1>5, <2>2
<1> QED
  BY <1>2, <1>3, <1>4, <1>5, WhereEdge

\* The managed boundary follows from the invariant.
LEMMA InvOthersKept ==
    ASSUME IInv
    PROVE  OthersKept
<1>1. ASSUME NEW p \in Providers \cap Clean, NEW h \in Hosts, pre.zone[p][h].value # NoValue,
             \/ ~ anyFronts(h)
             \/ OwnsAllLiveRecords(p) /\ ~ pre.zone[p][h].ours
             \/ h = Star /\ Reconciling /\ ~ OwnsAllLiveRecords(p)
      PROVE  zone[p][h] = pre.zone[p][h]
  <2> DEFINE rec == pre.zone[p][h]
             c == plan.dc[p][h]
  <2>1. rec \in RecordOrNone /\ run \in Run /\ pre \in World /\ (plan = NoPlan \/ plan = PlanOf(run, pre))
    BY DEF IInv, TypeOK, World, Zone, Planned
  <2>2. ZoneAsk(run, pre, plan, p, h)
    BY <2>1, PlanZoneAsk
  <2>3. \/ c = NoDnsChange
        \/ /\ OwnsAllLiveRecords(p) /\ ~ rec.ours /\ rec.value # NoValue
           /\ \/ c.add = Target[p] /\ c.remove = NoValue
              \/ c.add = NoValue /\ c.remove = LiveValue(p, rec) /\ c.remove # NoValue
    BY <1>1, <2>2 DEF ZoneAsk, Reconciling
  <2>4. Named(p)[h] = rec /\ Unnamed(p)[h] = rec /\ AfterRemove(p, rec, c) = rec
    <3>1. /\ DnsNominal(p, rec, c).r = rec
          /\ AfterRemove(p, rec, c) = rec
          /\ DnsNominal(p, DnsNominal(p, rec, c).r, invertDNS(c)).r = rec
      BY <2>1, <2>3, ForeignRecordKept
    <3> QED
      BY <3>1 DEF Named, Unnamed
  <2>5. ZoneLeg(p)
    BY DEF IInv
  <2>6. \/ zone[p] = pre.zone[p]
        \/ zone[p] = Named(p)
        \/ zone[p] = Unnamed(p)
        \/ zone[p][h] \in {Named(p)[h], AfterRemove(p, pre.zone[p][h], plan.dc[p][h])}
    <3>1. /\ pc \in {"idle", "confirm", "adopt", "apply", "rollback", "done"}
          /\ outcome \in {"none", "refused", "noop", "declined", "failed", "applied"}
          /\ pc = "done" => outcome # "none"
      BY DEF IInv, TypeOK, Planned
    <3> QED
      BY <2>5, <3>1 DEF ZoneLeg, Halfway, Landed
  <2> QED
    BY <2>4, <2>6
<1>2. \A p \in Providers \cap Clean, h \in Hosts :
        /\ pre.zone[p][h].value # NoValue
        /\ \/ ~ anyFronts(h)
           \/ OwnsAllLiveRecords(p) /\ ~ pre.zone[p][h].ours
           \/ h = Star /\ Reconciling /\ ~ OwnsAllLiveRecords(p)
        => zone[p][h] = pre.zone[p][h]
  BY <1>1
<1> QED
  BY <1>2, InvRoutesKept DEF OthersKept

\* Without a call that stops half way, the record of a name the run adds where
\* there was none is up only while its step is applied, or after it landed.
LEMMA WhereName ==
    ASSUME IInv, NEW p \in Providers \cap Clean, NEW h \in Hosts, ~ StopsHalfway(p),
           ~ (plan.dc[p][h].add # NoValue /\ pre.zone[p][h].value # NoValue)
    PROVE  \/ zone[p][h].value = pre.zone[p][h].value
           \/ pc \in {"apply", "rollback"} /\ p \in applied
           \/ Landed
<1> DEFINE rec == pre.zone[p][h]
           c == plan.dc[p][h]
<1>1. rec \in RecordOrNone /\ run \in Run /\ pre \in World /\ (plan = NoPlan \/ plan = PlanOf(run, pre))
  BY DEF IInv, TypeOK, World, Zone, Planned
<1>2. ZoneAsk(run, pre, plan, p, h)
  BY <1>1, PlanZoneAsk
<1>3. ~ AddRefused(p, rec, c)
  BY DEF StopsHalfway
<1>4. /\ \/ c = NoDnsChange
         \/ c.add = Target[p] /\ c.remove = NoValue
         \/ c.add = NoValue /\ c.remove = LiveValue(p, rec) /\ c.remove # NoValue
  BY <1>2 DEF ZoneAsk
<1>5. Unnamed(p)[h].value = rec.value
  <2>1. DnsNominal(p, DnsNominal(p, rec, c).r, invertDNS(c)).r.value = rec.value
    BY <1>1, <1>3, <1>4, ZoneImages
  <2> QED
    BY <2>1 DEF Unnamed, Named
<1>6. ZoneLeg(p)
  BY DEF IInv
<1>7. /\ pc \in {"idle", "confirm", "adopt", "apply", "rollback", "done"}
      /\ outcome \in {"none", "refused", "noop", "declined", "failed", "applied"}
      /\ pc = "done" => outcome # "none"
  BY DEF IInv, TypeOK, Planned
<1> QED
  BY <1>5, <1>6, <1>7 DEF ZoneLeg, Halfway, Landed

\* A step on an edge comes before one on a provider.
LEMMA EdgeBeforeName ==
    ASSUME NEW e \in Edges, NEW p \in Providers
    PROVE  ~ Before("expose", p, e)
<1>1. p \notin Edges
  BY TopologyAssumption
<1>2. rank(e) = 0 /\ rank(p) \in {1, 2}
  BY <1>1 DEF rank, rankEdge, rankInternalDNS, rankPublicDNS
<1> QED
  BY <1>2 DEF Before

\* Announce last follows from the invariant: the applied steps are a prefix of
\* the sorted ones, and edges sort before providers.
LEMMA InvNamesLast ==
    ASSUME IInv
    PROVE  NamesLast
<1> SUFFICES ASSUME NEW p \in Providers \cap Clean, NEW e \in Edges \cap Clean, NEW h \in Hosts,
                    plan.dc[p][h].add # NoValue, zone[p][h].value # NoValue,
                    pre.zone[p][h].value = NoValue, ~ StopsHalfway(p),
                    h \in AddedHosts(plan.ec[e])
             PROVE  HasHost(edge[e], h)
  BY DEF NamesLast
<1>1. TypeOK /\ Planned
  BY DEF IInv
<1>2. plan.ec[e].add[h] # NoRoute => Wrote(e).mine[h] # NoRoute /\ HasHost(Wrote(e), h)
  BY <1>1, LegImages
<1>3. Wrote(e).mine[h] # NoRoute /\ HasHost(Wrote(e), h)
  BY <1>2 DEF AddedHosts
<1>4. EdgeLeg(e)
  BY DEF IInv
<1>5. \/ pc \in {"apply", "rollback"} /\ p \in applied
      \/ Landed
  BY WhereName
<1>6. CASE pc \in {"apply", "rollback"} /\ p \in applied
  <2>1. e \in Steps(plan)
    BY DEF Steps, EmptyEdgeChange, touchedHosts
  <2>2. e \in applied
    BY <1>6, <2>1, EdgeBeforeName DEF IInv, StepOrder
  <2>3. SameRoutes(edge[e], Wrote(e))
    BY <1>4, <1>6, <2>2 DEF EdgeLeg
  <2> QED
    BY <1>3, <2>3, SameFind
<1>7. CASE Landed
  <2>1. PICK s \in EdgeState : SameRoutes(s, Wrote(e)) /\ edge[e] = Persisted(e, s)
    BY <1>4, <1>7 DEF EdgeLeg
  <2>2. s.mine[h] # NoRoute /\ HasHost(s, h)
    BY <1>3, <2>1, SameFind
  <2>3. HasHost(Boot(mergeManagedRegion(s)), h)
    BY <2>2, ReloadedCell
  <2> QED
    BY <2>1, <2>2, <2>3 DEF Persisted
<1> QED
  BY <1>5, <1>6, <1>7

\* A failed run restores, by the invariant: crenel's own routes come back from
\* the snapshot exactly, because the drivers read them as they wrote them.
LEMMA InvFailedRunRestores ==
    ASSUME IInv
    PROVE  FailedRunRestores
<1> SUFFICES ASSUME pc = "done", outcome = "failed"
             PROVE  /\ \A e \in Edges \cap Clean, h \in Hosts :
                        /\ HasHost(edge[e], h) <=> HasHost(pre.edge[e], h)
                        /\ \/ edge[e].mine[h] = pre.edge[e].mine[h]
                           \/ h \in plan.adopt[e]
                           \/ h \in plan.ec[e].remove /\ pre.edge[e].other[h] # NoRoute
                    /\ \A p \in Providers \cap Clean, h \in Hosts :
                        /\ ~ StopsHalfway(p)
                        /\ ~ (plan.dc[p][h].add # NoValue /\ pre.zone[p][h].value # NoValue)
                        => zone[p][h].value = pre.zone[p][h].value
  BY DEF FailedRunRestores
<1>1. TypeOK /\ Planned
  BY DEF IInv
<1>2. ASSUME NEW e \in Edges \cap Clean, NEW h \in Hosts
      PROVE  /\ HasHost(edge[e], h) <=> HasHost(pre.edge[e], h)
             /\ \/ edge[e].mine[h] = pre.edge[e].mine[h]
                \/ h \in plan.adopt[e]
                \/ h \in plan.ec[e].remove /\ pre.edge[e].other[h] # NoRoute
  <2> DEFINE was == pre.edge[e]
  <2>1. /\ HasHost(Base(e), h) <=> HasHost(was, h)
        /\ h \notin plan.adopt[e] => Base(e).mine[h] = was.mine[h]
        /\ HasHost(Undone(e), h) <=> HasHost(was, h)
        /\ was.mine[h] # NoRoute /\ Render(e, was.mine[h]) = was.mine[h] =>
             \/ Undone(e).mine[h] = was.mine[h]
             \/ h \in plan.adopt[e]
             \/ h \in plan.ec[e].remove /\ was.other[h] # NoRoute
        /\ was.mine[h] = NoRoute =>
             \/ Undone(e).mine[h] = NoRoute
             \/ h \in plan.adopt[e]
             \/ h \in plan.ec[e].remove /\ was.other[h] # NoRoute
    BY <1>1, LegImages
  <2>2. e \in Steps(plan) /\ was.mine[h] # NoRoute => Render(e, was.mine[h]) = was.mine[h]
    <3>1. e \in Steps(plan) => e \notin Generated
      BY DEF IInv, Planned
    <3>2. was.mine[h] # NoRoute =>
            /\ was.mine[h] \in Route
            /\ e \notin Generated => was.mine[h].owner = "crenel"
            /\ FileEdge(e) => ~ was.mine[h].tls
      BY ConvergeAssumption DEF IInv, TypeOK, World, EdgeState, RouteTable, MarkedNow, Marked
    <3> QED
      BY <3>1, <3>2 DEF Render, Route, FileEdge
  <2>3. EdgeLeg(e)
    BY DEF IInv
  <2>4. \/ SameRoutes(edge[e], was)
        \/ SameRoutes(edge[e], Base(e))
        \/ e \in Steps(plan) /\ SameRoutes(edge[e], Undone(e))
    BY <2>3 DEF EdgeLeg
  <2>5. \A s : SameRoutes(edge[e], s) =>
            edge[e].mine[h] = s.mine[h] /\ (HasHost(edge[e], h) <=> HasHost(s, h))
    BY SameFind
  <2> QED
    BY <2>1, <2>2, <2>4, <2>5
<1>3. ASSUME NEW p \in Providers \cap Clean, NEW h \in Hosts, ~ StopsHalfway(p),
             ~ (plan.dc[p][h].add # NoValue /\ pre.zone[p][h].value # NoValue)
      PROVE  zone[p][h].value = pre.zone[p][h].value
  BY <1>3, WhereName DEF Landed
<1> QED
  BY <1>2, <1>3

\* Where everything is after a run that landed undisturbed.
LEMMA LandedWorld ==
    ASSUME IInv, Landed, tainted = {}, \A e \in Edges : ~ Reloaded(e)
    PROVE  /\ \A e \in Edges : SameRoutes(edge[e], Wrote(e))
           /\ \A p \in Providers : zone[p] = Named(p) /\ ~ StopsHalfway(p)
           /\ ReadBackOK
           /\ ~ PlanFails(run, pre) /\ plan = PlanOf(run, pre)
           /\ Live \in World /\ pre \in World /\ run \in Run
<1>1. Edges \subseteq Clean /\ Providers \subseteq Clean
  BY DEF IInv, StepOrder, Clean, Targets
<1>2. ASSUME NEW e \in Edges
      PROVE  SameRoutes(edge[e], Wrote(e))
  <2>1. EdgeLeg(e)
    BY <1>1 DEF IInv
  <2>2. PICK s \in EdgeState : SameRoutes(s, Wrote(e)) /\ edge[e] = Persisted(e, s)
    BY <2>1 DEF EdgeLeg
  <2> QED
    BY <2>2 DEF Persisted, Reloaded
<1>3. \A p \in Providers : zone[p] = Named(p) /\ ~ StopsHalfway(p)
  BY <1>1 DEF IInv, ZoneLeg
<1>4. ReadBackOK
  BY DEF IInv, StillVerified
<1>5. ~ PlanFails(run, pre) /\ plan = PlanOf(run, pre)
  BY DEF IInv, Planned, Landed
<1>6. Live \in World /\ pre \in World /\ run \in Run
  BY DEF IInv, TypeOK, Live, World
<1> QED
  BY <1>2, <1>3, <1>4, <1>5, <1>6

\* The records of a landed run: what was asked for is there.
LEMMA LandedZone ==
    ASSUME IInv, Landed, tainted = {}, \A e \in Edges : ~ Reloaded(e),
           NEW p \in Providers, NEW h \in Hosts
    PROVE  LET c == plan.dc[p][h] IN
           /\ c.add # NoValue => LiveValue(p, zone[p][h]) = Target[p] /\ zone[p][h].value = Target[p]
           /\ c.remove # NoValue => zone[p][h] = NoRecord
           /\ c = NoDnsChange => zone[p][h] = pre.zone[p][h]
<1> DEFINE rec == pre.zone[p][h]
           c == plan.dc[p][h]
<1>1. zone[p] = Named(p) /\ ~ StopsHalfway(p) /\ pre \in World /\ run \in Run
      /\ plan = PlanOf(run, pre)
  BY LandedWorld
<1>2. rec \in RecordOrNone
  BY <1>1 DEF World, Zone
<1>3. \/ c = NoDnsChange
      \/ c.add = Target[p] /\ c.remove = NoValue
      \/ c.add = NoValue /\ c.remove = LiveValue(p, rec) /\ c.remove # NoValue
  BY <1>1, PlanZoneAsk DEF ZoneAsk
<1>4. ~ AddRefused(p, rec, c)
  BY <1>1 DEF StopsHalfway
<1>5. zone[p][h] = DnsNominal(p, rec, c).r
  BY <1>1 DEF Named
<1> QED
  BY <1>2, <1>3, <1>4, <1>5, ZoneImages

\* After a reconcile that landed undisturbed nothing is missing and no mode
\* differs, so a second one has nothing to do.
LEMMA ReconcileConverged ==
    ASSUME IInv, Landed, tainted = {}, \A e \in Edges : ~ Reloaded(e), Reconciling
    PROVE  /\ ~ PlanFails(run, Live)
           /\ Steps(PlanOf(run, Live)) = {}
           /\ Adopting(PlanOf(run, Live)) = {}
<1> DEFINE old == canonicalState(pre)
           new == canonicalState(Live)
<1>1. /\ \A e \in Edges : SameRoutes(edge[e], Wrote(e))
      /\ ReadBackOK
      /\ ~ PlanFails(run, pre) /\ plan = PlanOf(run, pre)
      /\ Live \in World /\ pre \in World /\ run \in Run
  BY LandedWorld
<1>2. Live.edge = edge /\ Live.zone = zone
  BY DEF Live
<1>3. plan = planReconcile(pre) /\ PlanOf(run, Live) = planReconcile(Live)
  BY <1>1 DEF PlanOf, Reconciling
<1>4. /\ plan.canon = old
      /\ \A e \in Edges : plan.ec[e] = reconcileEdge(e, pre.edge[e], old)
      /\ \A p \in Providers : plan.dc[p] = reconcileZone(p, pre.zone[p], old)
  BY <1>3 DEF planReconcile, NoPlan
<1>5. \A h \in Hosts : /\ old[h] # NoRoute <=> anyFronts(h) /\ \E e \in Edges : HasHost(pre.edge[e], h)
                       /\ new[h] # NoRoute <=> anyFronts(h) /\ \E e \in Edges : HasHost(edge[e], h)
                       /\ new[h] = canonicalRouteOf(Live, h)
  BY <1>1, <1>2, CanonFacts
<1> HIDE DEF old, new
<1>6. \A e \in Edges, h \in Hosts : plan.ec[e].add[h] # NoRoute => old[h] # NoRoute
  <2> TAKE e \in Edges, h \in Hosts
  <2>1. MissingRoute(e, pre.edge[e], h, old[h]) \/ ModeMismatch(e, pre.edge[e], h, old[h])
            => old[h] # NoRoute
    BY DEF MissingRoute, ModeMismatch
  <2>2. plan.ec[e] = reconcileEdge(e, pre.edge[e], old)
    BY <1>4
  <2> QED
    BY <2>1, <2>2 DEF reconcileEdge
<1>7. \A e \in Edges, h \in Hosts : HasHost(edge[e], h) /\ ~ HasHost(pre.edge[e], h) => old[h] # NoRoute
  <2> TAKE e \in Edges, h \in Hosts
  <2>1. HasHost(Wrote(e), h) /\ ~ HasHost(pre.edge[e], h) => plan.ec[e].add[h] # NoRoute
    BY LegImages DEF IInv
  <2> QED
    BY <1>1, <1>6, <2>1, SameFind
<1>8. \A h \in Hosts : new[h] # NoRoute => old[h] # NoRoute
  BY <1>5, <1>7
<1>9. ASSUME NEW e \in Edges, NEW h \in Hosts, old[h] # NoRoute, roleFor(e, h) # "none"
      PROVE  \/ roleFor(e, h) = "forward" /\ ~ HasHost(edge[e], h) /\ wildcardForwards(edge[e])
             \/ HasHost(edge[e], h) /\ findRoute(edge[e], h).mode = old[h].mode
  <2>1. verifyReconcileEdge(e, edge[e])
    BY <1>1 DEF ReadBackOK, Reconciling
  <2> QED
    BY <1>4, <1>9, <2>1 DEF verifyReconcileEdge, Reachable
<1>10. ASSUME NEW h \in Hosts, old[h] # NoRoute
       PROVE  new[h] # NoRoute /\ new[h].mode = old[h].mode
  <2> DEFINE has == {e \in Edges : HasHost(edge[e], h)}
             terminal == {e \in has : roleFor(e, h) = "terminal"}
  <2>1. PICK t \in Edges : h \in Fronts[t]
    BY <1>5, <1>10 DEF anyFronts
  <2>2. t \in terminal
    <3>1. roleFor(t, h) = "terminal"
      BY <2>1 DEF roleFor
    <3> QED
      BY <1>9, <1>10, <3>1
  <2>3. new[h] # NoRoute
    BY <1>5, <1>10, <2>2
  <2>4. new[h] = findRoute(edge[FirstWired(terminal)], h)
    BY <1>2, <1>5, <2>2, <2>3 DEF canonicalRouteOf
  <2>5. FirstWired(terminal) \in terminal
    <3>1. terminal \in SUBSET Edges /\ terminal # {}
      BY <2>2
    <3> HIDE DEF terminal
    <3> QED
      BY <3>1, FirstWiredIn
  <2>6. \A f \in terminal : findRoute(edge[f], h).mode = old[h].mode
    BY <1>9, <1>10
  <2> QED
    BY <2>3, <2>4, <2>5, <2>6
<1>11. \A e \in Edges, h \in Hosts : ~ MissingRoute(e, edge[e], h, new[h])
                                     /\ ~ ModeMismatch(e, edge[e], h, new[h])
  BY <1>8, <1>9, <1>10 DEF MissingRoute, ModeMismatch
<1>12. \A e \in Edges : EmptyEdgeChange(reconcileEdge(e, edge[e], new))
                        /\ \A h \in Hosts : reconcileEdge(e, edge[e], new).add[h] = NoRoute
  BY <1>11 DEF EmptyEdgeChange, touchedHosts, AddedHosts, reconcileEdge
<1>13. ASSUME NEW p \in Providers, NEW h \in Hosts
       PROVE  reconcileZone(p, zone[p], new)[h] = NoDnsChange
  <2> DEFINE z == zone[p]
             y == pre.zone[p]
             c == plan.dc[p][h]
  <2>1. /\ c.add # NoValue => LiveValue(p, z[h]) = Target[p] /\ z[h].value = Target[p]
        /\ c.remove # NoValue => z[h] = NoRecord
        /\ c = NoDnsChange => z[h] = y[h]
    BY LandedZone
  <2>2. c = IF old[h] # NoRoute /\ Demanded(p, h) /\ (MissingRecord(p, y, h) \/ WrongTarget(p, y, h))
            THEN [add |-> Target[p], remove |-> NoValue]
            ELSE IF StaleRecord(p, y, h, old) THEN [add |-> NoValue, remove |-> LiveValue(p, y[h])]
            ELSE NoDnsChange
    BY <1>4 DEF reconcileZone
  <2>3. Target[p] # NoValue
    BY DnsDriverAssumption
  <2>4. wildcardCoverageMatch(p, y) => wildcardCoverageMatch(p, z)
    <3> DEFINE d == plan.dc[p][Star]
    <3>1. /\ d.add # NoValue => z[Star].value = Target[p]
          /\ d = NoDnsChange => z[Star] = y[Star]
      BY LandedZone, ConvergeAssumption
    <3>2. d = NoDnsChange \/ d.add = Target[p]
      <4>1. plan.dc[p] = reconcileZone(p, y, old) /\ Star \in Hosts
        BY <1>4, ConvergeAssumption
      <4>2. ~ StaleRecord(p, y, Star, old)
        BY DEF StaleRecord
      <4> QED
        BY <4>1, <4>2 DEF reconcileZone
    <3> QED
      BY <2>3, <3>1, <3>2 DEF wildcardCoverageMatch
  <2>5. ~ (new[h] # NoRoute /\ Demanded(p, h) /\ (MissingRecord(p, z, h) \/ WrongTarget(p, z, h)))
    <3> SUFFICES ASSUME new[h] # NoRoute, Demanded(p, h)
                 PROVE  ~ MissingRecord(p, z, h) /\ ~ WrongTarget(p, z, h)
      OBVIOUS
    <3>1. old[h] # NoRoute
      BY <1>8
    <3>2. CASE MissingRecord(p, y, h) \/ WrongTarget(p, y, h)
      <4>1. c.add = Target[p]
        BY <2>2, <3>1, <3>2
      <4> QED
        BY <2>1, <2>3, <4>1 DEF MissingRecord, WrongTarget
    <3>3. CASE ~ (MissingRecord(p, y, h) \/ WrongTarget(p, y, h))
      <4>1. c = NoDnsChange
        BY <2>2, <3>1, <3>3 DEF StaleRecord
      <4> QED
        BY <2>1, <2>4, <3>3, <4>1 DEF MissingRecord, WrongTarget, exactCoverageMatch
    <3> QED
      BY <3>2, <3>3
  <2>6. ~ StaleRecord(p, z, h, new)
    <3> SUFFICES ASSUME StaleRecord(p, z, h, new) PROVE FALSE
      OBVIOUS
    <3>1. old[h] = NoRoute /\ LiveValue(p, z[h]) # NoValue
      BY <1>10 DEF StaleRecord
    <3>2. CASE LiveValue(p, y[h]) # NoValue
      <4>1. c.remove # NoValue
        BY <2>2, <3>1, <3>2 DEF StaleRecord
      <4> QED
        BY <2>1, <3>1, <4>1 DEF LiveValue, NoRecord
    <3>3. CASE LiveValue(p, y[h]) = NoValue
      <4>1. c = NoDnsChange
        BY <2>2, <3>1, <3>3 DEF StaleRecord
      <4> QED
        BY <2>1, <3>1, <3>3, <4>1
    <3> QED
      BY <3>2, <3>3
  <2> QED
    BY <2>5, <2>6 DEF reconcileZone
<1>14. \A p \in Providers : reconcileZone(p, zone[p], new) = NoZoneChange
  BY <1>13 DEF reconcileZone, NoZoneChange
<1>15. /\ \A e \in Edges : planReconcile(Live).ec[e] = reconcileEdge(e, edge[e], new)
       /\ \A p \in Providers : planReconcile(Live).dc[p] = reconcileZone(p, zone[p], new)
       /\ \A e \in Edges : planReconcile(Live).adopt[e] = {}
  BY <1>2 DEF planReconcile, NoPlan, new
<1>16. ~ planReconcileFails(Live)
  BY <1>2, <1>12 DEF planReconcileFails, new
<1>17. ~ ReadOnly /\ run.verb = "reconcile"
  BY <1>1 DEF PlanFails, Reconciling
<1>18. ~ PlanFails(run, Live)
  BY <1>16, <1>17 DEF PlanFails
<1> QED
  BY <1>3, <1>12, <1>14, <1>15, <1>18 DEF Steps, Adopting

\* After an apply that landed undisturbed every host of the file is there with
\* crenel's marker, and nothing is left to prune.
LEMMA ApplyConverged ==
    ASSUME IInv, Landed, tainted = {}, \A e \in Edges : ~ Reloaded(e), ~ Reconciling
    PROVE  /\ ~ PlanFails(run, Live)
           /\ Steps(PlanOf(run, Live)) = {}
           /\ Adopting(PlanOf(run, Live)) = {}
<1>1. /\ \A e \in Edges : SameRoutes(edge[e], Wrote(e))
      /\ ~ PlanFails(run, pre) /\ plan = PlanOf(run, pre)
      /\ Live \in World /\ pre \in World /\ run \in Run
  BY LandedWorld
<1>2. Live.edge = edge /\ Live.zone = zone
  BY DEF Live
<1>3. run.verb = "apply" /\ run.verb # "reconcile"
  BY <1>1 DEF Run, Reconciling
<1>4. plan = planDeclarative(run, pre) /\ PlanOf(run, Live) = planDeclarative(run, Live)
  BY <1>1, <1>3 DEF PlanOf
<1>5. /\ \A e \in Edges : /\ plan.ec[e].add = declaredAdds(run, e, pre.edge[e])
                          /\ plan.ec[e].remove = prunedHosts(run, pre.edge[e])
                          /\ plan.adopt[e] = adoptedHosts(run, e, pre.edge[e])
      /\ \A p \in Providers : plan.dc[p] = declaredZone(run, p, pre.zone[p])
  BY <1>4 DEF planDeclarative
<1>6. ~ ReadOnly /\ ~ planDeclarativeFails(run, pre) /\ ~ ApplyBlocked(run, pre)
  BY <1>1, <1>3 DEF PlanFails
<1>7. \A e \in Edges : pre.edge[e] \in EdgeState
  BY <1>1 DEF World
\* Host by host, what the run left of the routes.
<1>8. ASSUME NEW e \in Edges, NEW h \in Hosts
      PROVE  /\ edge[e].first = pre.edge[e].first
             /\ edge[e].mine[h] = IF plan.ec[e].add[h] # NoRoute THEN Render(e, plan.ec[e].add[h])
                                  ELSE IF h \in plan.ec[e].remove THEN NoRoute ELSE Base(e).mine[h]
             /\ edge[e].other[h] =
                  IF EdgeKind[e] = "caddy_durable" /\ h \in plan.ec[e].remove /\ Base(e).mine[h] = NoRoute
                  THEN NoRoute ELSE Base(e).other[h]
             /\ plan.ec[e].add[h] # NoRoute => Render(e, plan.ec[e].add[h]) # NoRoute
             /\ Base(e).mine[h] = IF h \in plan.adopt[e] /\ pre.edge[e].other[h] # NoRoute
                                  THEN [pre.edge[e].other[h] EXCEPT !.owner = "crenel"]
                                  ELSE pre.edge[e].mine[h]
             /\ Base(e).other[h] = IF h \in plan.adopt[e] THEN NoRoute ELSE pre.edge[e].other[h]
  <2>1. Base(e) \in EdgeState /\ plan.ec[e] \in EdgeChange /\ plan.adopt[e] \in SUBSET Hosts
    BY ImageTypes DEF IInv, TypeOK, PlanType
  <2>2. /\ Base(e).first = pre.edge[e].first
        /\ Base(e).mine[h] = IF h \in plan.adopt[e] /\ pre.edge[e].other[h] # NoRoute
                             THEN [pre.edge[e].other[h] EXCEPT !.owner = "crenel"]
                             ELSE pre.edge[e].mine[h]
        /\ Base(e).other[h] = IF h \in plan.adopt[e] THEN NoRoute ELSE pre.edge[e].other[h]
    BY <1>7, <2>1, AdoptedCell DEF Base
  <2>3. /\ Wrote(e).first = Base(e).first
        /\ Wrote(e).mine[h] = IF plan.ec[e].add[h] # NoRoute THEN Render(e, plan.ec[e].add[h])
                              ELSE IF h \in plan.ec[e].remove THEN NoRoute ELSE Base(e).mine[h]
        /\ Wrote(e).other[h] =
             IF EdgeKind[e] = "caddy_durable" /\ h \in plan.ec[e].remove /\ Base(e).mine[h] = NoRoute
             THEN NoRoute ELSE Base(e).other[h]
        /\ plan.ec[e].add[h] # NoRoute => Render(e, plan.ec[e].add[h]) # NoRoute
    BY <2>1, WriteCell DEF Wrote
  <2> QED
    BY <1>1, <2>2, <2>3 DEF SameRoutes
\* Every host of the file is managed wherever the file wants it.
<1>9. ASSUME NEW x \in run.file, NEW e \in targetEdges(x)
      PROVE  managedRoute(edge[e], x.host)
  <2> DEFINE h == x.host
             was == pre.edge[e]
             add == plan.ec[e].add[h]
             wants == \E y \in run.file : y.host = h /\ e \in targetEdges(y) /\ ~ HasHost(was, h)
             x0 == CHOOSE y \in run.file : y.host = h /\ e \in targetEdges(y)
  <2>1. e \in Edges /\ h \in Hosts /\ h \in desiredHosts(run)
    BY <1>1 DEF targetEdges, Run, Exposure, desiredHosts
  <2>2. h \notin plan.ec[e].remove
    BY <1>5, <2>1 DEF prunedHosts
  <2>3. add = IF wants THEN declaredRoute(x0) ELSE NoRoute
    BY <1>5, <2>1 DEF declaredAdds
  <2>4. declaredRoute(x0) # NoRoute
    <3>1. x0 \in run.file
      OBVIOUS
    <3>2. declaredRoute(x0) \in Route
      <4> HIDE DEF x0
      <4> QED
        BY <1>1, <3>1 DEF declaredRoute, Route, Run, Exposure
    <3> QED
      BY <3>2, EdgeDriverAssumption
  <2>5. wants <=> ~ HasHost(was, h)
    OBVIOUS
  <2> HIDE DEF wants, x0
  <2>6. add # NoRoute <=> ~ HasHost(was, h)
    BY <2>3, <2>4, <2>5
  <2>7. plan.ec[e].add \in RouteTable
    BY <2>1, ImageTypes DEF IInv, EdgeChange
  <2>8. add # NoRoute => Render(e, add).owner = "crenel"
    BY <2>1, <2>7 DEF Render, RouteTable, Route
  <2>9. h \in plan.adopt[e] <=> Unmanaged(was, h)
    <3>1. Unmanaged(was, h) => ~ Blocked(run, x, was)
      BY <1>6 DEF ApplyBlocked
    <3> QED
      BY <1>5, <2>1, <3>1 DEF adoptedHosts
  <2>10. was.other[h] # NoRoute => [was.other[h] EXCEPT !.owner = "crenel"] \in Route
                                   /\ [was.other[h] EXCEPT !.owner = "crenel"].owner = "crenel"
    BY <1>7, <2>1 DEF EdgeState, RouteTable, Route
  <2>11. was.other[h] # NoRoute => [was.other[h] EXCEPT !.owner = "crenel"] # NoRoute
    BY <2>10, EdgeDriverAssumption
  <2>12. Unmanaged(was, h) => was.other[h] # NoRoute
    <3>1. was.mine[h] # NoRoute =>
            was.mine[h].owner = IF e \in Generated THEN "foreign" ELSE "crenel"
      BY <2>1 DEF IInv, MarkedNow, Marked
    <3>2. Unmanaged(was, h) => findRoute(was, h).owner \notin {"foreign", "unknown"}
      BY <1>6 DEF ApplyBlocked, Blocked
    <3> QED
      BY <3>1, <3>2 DEF Unmanaged, managedRoute, HasHost, findRoute, OrElse
  <2>13. /\ edge[e].first = was.first
         /\ edge[e].mine[h] = IF add # NoRoute THEN Render(e, add) ELSE Base(e).mine[h]
         /\ edge[e].other[h] = Base(e).other[h]
         /\ add # NoRoute => Render(e, add) # NoRoute
         /\ Base(e).mine[h] = IF h \in plan.adopt[e] /\ was.other[h] # NoRoute
                              THEN [was.other[h] EXCEPT !.owner = "crenel"] ELSE was.mine[h]
         /\ Base(e).other[h] = IF h \in plan.adopt[e] THEN NoRoute ELSE was.other[h]
    BY <1>8, <2>1, <2>2
  <2> HIDE DEF add, was, h
  <2>14. CASE ~ HasHost(was, h)
    <3>1. was.other[h] = NoRoute /\ was.mine[h] = NoRoute /\ ~ Unmanaged(was, h)
      BY <2>14 DEF HasHost, findRoute, OrElse, Unmanaged
    <3> QED
      BY <2>6, <2>8, <2>9, <2>13, <2>14, <3>1 DEF managedRoute, HasHost, findRoute, OrElse, h
  <2>15. CASE Unmanaged(was, h)
    <3>1. HasHost(was, h)
      BY <2>15 DEF Unmanaged
    <3> QED
      BY <2>6, <2>9, <2>10, <2>11, <2>12, <2>13, <2>15, <3>1
         DEF managedRoute, HasHost, findRoute, OrElse, h
  <2>16. CASE HasHost(was, h) /\ ~ Unmanaged(was, h)
    <3>1. managedRoute(was, h)
      BY <2>16 DEF Unmanaged
    <3>2. edge[e].mine[h] = was.mine[h] /\ edge[e].other[h] = was.other[h]
      BY <2>6, <2>9, <2>13, <2>16
    <3> QED
      BY <2>13, <3>1, <3>2 DEF managedRoute, HasHost, findRoute, OrElse, h
  <2> QED
    BY <2>14, <2>15, <2>16
<1>10. \A x \in run.file : \A e \in targetEdges(x) : HasHost(edge[e], x.host) /\ ~ Unmanaged(edge[e], x.host)
  BY <1>9 DEF managedRoute, Unmanaged
<1>11. ~ planDeclarativeFails(run, Live) /\ ~ ApplyBlocked(run, Live)
  BY <1>2, <1>6, <1>10 DEF planDeclarativeFails, ApplyBlocked, Blocked
<1>12. ~ PlanFails(run, Live)
  BY <1>3, <1>6, <1>11 DEF PlanFails
<1>13. \A e \in Edges, h \in Hosts : declaredAdds(run, e, edge[e])[h] = NoRoute
  BY <1>10 DEF declaredAdds
<1>14. \A e \in Edges : adoptedHosts(run, e, edge[e]) = {}
  BY <1>10 DEF adoptedHosts
<1>15. \A e \in Edges : prunedHosts(run, edge[e]) = {}
  <2> SUFFICES ASSUME NEW e \in Edges, NEW h \in Hosts, run.prune, ownRoute(edge[e], h),
                      h \notin desiredHosts(run)
               PROVE  FALSE
    BY DEF prunedHosts
  <2>1. plan.ec[e].add[h] = NoRoute
    <3>1. ~ \E x \in run.file : x.host = h
      BY DEF desiredHosts
    <3>2. plan.ec[e].add = declaredAdds(run, e, pre.edge[e])
      BY <1>5
    <3> QED
      BY <3>1, <3>2 DEF declaredAdds
  <2>2. h \notin plan.adopt[e]
    BY <1>5 DEF adoptedHosts, desiredHosts
  <2>3. h \notin plan.ec[e].remove => ~ ownRoute(pre.edge[e], h)
    BY <1>5 DEF prunedHosts
  <2>4. edge[e].mine[h] = IF h \in plan.ec[e].remove THEN NoRoute ELSE pre.edge[e].mine[h]
    <3>1. /\ edge[e].mine[h] = IF h \in plan.ec[e].remove THEN NoRoute ELSE Base(e).mine[h]
          /\ Base(e).mine[h] = pre.edge[e].mine[h]
      BY <1>8, <2>1, <2>2
    <3> QED
      BY <3>1
  <2> QED
    BY <2>3, <2>4 DEF ownRoute
<1>16. ASSUME NEW p \in Providers, NEW h \in Hosts
       PROVE  declaredZone(run, p, zone[p])[h] = NoDnsChange
  <2> DEFINE z == zone[p]
             y == pre.zone[p]
             c == plan.dc[p][h]
             asked == \E x \in run.file : x.host = h /\ scopeSelected(x, p)
  <2>1. /\ c.add # NoValue => LiveValue(p, z[h]) = Target[p] /\ z[h].value = Target[p]
        /\ c.remove # NoValue => z[h] = NoRecord
        /\ c = NoDnsChange => z[h] = y[h]
    BY LandedZone
  <2>2. plan.dc[p] = declaredZone(run, p, y)
    BY <1>5
  <2>3. c = IF h \in Covers[p] /\ LiveValue(p, y[h]) = NoValue /\ asked
            THEN [add |-> Target[p], remove |-> NoValue]
            ELSE IF /\ run.prune /\ h \in Covers[p] /\ LiveValue(p, y[h]) # NoValue
                    /\ anyFronts(h) /\ h \notin desiredHosts(run)
            THEN [add |-> NoValue, remove |-> LiveValue(p, y[h])]
            ELSE NoDnsChange
    BY <2>2 DEF declaredZone
  <2>4. declaredZone(run, p, z)[h] =
            IF h \in Covers[p] /\ LiveValue(p, z[h]) = NoValue /\ asked
            THEN [add |-> Target[p], remove |-> NoValue]
            ELSE IF /\ run.prune /\ h \in Covers[p] /\ LiveValue(p, z[h]) # NoValue
                    /\ anyFronts(h) /\ h \notin desiredHosts(run)
            THEN [add |-> NoValue, remove |-> LiveValue(p, z[h])]
            ELSE NoDnsChange
    BY DEF declaredZone
  <2>5. asked => h \in desiredHosts(run)
    BY DEF desiredHosts
  <2>6. Target[p] # NoValue /\ LiveValue(p, NoRecord) = NoValue
    BY DnsDriverAssumption DEF LiveValue, NoRecord
  <2> HIDE DEF asked
  <2> QED
    BY <2>1, <2>3, <2>4, <2>5, <2>6 DEF NoDnsChange
<1>17. \A p \in Providers : declaredZone(run, p, zone[p]) = NoZoneChange
  BY <1>16 DEF declaredZone, NoZoneChange
<1>18. /\ \A e \in Edges : /\ planDeclarative(run, Live).ec[e].add = declaredAdds(run, e, edge[e])
                           /\ planDeclarative(run, Live).ec[e].remove = prunedHosts(run, edge[e])
                           /\ planDeclarative(run, Live).adopt[e] = adoptedHosts(run, e, edge[e])
       /\ \A p \in Providers : planDeclarative(run, Live).dc[p] = declaredZone(run, p, zone[p])
  BY <1>2 DEF planDeclarative
<1>19. \A e \in Edges : EmptyEdgeChange(planDeclarative(run, Live).ec[e])
  BY <1>13, <1>15, <1>18 DEF EmptyEdgeChange, touchedHosts, AddedHosts
<1> QED
  BY <1>4, <1>12, <1>14, <1>17, <1>18, <1>19 DEF Steps, Adopting

\* Converging is idempotent, by the invariant.
LEMMA InvConvergedStaysConverged ==
    ASSUME IInv
    PROVE  ConvergedStaysConverged
BY ReconcileConverged, ApplyConverged DEF ConvergedStaysConverged

-----------------------------------------------------------------------------
(***************************************************************************)
(* Type correctness.                                                       *)
(***************************************************************************)
\* The initial state is well typed.
LEMMA InitType == Init => TypeOK
<1> SUFFICES ASSUME Init PROVE TypeOK
  OBVIOUS
<1>1. PICK w \in InitWorlds : edge = w.edge /\ zone = w.zone
  BY DEF Init
<1>2. edge \in [Edges -> EdgeState] /\ zone \in [Providers -> Zone]
  BY <1>1, ConvergeAssumption DEF World
<1>3. run \in Run
  BY ConvergeAssumption DEF Init
<1> QED
  BY <1>2, <1>3, NoPlanType, ConvergeAssumption DEF Init, TypeOK, Live, World

\* A provider call over many names leaves a zone, whether it works, is refused
\* half way or undoes another.
LEMMA ZoneOutcomeType ==
    ASSUME NEW p \in Providers, NEW z \in Zone, NEW c \in ZoneChange, NEW o \in ZoneOutcomes(p, z, c)
    PROVE  o.z \in Zone
<1>1. \A h \in Hosts : z[h] \in RecordOrNone /\ c[h] \in DnsChange
  BY DEF Zone, ZoneChange
<1>2. \A h \in Hosts : /\ DnsNominal(p, z[h], c[h]).r \in RecordOrNone
                       /\ AfterRemove(p, z[h], c[h]) \in RecordOrNone
  <2>1. \A h \in Hosts : AfterRemove(p, z[h], c[h]) \in RecordOrNone
    BY <1>1 DEF AfterRemove, RecordOrNone
  <2> QED
    BY <1>1, <2>1, DnsNominalType
<1> QED
  BY <1>2 DEF ZoneOutcomes, Zone

\* The compensator of a zone's change is one.
LEMMA InvertZoneType ==
    ASSUME NEW c \in ZoneChange
    PROVE  [h \in Hosts |-> invertDNS(c[h])] \in ZoneChange
<1>1. \A h \in Hosts : invertDNS(c[h]) \in DnsChange
  BY InvertDnsType DEF ZoneChange
<1> QED
  BY <1>1 DEF ZoneChange

\* A call to an edge, whatever becomes of it, keeps the types.
LEMMA CallEdgeType ==
    ASSUME TypeOK, NEW e \in Edges, NEW c \in EdgeChange, NEW failed, CallEdge(e, c, failed)
    PROVE  /\ edge' \in [Edges -> EdgeState] /\ zone' = zone
           /\ tainted' \subseteq Targets /\ credit' \in Nat
<1>1. edge[e] \in EdgeState
  BY DEF TypeOK
<1>2. CASE edge' = [edge EXCEPT ![e] = Nominal(e, edge[e], c).s] /\ UNCHANGED <<zone, credit, tainted>>
  <2>1. Nominal(e, edge[e], c).s \in EdgeState
    BY <1>1, NominalType
  <2> QED
    BY <1>2, <2>1 DEF TypeOK
<1>3. ASSUME NEW f \in Faulty(e, edge[e], c, FaultKinds), edge' = [edge EXCEPT ![e] = f.s],
             credit > 0, credit' = credit - 1, tainted' = tainted \cup {e}, UNCHANGED zone
      PROVE  /\ edge' \in [Edges -> EdgeState] /\ zone' = zone
             /\ tainted' \subseteq Targets /\ credit' \in Nat
  <2>1. f.s \in EdgeState
    BY <1>1, FaultyType
  <2> QED
    BY <1>3, <2>1 DEF TypeOK, Targets
<1> QED
  BY <1>2, <1>3 DEF CallEdge

\* A call to a provider, whatever becomes of it, keeps the types.
LEMMA CallProviderType ==
    ASSUME TypeOK, NEW p \in Providers, NEW c \in ZoneChange, NEW failed, CallProvider(p, c, failed)
    PROVE  /\ edge' = edge /\ zone' \in [Providers -> Zone]
           /\ tainted' \subseteq Targets /\ credit' \in Nat
<1>1. zone[p] \in Zone
  BY DEF TypeOK
<1>2. ASSUME NEW o \in ZoneOutcomes(p, zone[p], c), zone' = [zone EXCEPT ![p] = o.z],
             UNCHANGED <<edge, credit, tainted>>
      PROVE  /\ edge' = edge /\ zone' \in [Providers -> Zone]
             /\ tainted' \subseteq Targets /\ credit' \in Nat
  <2>1. o.z \in Zone
    BY <1>1, ZoneOutcomeType
  <2> QED
    BY <1>2, <2>1 DEF TypeOK
<1>3. CASE Fault("err") /\ tainted' = tainted \cup {p} /\ UNCHANGED <<edge, zone>>
  BY <1>3 DEF Fault, TypeOK, Targets
<1> QED
  BY <1>2, <1>3 DEF CallProvider

\* So does a step of the plan and its compensator.
LEMMA DoType ==
    ASSUME TypeOK, NEW t \in Targets, NEW failed, Do(t, failed) \/ Undo(t, failed)
    PROVE  /\ edge' \in [Edges -> EdgeState] /\ zone' \in [Providers -> Zone]
           /\ tainted' \subseteq Targets /\ credit' \in Nat
<1>1. /\ edge \in [Edges -> EdgeState] /\ zone \in [Providers -> Zone]
      /\ t \in Edges => plan.ec[t] \in EdgeChange /\ snap[t] \in EdgeState
      /\ t \in Providers => plan.dc[t] \in ZoneChange
  BY DEF TypeOK, PlanType
<1>2. t \in Edges => invertEdge(plan.ec[t], snap[t]) \in EdgeChange
  BY <1>1, InvertEdgeType
<1>3. t \in Providers => [h \in Hosts |-> invertDNS(plan.dc[t][h])] \in ZoneChange
  BY <1>1, InvertZoneType
<1>4. ASSUME NEW c \in EdgeChange, t \in Edges, CallEdge(t, c, failed)
      PROVE  /\ edge' \in [Edges -> EdgeState] /\ zone' \in [Providers -> Zone]
             /\ tainted' \subseteq Targets /\ credit' \in Nat
  BY <1>1, <1>4, CallEdgeType
<1>5. ASSUME NEW c \in ZoneChange, t \in Providers, CallProvider(t, c, failed)
      PROVE  /\ edge' \in [Edges -> EdgeState] /\ zone' \in [Providers -> Zone]
             /\ tainted' \subseteq Targets /\ credit' \in Nat
  BY <1>1, <1>5, CallProviderType
<1> QED
  BY <1>1, <1>2, <1>3, <1>4, <1>5 DEF Do, Undo

\* An edit by another tool leaves an edge state.
LEMMA EditType ==
    ASSUME NEW s \in EdgeState, NEW t \in EdgeEdits(s)
    PROVE  t \in EdgeState
<1> DEFINE r == [mode |-> "http", dial |-> "elsewhere", auth |-> "none", tls |-> FALSE, owner |-> "foreign"]
<1>1. r \in Route
  BY DEF Route
<1>2. ASSUME NEW h \in Hosts, t = [s EXCEPT !.mine[h] = NoRoute]
      PROVE  t \in EdgeState
  <2>1. [s.mine EXCEPT ![h] = NoRoute] \in RouteTable
    BY DEF EdgeState, RouteTable
  <2> QED
    BY <1>2, <2>1 DEF EdgeState
<1>3. ASSUME NEW h \in Hosts, t = [s EXCEPT !.other[h] = r]
      PROVE  t \in EdgeState
  <2>1. [s.other EXCEPT ![h] = r] \in RouteTable
    BY <1>1 DEF EdgeState, RouteTable
  <2> HIDE DEF r
  <2> QED
    BY <1>3, <2>1 DEF EdgeState
<1> QED
  BY <1>2, <1>3 DEF EdgeEdits

\* Every step keeps the state well typed.
LEMMA NextType ==
    ASSUME TypeOK, StepOrder, [Next]_vars
    PROVE  TypeOK'
<1> USE DEF TypeOK
<1>1. CASE Begin
  <2>1. PICK r \in Runs : /\ run' = r
                          /\ plan' = NoPlan \/ plan' = PlanOf(r, Live)
                          /\ pc' \in {"done", "confirm"}
                          /\ outcome' \in {"refused", "noop", "none"}
    BY <1>1 DEF Begin, Finish
  <2>2. Live \in World
    BY DEF Live, World
  <2>3. run' \in Run
    BY <2>1, ConvergeAssumption
  <2>4. plan' \in PlanType
    BY <2>1, <2>2, <2>3, NoPlanType, PlanOfType
  <2>5. /\ runsLeft' \in Nat /\ pre' \in World
        /\ snap' = edge /\ todo' = {} /\ applied' = {} /\ rbErr' = {} /\ tainted' = {}
        /\ UNCHANGED <<edge, zone, credit>>
    BY <1>1, <2>2 DEF Begin, world
  <2> QED
    BY <2>1, <2>3, <2>4, <2>5
<1>2. CASE Confirm
  BY <1>2 DEF Confirm, Finish, Adopting, Targets, world
<1>3. CASE AdoptStep
  <2>1. PICK e \in todo : e = FirstWired(todo) /\ e \in Edges
    BY <1>3, FirstWiredIn DEF AdoptStep, StepOrder
  <2>2. Adopted(edge[e], plan.adopt[e]) \in EdgeState
    BY <2>1, AdoptedType DEF PlanType
  <2>3. \/ /\ edge' = [edge EXCEPT ![e] = Adopted(@, plan.adopt[e])]
           /\ todo' = todo \ {e}
           /\ UNCHANGED <<pc, outcome, credit, tainted>>
        \/ /\ Fault("err")
           /\ Finish("failed")
           /\ tainted' = tainted \cup {e}
           /\ UNCHANGED <<edge, todo>>
    BY <1>3, <2>1 DEF AdoptStep
  <2>4. UNCHANGED <<zone, run, plan, snap, applied, rbErr, runsLeft, pre>>
    BY <1>3 DEF AdoptStep
  <2>5. edge' \in [Edges -> EdgeState]
    BY <2>2, <2>3
  <2> QED
    BY <2>1, <2>3, <2>4, <2>5 DEF Fault, Finish, Targets
<1>4. CASE Snapshot
  BY <1>4 DEF Snapshot, Steps, Targets, world
<1>5. CASE ApplyStep
  <2>1. PICK t \in todo : Do(t, FALSE) /\ todo' = todo \ {t} /\ applied' = applied \cup {t}
    BY <1>5 DEF ApplyStep
  <2>2. /\ edge' \in [Edges -> EdgeState] /\ zone' \in [Providers -> Zone]
        /\ tainted' \subseteq Targets /\ credit' \in Nat
    BY <2>1, DoType
  <2> QED
    BY <1>5, <2>1, <2>2 DEF ApplyStep
<1>6. CASE ApplyFails
  <2>1. PICK t \in todo : Do(t, TRUE)
    BY <1>6 DEF ApplyFails
  <2>2. /\ edge' \in [Edges -> EdgeState] /\ zone' \in [Providers -> Zone]
        /\ tainted' \subseteq Targets /\ credit' \in Nat
    BY <2>1, DoType
  <2> QED
    BY <1>6, <2>2 DEF ApplyFails, StartRollback, Finish
<1>7. CASE Verify
  <2>1. \A e \in Edges : Persisted(e, edge[e]) \in EdgeState
    BY MergeType, BootType DEF Persisted
  <2>2. edge' \in [Edges -> EdgeState]
    BY <1>7, <2>1 DEF Verify
  <2> QED
    BY <1>7, <2>2 DEF Verify, StartRollback, Finish
<1>8. CASE RollbackStep
  <2>1. PICK t \in applied : /\ applied' = applied \ {t}
                             /\ \/ Undo(t, TRUE) /\ rbErr' = rbErr \cup {t}
                                \/ Undo(t, FALSE) /\ UNCHANGED rbErr
    BY <1>8 DEF RollbackStep
  <2>2. /\ edge' \in [Edges -> EdgeState] /\ zone' \in [Providers -> Zone]
        /\ tainted' \subseteq Targets /\ credit' \in Nat
    BY <2>1, DoType
  <2> QED
    BY <1>8, <2>1, <2>2 DEF RollbackStep, Finish
<1>9. CASE OutOfBandEdge
  <2>1. PICK e \in Edges : \E s \in EdgeEdits(edge[e]) :
            edge' = [edge EXCEPT ![e] = s] /\ tainted' = tainted \cup {e}
    BY <1>9 DEF OutOfBandEdge
  <2>2. PICK s \in EdgeEdits(edge[e]) :
            edge' = [edge EXCEPT ![e] = s] /\ tainted' = tainted \cup {e}
    BY <2>1
  <2>3. s \in EdgeState
    BY <2>2, EditType
  <2> QED
    BY <1>9, <2>2, <2>3 DEF OutOfBandEdge, Fault, Targets
<1>10. CASE OutOfBandZone
  <2>1. PICK p \in Providers, h \in Hosts, r \in {NoRecord} \cup [value : Values, ours : {FALSE}] :
            zone' = [zone EXCEPT ![p] = [@ EXCEPT ![h] = r]] /\ tainted' = tainted \cup {p}
    BY <1>10 DEF OutOfBandZone
  <2>2. [zone[p] EXCEPT ![h] = r] \in Zone
    <3>1. r \in RecordOrNone /\ zone[p] \in Zone
      BY DEF RecordOrNone
    <3> QED
      BY <3>1 DEF Zone
  <2>3. zone' \in [Providers -> Zone] /\ tainted' \subseteq Targets
    BY <2>1, <2>2 DEF Targets
  <2>4. credit' \in Nat
    BY <1>10 DEF OutOfBandZone, Fault
  <2> QED
    BY <1>10, <2>3, <2>4 DEF OutOfBandZone
<1>11. CASE UNCHANGED vars
  BY <1>11 DEF vars, world
<1> QED
  BY <1>1, <1>2, <1>3, <1>4, <1>5, <1>6, <1>7, <1>8, <1>9, <1>10, <1>11 DEF Next, Crenel

-----------------------------------------------------------------------------
(***************************************************************************)
(* The inductive invariant holds at the start.                             *)
(***************************************************************************)
LEMMA InitInv == Init => IInv
<1> SUFFICES ASSUME Init PROVE IInv
  OBVIOUS
<1>1. TypeOK
  BY InitType
<1>2. /\ pc = "idle" /\ outcome = "none" /\ plan = NoPlan /\ rbErr = {}
      /\ pre.edge = edge /\ pre.zone = zone
  BY DEF Init, Live
<1>3. Planned
  BY <1>2 DEF Planned
<1>4. StepOrder
  BY <1>2 DEF StepOrder, Landed
<1>5. MarkedNow
  BY <1>2, MarkedAssumption DEF Init, MarkedNow
<1>6. ASSUME NEW e \in Edges PROVE EdgeLeg(e)
  BY <1>2 DEF EdgeLeg, Landed, SameRoutes
<1>7. ASSUME NEW p \in Providers PROVE ZoneLeg(p)
  BY <1>2 DEF ZoneLeg, Landed
<1>8. StillVerified
  BY <1>2 DEF StillVerified, Landed
<1> QED
  BY <1>1, <1>3, <1>4, <1>5, <1>6, <1>7, <1>8 DEF IInv

-----------------------------------------------------------------------------
(***************************************************************************)
(* Every step keeps it.                                                    *)
(***************************************************************************)
\* What a run is about is settled when it begins; a fault is not forgotten
\* before the next one.
LEMMA RunFrame ==
    ASSUME [Next]_vars, ~ Begin
    PROVE  /\ run' = run /\ plan' = plan /\ pre' = pre
           /\ tainted \subseteq tainted' /\ rbErr \subseteq rbErr'
<1> DEFINE Kept == /\ run' = run /\ plan' = plan /\ pre' = pre
                   /\ tainted \subseteq tainted' /\ rbErr \subseteq rbErr'
<1>1. ASSUME NEW t, NEW failed, Do(t, failed) \/ Undo(t, failed)
      PROVE  tainted \subseteq tainted'
  BY <1>1 DEF Do, Undo, CallEdge, CallProvider
<1>2. CASE Confirm \/ Snapshot \/ Verify
  BY <1>2 DEF Confirm, Snapshot, Verify
<1>3. CASE AdoptStep
  BY <1>3 DEF AdoptStep
<1>4. CASE ApplyStep
  BY <1>1, <1>4 DEF ApplyStep
<1>5. CASE ApplyFails
  BY <1>1, <1>5 DEF ApplyFails
<1>6. CASE RollbackStep
  BY <1>1, <1>6 DEF RollbackStep
<1>7. CASE OutOfBandEdge \/ OutOfBandZone
  BY <1>7 DEF OutOfBandEdge, OutOfBandZone
<1>8. CASE UNCHANGED vars
  BY <1>8 DEF vars
<1> QED
  BY <1>2, <1>3, <1>4, <1>5, <1>6, <1>7, <1>8 DEF Next, Crenel

\* Only an edge of the topology is a step with routes to change.
LEMMA StepKind ==
    ASSUME NEW pl, NEW t \in Steps(pl)
    PROVE  /\ t \in Edges => ~ EmptyEdgeChange(pl.ec[t])
           /\ t \in Providers => pl.dc[t] # NoZoneChange
BY TopologyAssumption DEF Steps

\* A run that goes on is one whose plan passed the gate.
LEMMA NextPlanned ==
    ASSUME IInv, [Next]_vars
    PROVE  Planned'
<1> USE DEF IInv
<1>1. CASE Begin
  <2>1. pre' = Live
    BY <1>1 DEF Begin
  <2>2. CASE PlanFails(run', Live) /\ Finish("refused") /\ plan' = NoPlan
    BY <2>1, <2>2 DEF Planned, Finish
  <2>3. CASE /\ ~ PlanFails(run', Live) /\ plan' = PlanOf(run', Live)
             /\ Finish("noop") \/ Finish("refused")
    BY <2>1, <2>3 DEF Planned, Finish
  <2>4. CASE /\ ~ PlanFails(run', Live) /\ plan' = PlanOf(run', Live)
             /\ ~ gateOwnership(plan', Live) /\ pc' = "confirm" /\ outcome' = "none"
    <3>1. ASSUME NEW e \in Edges, e \in Steps(plan')
          PROVE  e \notin Generated
      BY <2>4, <3>1, StepKind DEF gateOwnership
    <3> QED
      BY <2>1, <2>4, <3>1 DEF Planned
  <2> QED
    BY <1>1, <2>2, <2>3, <2>4 DEF Begin
<1>2. CASE ~ Begin
  <2>1. run' = run /\ plan' = plan /\ pre' = pre
    BY <1>2, RunFrame
  <2>2. \/ pc' = pc /\ outcome' = outcome
        \/ /\ pc \in {"confirm", "adopt", "apply", "rollback"}
           /\ \/ pc' = "done" /\ outcome' \in {"declined", "failed", "applied"}
              \/ pc' \in {"adopt", "apply", "rollback"} /\ outcome' = outcome
    BY <1>2 DEF Next, Crenel, Confirm, AdoptStep, Snapshot, ApplyStep, ApplyFails, Verify,
                RollbackStep, OutOfBandEdge, OutOfBandZone, StartRollback, Finish, vars
  <2> QED
    BY <2>1, <2>2 DEF Planned
<1> QED
  BY <1>1, <1>2

\* The applied steps stay a prefix of the sorted ones, going forward and back.
LEMMA NextStepOrder ==
    ASSUME IInv, [Next]_vars
    PROVE  StepOrder'
<1>0. TypeOK /\ Planned /\ StepOrder
  BY DEF IInv
<1>1. CASE Begin
  BY <1>1 DEF Begin, Finish, StepOrder, Landed
<1>2. CASE Confirm
  BY <1>0, <1>2 DEF Confirm, Finish, StepOrder, Landed, Adopting, Planned
<1>3. CASE AdoptStep
  BY <1>0, <1>3 DEF AdoptStep, Finish, StepOrder, Landed
<1>4. CASE Snapshot
  BY <1>0, <1>4 DEF Snapshot, StepOrder, Landed
<1>5. CASE ApplyStep
  <2>1. PICK t \in todo : /\ First("expose", t, todo)
                          /\ todo' = todo \ {t} /\ applied' = applied \cup {t}
    BY <1>5 DEF ApplyStep
  <2>2. pc = "apply" /\ pc' = pc /\ plan' = plan /\ rbErr' = rbErr /\ outcome' = outcome
    BY <1>5 DEF ApplyStep
  <2>3. \A s \in applied', u \in Steps(plan) \ applied' : Before("expose", s, u)
    BY <1>0, <2>1, <2>2 DEF StepOrder, First
  <2> QED
    BY <1>0, <2>1, <2>2, <2>3 DEF StepOrder, Landed
<1>6. CASE ApplyFails \/ Verify
  BY <1>0, <1>6 DEF ApplyFails, Verify, StartRollback, Finish, StepOrder, Landed
<1>7. CASE RollbackStep
  <2>1. PICK t \in applied : Last("expose", t, applied) /\ applied' = applied \ {t}
    BY <1>7 DEF RollbackStep
  <2>2. /\ pc = "rollback" /\ plan' = plan /\ todo' = todo
        /\ pc' = pc \/ (pc' = "done" /\ outcome' = "failed")
    BY <1>7 DEF RollbackStep, Finish
  <2>3. \A s \in applied', u \in Steps(plan) \ applied' : Before("expose", s, u)
    BY <1>0, <2>1, <2>2 DEF StepOrder, Last
  <2> QED
    BY <1>0, <2>1, <2>2, <2>3 DEF StepOrder, Landed
<1>8. CASE OutOfBandEdge \/ OutOfBandZone \/ UNCHANGED vars
  <2>1. UNCHANGED <<pc, outcome, rbErr, applied, todo, plan>>
    BY <1>8 DEF OutOfBandEdge, OutOfBandZone, vars
  <2> QED
    BY <1>0, <2>1 DEF StepOrder, Landed
<1> QED
  BY <1>1, <1>2, <1>3, <1>4, <1>5, <1>6, <1>7, <1>8 DEF Next, Crenel

\* The markers depend only on the routes.
LEMMA SameMarked ==
    ASSUME NEW e, NEW s, NEW t, SameRoutes(s, t), Marked(e, s)
    PROVE  Marked(e, t)
BY DEF SameRoutes, Marked

\* What a driver writes carries its marker.
LEMMA MarkedWrite ==
    ASSUME NEW e \in Edges, e \notin Generated, NEW s \in EdgeState, NEW c \in EdgeChange,
           Marked(e, s)
    PROVE  Marked(e, Write(e, s, c))
<1> SUFFICES ASSUME NEW h \in Hosts
             PROVE  /\ Write(e, s, c).mine[h] # NoRoute =>
                        /\ Write(e, s, c).mine[h].owner = "crenel"
                        /\ FileEdge(e) => ~ Write(e, s, c).mine[h].tls
                    /\ Write(e, s, c).other[h] # NoRoute /\ FileEdge(e) =>
                        ~ Write(e, s, c).other[h].tls
  BY DEF Marked
<1>1. /\ Write(e, s, c).mine[h] = IF c.add[h] # NoRoute THEN Render(e, c.add[h])
                                  ELSE IF h \in c.remove THEN NoRoute ELSE s.mine[h]
      /\ Write(e, s, c).other[h] \in {NoRoute, s.other[h]}
  BY WriteCell
<1>2. c.add[h] # NoRoute => c.add[h] \in Route
  BY DEF EdgeChange, RouteTable
<1>3. c.add[h] # NoRoute => /\ Render(e, c.add[h]).owner = "crenel"
                            /\ Render(e, c.add[h]).tls = (c.add[h].tls /\ AdminEdge(e))
  BY <1>2 DEF Render, Route
<1> QED
  BY <1>1, <1>3 DEF Marked, FileEdge

\* Adopting marks; a generated config has nothing to adopt.
LEMMA MarkedAdopted ==
    ASSUME NEW e \in Edges, NEW s \in EdgeState, NEW H \in SUBSET Hosts, Marked(e, s),
           e \in Generated => H = {}
    PROVE  Marked(e, Adopted(s, H))
<1> SUFFICES ASSUME NEW h \in Hosts
             PROVE  LET t == Adopted(s, H) IN
                    /\ t.mine[h] # NoRoute =>
                        /\ t.mine[h].owner = IF e \in Generated THEN "foreign" ELSE "crenel"
                        /\ FileEdge(e) => ~ t.mine[h].tls
                    /\ t.other[h] # NoRoute =>
                        /\ e \in Generated => t.other[h].owner = "foreign"
                        /\ FileEdge(e) => ~ t.other[h].tls
  BY DEF Marked
<1>1. /\ Adopted(s, H).mine[h] = IF h \in H /\ s.other[h] # NoRoute
                                 THEN [s.other[h] EXCEPT !.owner = "crenel"] ELSE s.mine[h]
      /\ Adopted(s, H).other[h] \in {NoRoute, s.other[h]}
  BY AdoptedCell
<1>2. s.other[h] # NoRoute => s.other[h] \in Route
  BY DEF EdgeState, RouteTable
<1>3. s.other[h] # NoRoute => /\ [s.other[h] EXCEPT !.owner = "crenel"].owner = "crenel"
                              /\ [s.other[h] EXCEPT !.owner = "crenel"].tls = s.other[h].tls
  BY <1>2 DEF Route
<1> QED
  BY <1>1, <1>3 DEF Marked

\* A plan adopts nothing on an edge whose config is generated.
LEMMA NothingGeneratedAdopted ==
    ASSUME TypeOK, Planned, MarkedNow, NEW e \in Edges, e \in Generated
    PROVE  plan.adopt[e] = {}
<1>1. plan.adopt[e] \in SUBSET Hosts /\ run \in Run /\ pre \in World /\ Marked(e, pre.edge[e])
  BY DEF TypeOK, PlanType, MarkedNow
<1>2. ASSUME NEW h \in plan.adopt[e] PROVE FALSE
  <2>1. EdgeAsk(run, pre, plan, e, h)
    BY <1>1, PlanAsk DEF Planned
  <2> QED
    BY <1>1, <2>1 DEF EdgeAsk, Unmanaged, HasHost, Marked, findRoute, OrElse
<1> QED
  BY <1>2

\* No call, sound or faulty, writes an unmarked route.
LEMMA CallMarked ==
    ASSUME TypeOK, NEW e \in Edges, e \notin Generated, NEW c \in EdgeChange, NEW failed,
           CallEdge(e, c, failed), \A f \in Edges : Marked(f, edge[f])
    PROVE  \A f \in Edges : Marked(f, edge'[f])
<1>1. edge[e] \in EdgeState /\ edge \in [Edges -> EdgeState]
  BY DEF TypeOK
<1>2. [c EXCEPT !.remove = {}] \in EdgeChange
  BY DEF EdgeChange
<1>3. /\ Marked(e, Write(e, edge[e], c)) /\ Write(e, edge[e], c) \in EdgeState
      /\ Marked(e, Write(e, edge[e], [c EXCEPT !.remove = {}]))
  BY <1>1, <1>2, MarkedWrite, WriteType
<1>4. Marked(e, Nominal(e, edge[e], c).s)
  <2>1. SameRoutes(Write(e, edge[e], c), Load(e, Write(e, edge[e], c)))
    BY <1>3, SameLoad DEF SameRoutes
  <2>2. Marked(e, Load(e, Write(e, edge[e], c)))
    BY <1>3, <2>1, SameMarked
  <2> QED
    BY <1>3, <2>2 DEF Nominal
<1>5. \A f \in Faulty(e, edge[e], c, FaultKinds) : Marked(e, f.s)
  <2>1. \A w : SameRoutes(Write(e, edge[e], c), [Write(e, edge[e], c) EXCEPT !.wedged = w])
    BY <1>3 DEF SameRoutes, EdgeState
  <2>2. \A w : Marked(e, [Write(e, edge[e], c) EXCEPT !.wedged = w])
    BY <1>3, <2>1, SameMarked
  <2> QED
    BY <1>3, <2>2 DEF Faulty
<1> QED
  BY <1>1, <1>4, <1>5 DEF CallEdge

\* What the drivers report of a route stays true of every step.
LEMMA NextMarked ==
    ASSUME IInv, [Next]_vars
    PROVE  MarkedNow'
<1>0. TypeOK /\ Planned /\ StepOrder /\ MarkedNow /\ edge \in [Edges -> EdgeState]
  BY DEF IInv, TypeOK
<1>1. CASE Begin
  <2>1. edge' = edge /\ pre'.edge = edge
    BY <1>1 DEF Begin, Live, world
  <2> QED
    BY <1>0, <2>1 DEF MarkedNow
<1>2. CASE ~ Begin
  <2>1. SUFFICES \A e \in Edges : Marked(e, edge'[e])
    <3>1. pre' = pre
      BY <1>2, RunFrame
    <3> QED
      BY <1>0, <3>1 DEF MarkedNow
  <2>2. \A e \in Edges : Marked(e, edge[e]) /\ edge[e] \in EdgeState
    BY <1>0 DEF MarkedNow
  <2>3. CASE edge' = edge
    BY <2>2, <2>3
  <2>4. CASE AdoptStep
    <3>1. PICK e \in todo : e = FirstWired(todo) /\ e \in Edges
      BY <1>0, <2>4, FirstWiredIn DEF AdoptStep, StepOrder
    <3>2. edge' = [edge EXCEPT ![e] = Adopted(@, plan.adopt[e])] \/ edge' = edge
      BY <2>4, <3>1 DEF AdoptStep
    <3>3. plan.adopt[e] \in SUBSET Hosts
      BY <1>0, <3>1 DEF TypeOK, PlanType
    <3>4. Marked(e, Adopted(edge[e], plan.adopt[e]))
      BY <1>0, <2>2, <3>1, <3>3, NothingGeneratedAdopted, MarkedAdopted
    <3> QED
      BY <1>0, <2>2, <3>1, <3>2, <3>4
  <2>5. CASE ApplyStep \/ ApplyFails \/ RollbackStep
    <3>1. PICK t, failed : /\ t \in Steps(plan)
                           /\ Do(t, failed) \/ Undo(t, failed)
      BY <1>0, <2>5 DEF ApplyStep, ApplyFails, RollbackStep, StepOrder
    <3>2. pc \in {"apply", "rollback"} /\ outcome = "none"
      BY <1>0, <2>5 DEF ApplyStep, ApplyFails, RollbackStep, Planned
    <3>3. CASE t \in Edges
      <4>1. t \notin Generated /\ plan.ec[t] \in EdgeChange /\ snap[t] \in EdgeState
        BY <1>0, <3>1, <3>2, <3>3 DEF Planned, TypeOK, PlanType
      <4>2. invertEdge(plan.ec[t], snap[t]) \in EdgeChange
        BY <4>1, InvertEdgeType
      <4>3. \/ CallEdge(t, plan.ec[t], failed)
            \/ CallEdge(t, invertEdge(plan.ec[t], snap[t]), failed)
        BY <3>1, <3>3, TopologyAssumption DEF Do, Undo
      <4> QED
        BY <1>0, <2>2, <3>3, <4>1, <4>2, <4>3, CallMarked
    <3>4. CASE t \notin Edges
      BY <2>2, <3>1, <3>4 DEF Do, Undo, CallProvider
    <3> QED
      BY <3>3, <3>4
  <2>6. CASE Verify
    <3>1. edge' = [e \in Edges |-> Persisted(e, edge[e])] \/ edge' = edge
      BY <2>6 DEF Verify
    <3>2. ASSUME NEW e \in Edges PROVE Marked(e, Persisted(e, edge[e]))
      <4>1. CASE EdgeKind[e] = "caddy_durable" /\ e \in Steps(plan)
        <5>1. e \notin Generated /\ ~ FileEdge(e)
          BY <1>0, <2>6, <4>1 DEF Verify, Planned, FileEdge, AdminEdge
        <5>2. mergeManagedRegion(edge[e]) \in EdgeState
          BY <2>2, MergeType
        <5>3. Boot(mergeManagedRegion(edge[e])).mine = NoRoutes
          BY <5>2 DEF Boot, EdgeState
        <5>4. Marked(e, Boot(mergeManagedRegion(edge[e])))
          BY <5>1, <5>3 DEF Marked, NoRoutes
        <5> QED
          BY <2>2, <5>4 DEF Persisted
      <4>2. CASE ~ (EdgeKind[e] = "caddy_durable" /\ e \in Steps(plan))
        BY <2>2, <4>2 DEF Persisted
      <4> QED
        BY <4>1, <4>2
    <3> QED
      BY <2>2, <3>1, <3>2
  <2>7. CASE OutOfBandEdge
    <3>1. PICK e \in Edges : \E s \in EdgeEdits(edge[e]) : edge' = [edge EXCEPT ![e] = s]
      BY <2>7 DEF OutOfBandEdge
    <3>2. ASSUME NEW s \in EdgeEdits(edge[e]) PROVE Marked(e, s)
      <4> DEFINE r == [mode |-> "http", dial |-> "elsewhere", auth |-> "none", tls |-> FALSE, owner |-> "foreign"]
      <4>1. r.owner = "foreign" /\ ~ r.tls
        OBVIOUS
      <4> HIDE DEF r
      <4>2. ASSUME NEW g \in Hosts, s = [edge[e] EXCEPT !.mine[g] = NoRoute]
            PROVE  Marked(e, s)
        <5>1. s.mine = [edge[e].mine EXCEPT ![g] = NoRoute] /\ s.other = edge[e].other
          BY <2>2, <4>2 DEF EdgeState
        <5>2. \A h \in Hosts : s.mine[h] \in {NoRoute, edge[e].mine[h]}
          BY <2>2, <5>1 DEF EdgeState, RouteTable
        <5> QED
          BY <2>2, <5>1, <5>2 DEF Marked
      <4>3. ASSUME NEW g \in Hosts, s = [edge[e] EXCEPT !.other[g] = r]
            PROVE  Marked(e, s)
        <5>1. s.other = [edge[e].other EXCEPT ![g] = r] /\ s.mine = edge[e].mine
          BY <2>2, <4>3 DEF EdgeState
        <5>2. \A h \in Hosts : s.other[h] \in {r, edge[e].other[h]}
          BY <2>2, <5>1 DEF EdgeState, RouteTable
        <5> QED
          BY <2>2, <4>1, <5>1, <5>2 DEF Marked
      <4> QED
        BY <4>2, <4>3 DEF EdgeEdits, r
    <3> QED
      BY <1>0, <2>2, <3>1, <3>2
  <2>8. edge' = edge \/ AdoptStep \/ ApplyStep \/ ApplyFails \/ RollbackStep \/ Verify \/ OutOfBandEdge
    BY <1>2 DEF Next, Crenel, Confirm, Snapshot, OutOfBandZone, vars, world
  <2> QED
    BY <2>3, <2>4, <2>5, <2>6, <2>7, <2>8
<1> QED
  BY <1>1, <1>2

\* Adopting nothing changes no route.
LEMMA AdoptNothing ==
    ASSUME NEW s \in EdgeState, NEW H \in SUBSET Hosts, \A h \in Hosts : h \notin H
    PROVE  SameRoutes(s, Adopted(s, H))
<1>1. ASSUME NEW h \in Hosts
      PROVE  Adopted(s, H).mine[h] = s.mine[h] /\ Adopted(s, H).other[h] = s.other[h]
  <2>1. /\ Adopted(s, H).mine[h] = IF h \in H /\ s.other[h] # NoRoute
                                   THEN [s.other[h] EXCEPT !.owner = "crenel"] ELSE s.mine[h]
        /\ Adopted(s, H).other[h] = IF h \in H THEN NoRoute ELSE s.other[h]
    BY AdoptedCell
  <2>2. h \notin H
    OBVIOUS
  <2> QED
    BY <2>1, <2>2
<1>2. Adopted(s, H) \in EdgeState
  BY AdoptedType
<1>3. Adopted(s, H).first = s.first
  BY DEF Adopted, EdgeState
<1> QED
  BY <1>1, <1>2, <1>3 DEF SameRoutes, EdgeState, RouteTable

\* A step is sound, or its target is marked as touched by a fault; it leaves
\* the other edges alone.
LEMMA CallOneEdge ==
    ASSUME TypeOK, NEW t \in Targets, NEW failed, NEW e \in Edges, e \notin tainted'
    PROVE  /\ Do(t, failed) => LET n == Nominal(e, edge[e], plan.ec[e]) IN
                IF t = e THEN edge'[e] = n.s /\ failed = n.err ELSE edge'[e] = edge[e]
           /\ Undo(t, failed) => LET n == Nominal(e, edge[e], invertEdge(plan.ec[e], snap[e])) IN
                IF t = e THEN edge'[e] = n.s /\ failed = n.err ELSE edge'[e] = edge[e]
<1>1. edge \in [Edges -> EdgeState]
  BY DEF TypeOK
<1>2. ASSUME NEW c, t \in Edges, CallEdge(t, c, failed)
      PROVE  LET n == Nominal(e, edge[e], c) IN
                IF t = e THEN edge'[e] = n.s /\ failed = n.err ELSE edge'[e] = edge[e]
  BY <1>1, <1>2 DEF CallEdge
<1>3. ASSUME NEW c, t \in Providers, CallProvider(t, c, failed)
      PROVE  t # e /\ edge'[e] = edge[e]
  BY <1>3, TopologyAssumption DEF CallProvider
<1> QED
  BY <1>2, <1>3 DEF Do, Undo

\* An edge that no fault touches moves from image to image.
LEMMA NextEdgeLeg ==
    ASSUME IInv, [Next]_vars, NEW e \in Edges, e \in Clean'
    PROVE  EdgeLeg(e)'
<1>0. TypeOK /\ Planned /\ StepOrder
  BY DEF IInv
<1>1. CASE Begin
  <2>1. edge' = edge /\ pre'.edge = edge
    BY <1>1 DEF Begin, Live, world
  <2>2. pc' = "confirm" \/ (pc' = "done" /\ outcome' \in {"refused", "noop"})
    BY <1>1 DEF Begin, Finish
  <2> QED
    BY <2>1, <2>2 DEF EdgeLeg, Landed, SameRoutes
<1>2. CASE ~ Begin
  <2>1. /\ plan' = plan /\ pre' = pre
        /\ e \in Clean /\ e \notin tainted' /\ e \notin rbErr'
    BY <1>2, RunFrame DEF Clean
  <2>2. /\ Base(e)' = Base(e) /\ Wrote(e)' = Wrote(e) /\ Undone(e)' = Undone(e)
        /\ Steps(plan)' = Steps(plan)
        /\ \A s : Persisted(e, s)' = Persisted(e, s)
    BY <2>1 DEF Base, Wrote, Undone, Persisted
  <2>3. EdgeLeg(e)
    BY <2>1 DEF IInv
  <2>4. /\ Base(e) \in EdgeState /\ Wrote(e) \in EdgeState
        /\ pre.edge[e] \in EdgeState /\ edge[e] \in EdgeState /\ snap[e] \in EdgeState
        /\ plan.ec[e] \in EdgeChange
        /\ invertEdge(plan.ec[e], Base(e)) \in EdgeChange
        /\ edge \in [Edges -> EdgeState] /\ snap \in [Edges -> EdgeState]
    BY <1>0, ImageTypes DEF TypeOK
  <2>5. ASSUME pc' = pc, outcome' = outcome, snap' = snap, edge'[e] = edge[e],
               e \in todo' <=> e \in todo, e \in applied' <=> e \in applied
        PROVE  EdgeLeg(e)'
    BY <2>1, <2>2, <2>3, <2>5 DEF EdgeLeg, Landed
  <2>6. ASSUME pc \in {"apply", "rollback"}, snap' = snap, edge'[e] = edge[e], e \in todo' <=> e \in todo,
               e \in applied' <=> e \in applied, StepOrder',
               \/ pc' = "rollback"
               \/ pc' = "done" /\ outcome' = "failed" /\ e \notin applied
        PROVE  EdgeLeg(e)'
    BY <2>1, <2>2, <2>3, <2>6 DEF EdgeLeg, Landed
  <2>7. CASE Confirm
    <3>1. pc = "confirm" /\ edge' = edge /\ SameRoutes(edge[e], pre.edge[e])
      BY <2>3, <2>7 DEF Confirm, EdgeLeg, world
    <3>2. CASE Finish("declined")
      BY <2>1, <3>1, <3>2 DEF EdgeLeg, Finish, Landed
    <3>3. CASE pc' = "adopt" /\ todo' = Adopting(plan)
      <4>1. e \notin todo' => SameRoutes(pre.edge[e], Base(e))
        BY <1>0, <2>4, <3>3, AdoptNothing DEF Adopting, Base, TypeOK, PlanType
      <4> QED
        BY <2>1, <2>2, <3>1, <3>3, <4>1, SameTransitive DEF EdgeLeg, Landed
    <3> QED
      BY <2>7, <3>2, <3>3 DEF Confirm
  <2>8. CASE AdoptStep
    <3>1. PICK f \in todo : f = FirstWired(todo) /\ f \in Edges
      BY <1>0, <2>8, FirstWiredIn DEF AdoptStep, StepOrder
    <3>2. /\ pc = "adopt" /\ snap' = snap /\ applied' = applied
          /\ SameRoutes(edge[e], IF e \in todo THEN pre.edge[e] ELSE Base(e))
      BY <2>3, <2>8 DEF AdoptStep, EdgeLeg
    <3>3. CASE /\ edge' = [edge EXCEPT ![f] = Adopted(@, plan.adopt[f])]
               /\ todo' = todo \ {f} /\ UNCHANGED <<pc, outcome, credit, tainted>>
      <4>1. CASE f = e
        <5>1. SameRoutes(edge'[e], Base(e))
          BY <2>4, <3>1, <3>2, <3>3, <4>1, SameAdopted DEF Base
        <5> QED
          BY <2>2, <3>2, <3>3, <4>1, <5>1 DEF EdgeLeg, Landed
      <4>2. CASE f # e
        BY <2>4, <2>5, <3>2, <3>3, <4>2
      <4> QED
        BY <4>1, <4>2
    <3>4. CASE Finish("failed") /\ UNCHANGED <<edge, todo>>
      BY <2>1, <2>2, <3>2, <3>4 DEF EdgeLeg, Finish, Landed
    <3> QED
      BY <2>8, <3>1, <3>3, <3>4 DEF AdoptStep
  <2>9. CASE Snapshot
    <3>1. /\ pc' = "apply" /\ snap' = edge /\ edge' = edge /\ e \notin applied'
          /\ todo' = Steps(plan) /\ SameRoutes(edge[e], Base(e))
      BY <1>0, <2>3, <2>9 DEF Snapshot, EdgeLeg, StepOrder, world
    <3> QED
      BY <2>1, <2>2, <3>1 DEF EdgeLeg, Landed
  <2>10. CASE ApplyStep
    <3>1. PICK t \in todo : Do(t, FALSE) /\ todo' = todo \ {t} /\ applied' = applied \cup {t}
      BY <2>10 DEF ApplyStep
    <3>2. pc = "apply" /\ pc' = pc /\ outcome' = outcome /\ snap' = snap
      BY <2>10 DEF ApplyStep
    <3>3. CASE t = e
      <4>1. e \notin applied /\ SameRoutes(edge[e], Base(e)) /\ SameRoutes(snap[e], Base(e))
        BY <1>0, <2>3, <3>1, <3>2, <3>3 DEF EdgeLeg, StepOrder
      <4>2. /\ edge'[e] = Nominal(e, edge[e], plan.ec[e]).s
            /\ Nominal(e, edge[e], plan.ec[e]).err = FALSE
        BY <1>0, <2>1, <3>1, <3>3, CallOneEdge DEF Targets
      <4>3. SameRoutes(edge'[e], Wrote(e))
        BY <2>4, <4>1, <4>2, NominalSame DEF Wrote
      <4> QED
        BY <2>1, <2>2, <3>1, <3>2, <3>3, <4>1, <4>3 DEF EdgeLeg, Landed
    <3>4. CASE t # e
      <4>1. edge'[e] = edge[e]
        BY <1>0, <2>1, <3>1, <3>4, CallOneEdge DEF TypeOK
      <4> QED
        BY <2>5, <3>1, <3>2, <3>4, <4>1
    <3> QED
      BY <3>3, <3>4
  <2>11. CASE ApplyFails
    <3>1. PICK t \in todo : Do(t, TRUE)
      BY <2>11 DEF ApplyFails
    <3>2. /\ pc = "apply" /\ UNCHANGED <<snap, todo, applied>>
          /\ pc' = "rollback" \/ (pc' = "done" /\ outcome' = "failed" /\ applied = {})
      BY <2>11 DEF ApplyFails, StartRollback, Finish
    <3>3. t = e => SameRoutes(edge[e], Base(e))
      BY <1>0, <2>3, <3>1, <3>2 DEF EdgeLeg, StepOrder
    <3>4. t \in Targets
      BY <1>0 DEF TypeOK
    <3>5. CASE t = e
      <4>1. PICK failed : Do(t, failed) /\ failed = TRUE
        BY <3>1
      <4>2. Do(t, failed)
        BY <4>1
      <4>3. /\ edge'[e] = Nominal(e, edge[e], plan.ec[e]).s
            /\ Nominal(e, edge[e], plan.ec[e]).err = failed
        BY <1>0, <2>1, <3>4, <3>5, <4>2, CallOneEdge
      <4>4. edge'[e] = edge[e]
        BY <2>4, <3>3, <3>5, <4>1, <4>3, NominalSame
      <4> QED
        BY <2>6, <3>2, <4>4, NextStepOrder
    <3>6. CASE t # e
      <4>1. edge'[e] = edge[e]
        BY <1>0, <2>1, <3>1, <3>4, <3>6, CallOneEdge
      <4> QED
        BY <2>6, <3>2, <4>1, NextStepOrder
    <3> QED
      BY <3>5, <3>6
  <2>12. CASE Verify
    <3>1. /\ pc = "apply" /\ todo = {} /\ UNCHANGED <<snap, todo, applied>>
          /\ \/ edge' = [f \in Edges |-> Persisted(f, edge[f])] /\ Finish("applied")
             \/ edge' = edge /\ StartRollback
      BY <2>12 DEF Verify
    <3>2. CASE edge' = [f \in Edges |-> Persisted(f, edge[f])] /\ Finish("applied")
      <4>1. SameRoutes(edge[e], Wrote(e))
        <5>1. CASE e \in applied
          BY <2>3, <3>1, <5>1 DEF EdgeLeg
        <5>2. CASE e \notin applied
          <6>1. e \notin Steps(plan) /\ SameRoutes(edge[e], Base(e))
            BY <1>0, <2>3, <3>1, <5>2 DEF EdgeLeg, StepOrder
          <6>2. SameRoutes(Wrote(e), Base(e))
            BY <2>4, <6>1, EmptyWrite DEF Steps, Wrote
          <6> QED
            BY <6>1, <6>2 DEF SameRoutes
        <5> QED
          BY <5>1, <5>2
      <4>2. edge'[e] = Persisted(e, edge[e])
        BY <3>2
      <4>3. \E s \in EdgeState : SameRoutes(s, Wrote(e)) /\ edge'[e] = Persisted(e, s)
        BY <2>4, <4>1, <4>2
      <4>4. (\E s \in EdgeState : SameRoutes(s, Wrote(e)) /\ edge[e] = Persisted(e, s))'
        BY <2>2, <4>3
      <4> QED
        BY <3>2, <4>4 DEF EdgeLeg, Finish, Landed
    <3>3. CASE edge' = edge /\ StartRollback
      BY <2>6, <3>1, <3>3, NextStepOrder DEF StartRollback, Finish
    <3> QED
      BY <3>1, <3>2, <3>3
  <2>13. CASE RollbackStep
    <3>1. PICK t \in applied : /\ applied' = applied \ {t}
                               /\ \/ Undo(t, TRUE) /\ rbErr' = rbErr \cup {t}
                                  \/ Undo(t, FALSE) /\ UNCHANGED rbErr
      BY <2>13 DEF RollbackStep
    <3>2. /\ pc = "rollback" /\ UNCHANGED <<snap, todo>>
          /\ \/ pc' = pc /\ outcome' = outcome
             \/ pc' = "done" /\ outcome' = "failed" /\ applied' = {}
      BY <2>13 DEF RollbackStep, Finish
    <3>3. t \in Targets /\ t \in Steps(plan) /\ t \notin todo
      BY <1>0, <3>1, <3>2 DEF TypeOK, StepOrder
    <3>4. CASE t = e
      <4>1. SameRoutes(edge[e], Wrote(e)) /\ SameRoutes(snap[e], Base(e))
        BY <2>3, <3>1, <3>2, <3>4 DEF EdgeLeg
      <4>2. Undo(e, FALSE)
        BY <2>1, <3>1, <3>4
      <4>3. invertEdge(plan.ec[e], snap[e]) = invertEdge(plan.ec[e], Base(e))
        BY <4>1, SameInvert
      <4>4. /\ edge'[e] = Nominal(e, edge[e], invertEdge(plan.ec[e], snap[e])).s
            /\ Nominal(e, edge[e], invertEdge(plan.ec[e], snap[e])).err = FALSE
        BY <1>0, <2>1, <3>3, <3>4, <4>2, CallOneEdge
      <4>5. SameRoutes(edge'[e], Undone(e))
        BY <2>4, <4>1, <4>3, <4>4, NominalSame DEF Undone
      <4> QED
        BY <2>1, <2>2, <3>1, <3>2, <3>3, <3>4, <4>1, <4>5 DEF EdgeLeg, Landed
    <3>5. CASE t # e
      <4>1. edge'[e] = edge[e]
        BY <1>0, <2>1, <3>1, <3>3, <3>5, CallOneEdge
      <4> QED
        BY <2>5, <2>6, <3>1, <3>2, <3>5, <4>1, NextStepOrder
    <3> QED
      BY <3>4, <3>5
  <2>14. CASE OutOfBandEdge \/ OutOfBandZone \/ UNCHANGED vars
    <3>1. edge'[e] = edge[e]
      BY <2>1, <2>4, <2>14 DEF OutOfBandEdge, OutOfBandZone, vars, world
    <3> QED
      BY <2>5, <2>14, <3>1 DEF OutOfBandEdge, OutOfBandZone, vars
  <2> QED
    BY <1>2, <2>7, <2>8, <2>9, <2>10, <2>11, <2>12, <2>13, <2>14 DEF Next, Crenel
<1> QED
  BY <1>1, <1>2

\* What a provider call that reports failed leaves, name by name: all of it,
\* or what was there before the add that was refused.
Answers(p, z, c, failed, after) ==
    /\ failed = FALSE =>
        /\ \A h \in Hosts : ~ AddRefused(p, z[h], c[h])
        /\ after = [h \in Hosts |-> DnsNominal(p, z[h], c[h]).r]
    /\ failed = TRUE =>
        /\ \E h \in Hosts : AddRefused(p, z[h], c[h])
        /\ \A h \in Hosts :
            after[h] \in {DnsNominal(p, z[h], c[h]).r, AfterRemove(p, z[h], c[h])}

\* The change that Undo asks of a provider.
Back(p) == [h \in Hosts |-> invertDNS(plan.dc[p][h])]

\* A sound provider call stops half way exactly when an add is refused.
LEMMA ZoneOutcomeCells ==
    ASSUME NEW p \in Providers, NEW z, NEW c, NEW o \in ZoneOutcomes(p, z, c)
    PROVE  Answers(p, z, c, o.err, o.z)
<1> DEFINE refused == {h \in Hosts : AddRefused(p, z[h], c[h])}
           all == [h \in Hosts |-> DnsNominal(p, z[h], c[h]).r]
           some(S) == [h \in Hosts |-> IF h \in S THEN DnsNominal(p, z[h], c[h]).r
                                       ELSE AfterRemove(p, z[h], c[h])]
<1>1. CASE refused = {}
  <2>1. o = [z |-> all, err |-> FALSE]
    BY <1>1 DEF ZoneOutcomes
  <2> HIDE DEF all
  <2>2. o.z = all /\ o.err = FALSE
    BY <2>1
  <2> QED
    BY <1>1, <2>2 DEF Answers, all
<1>2. CASE refused # {}
  <2>1. PICK S \in SUBSET (Hosts \ refused) : o = [z |-> some(S), err |-> TRUE]
    BY <1>2 DEF ZoneOutcomes
  <2>2. o.z = some(S) /\ o.err = TRUE
    BY <2>1
  <2>3. \A h \in Hosts : some(S)[h] \in {DnsNominal(p, z[h], c[h]).r, AfterRemove(p, z[h], c[h])}
    OBVIOUS
  <2> HIDE DEF some
  <2> QED
    BY <1>2, <2>2, <2>3 DEF Answers
<1> QED
  BY <1>1, <1>2

\* A step is sound, or its target is marked as touched by a fault; it leaves
\* the other providers alone.
LEMMA CallOneProvider ==
    ASSUME TypeOK, NEW t \in Targets, NEW failed, NEW p \in Providers, p \notin tainted'
    PROVE  /\ Do(t, failed) =>
                IF t = p THEN Answers(p, zone[p], plan.dc[p], failed, zone'[p])
                ELSE zone'[p] = zone[p]
           /\ Undo(t, failed) =>
                IF t = p THEN Answers(p, zone[p], Back(p), failed, zone'[p])
                ELSE zone'[p] = zone[p]
<1>1. zone \in [Providers -> Zone]
  BY DEF TypeOK
<1>2. ASSUME NEW c, t \in Edges, CallEdge(t, c, failed)
      PROVE  t # p /\ zone'[p] = zone[p]
  BY <1>2, TopologyAssumption DEF CallEdge
<1>3. ASSUME NEW c, t \in Providers, CallProvider(t, c, failed)
      PROVE  IF t = p THEN Answers(p, zone[p], c, failed, zone'[p]) ELSE zone'[p] = zone[p]
  <2>1. CASE t = p
    <3>1. PICK o \in ZoneOutcomes(p, zone[p], c) : zone' = [zone EXCEPT ![p] = o.z] /\ failed = o.err
      BY <1>3, <2>1 DEF CallProvider
    <3>2. zone'[p] = o.z
      BY <1>1, <3>1
    <3> QED
      BY <2>1, <3>1, <3>2, ZoneOutcomeCells
  <2>2. CASE t # p
    BY <1>1, <1>3, <2>2 DEF CallProvider
  <2> QED
    BY <2>1, <2>2
<1> QED
  BY <1>2, <1>3 DEF Do, Undo, Back

\* A provider that no fault touches moves from image to image.
LEMMA NextZoneLeg ==
    ASSUME IInv, [Next]_vars, NEW p \in Providers, p \in Clean'
    PROVE  ZoneLeg(p)'
<1>0. TypeOK /\ Planned /\ StepOrder /\ zone \in [Providers -> Zone]
  BY DEF IInv, TypeOK
<1>1. CASE Begin
  <2>1. zone' = zone /\ pre'.zone = zone
    BY <1>1 DEF Begin, Live, world
  <2>2. pc' = "confirm" \/ (pc' = "done" /\ outcome' \in {"refused", "noop"})
    BY <1>1 DEF Begin, Finish
  <2> QED
    BY <2>1, <2>2 DEF ZoneLeg, Landed
<1>2. CASE ~ Begin
  <2>1. /\ plan' = plan /\ pre' = pre
        /\ p \in Clean /\ p \notin tainted' /\ p \notin rbErr'
    BY <1>2, RunFrame DEF Clean
  <2>2. /\ Named(p)' = Named(p) /\ Unnamed(p)' = Unnamed(p)
        /\ StopsHalfway(p)' = StopsHalfway(p)
    BY <2>1 DEF Named, Unnamed, StopsHalfway
  <2>3. ZoneLeg(p)
    BY <2>1 DEF IInv
  <2>4. zone'[p] = zone[p] => Halfway(p)' = Halfway(p)
    BY <2>1, <2>2 DEF Halfway
  <2>5. ASSUME pc' = pc, outcome' = outcome, zone'[p] = zone[p], p \in applied' <=> p \in applied
        PROVE  ZoneLeg(p)'
    BY <2>1, <2>2, <2>3, <2>4, <2>5 DEF ZoneLeg, Landed
  <2>6. ASSUME pc \in {"apply", "rollback"}, zone'[p] = zone[p], p \in applied' <=> p \in applied,
               \/ pc' = "rollback"
               \/ pc' = "done" /\ outcome' = "failed" /\ p \notin applied
        PROVE  ZoneLeg(p)'
    BY <2>1, <2>2, <2>3, <2>4, <2>6 DEF ZoneLeg, Landed
  <2>7. CASE Confirm \/ AdoptStep \/ Snapshot
    <3>1. /\ zone' = zone /\ applied' = applied /\ pc \in {"confirm", "adopt"}
          /\ \/ pc' \in {"adopt", "apply"}
             \/ pc' = "done" /\ outcome' \in {"declined", "failed"}
      BY <2>7 DEF Confirm, AdoptStep, Snapshot, Finish, world
    <3>2. zone[p] = pre.zone[p] /\ p \notin applied
      BY <1>0, <2>3, <3>1 DEF ZoneLeg, StepOrder
    <3> QED
      BY <2>1, <3>1, <3>2 DEF ZoneLeg, Landed
  <2>8. CASE ApplyStep
    <3>1. PICK t \in todo : Do(t, FALSE) /\ applied' = applied \cup {t}
      BY <2>8 DEF ApplyStep
    <3>2. pc = "apply" /\ pc' = pc /\ outcome' = outcome /\ t \in Targets
      BY <1>0, <2>8 DEF ApplyStep, TypeOK
    <3>3. CASE t = p
      <4>1. zone[p] = pre.zone[p]
        BY <1>0, <2>3, <3>1, <3>2, <3>3 DEF ZoneLeg, StepOrder
      <4>2. Answers(p, zone[p], plan.dc[p], FALSE, zone'[p])
        BY <1>0, <2>1, <3>1, <3>2, <3>3, CallOneProvider
      <4>3. zone'[p] = Named(p) /\ ~ StopsHalfway(p)
        BY <4>1, <4>2 DEF Answers, Named, StopsHalfway
      <4> QED
        BY <2>2, <3>1, <3>2, <3>3, <4>3 DEF ZoneLeg, Landed
    <3>4. CASE t # p
      BY <1>0, <2>1, <2>5, <3>1, <3>2, <3>4, CallOneProvider
    <3> QED
      BY <3>3, <3>4
  <2>9. CASE ApplyFails
    <3>1. PICK t \in todo : Do(t, TRUE)
      BY <2>9 DEF ApplyFails
    <3>2. /\ pc = "apply" /\ applied' = applied /\ t \in Targets
          /\ pc' = "rollback" \/ (pc' = "done" /\ outcome' = "failed" /\ applied = {})
      BY <1>0, <2>9 DEF ApplyFails, StartRollback, Finish, TypeOK
    <3>3. CASE t = p
      <4>1. zone[p] = pre.zone[p] /\ p \notin applied
        BY <1>0, <2>3, <3>1, <3>2, <3>3 DEF ZoneLeg, StepOrder
      <4>2. PICK failed : Do(t, failed) /\ failed = TRUE
        BY <3>1
      <4>3. Do(t, failed)
        BY <4>2
      <4>4. Answers(p, zone[p], plan.dc[p], failed, zone'[p])
        BY <1>0, <2>1, <3>2, <3>3, <4>3, CallOneProvider
      <4>5. Answers(p, pre.zone[p], plan.dc[p], TRUE, zone'[p])
        BY <4>1, <4>2, <4>4
      <4>6. /\ \E h \in Hosts : AddRefused(p, pre.zone[p][h], plan.dc[p][h])
            /\ \A h \in Hosts : zone'[p][h] \in {DnsNominal(p, pre.zone[p][h], plan.dc[p][h]).r,
                                                 AfterRemove(p, pre.zone[p][h], plan.dc[p][h])}
        BY <4>5 DEF Answers
      <4>7. Halfway(p)'
        BY <2>1, <4>6 DEF Halfway, Named, StopsHalfway
      <4> QED
        BY <3>2, <4>1, <4>7 DEF ZoneLeg, Landed
    <3>4. CASE t # p
      BY <1>0, <2>1, <2>6, <3>1, <3>2, <3>4, CallOneProvider
    <3> QED
      BY <3>3, <3>4
  <2>10. CASE Verify
    <3>1. pc = "apply" /\ todo = {} /\ zone' = zone /\ applied' = applied
      BY <2>10 DEF Verify
    <3>2. CASE Finish("applied")
      <4>1. CASE p \in applied
        BY <2>1, <2>2, <2>3, <3>1, <3>2, <4>1 DEF ZoneLeg, Landed, Finish
      <4>2. CASE p \notin applied
        <5>1. zone[p] = pre.zone[p] /\ plan.dc[p] = NoZoneChange
          BY <1>0, <2>3, <3>1, <4>2 DEF ZoneLeg, StepOrder, Steps
        <5>2. ASSUME NEW h \in Hosts
              PROVE  /\ ~ AddRefused(p, pre.zone[p][h], plan.dc[p][h])
                     /\ DnsNominal(p, pre.zone[p][h], plan.dc[p][h]).r = pre.zone[p][h]
          <6>1. plan.dc[p][h] = NoDnsChange
            BY <5>1 DEF NoZoneChange
          <6> QED
            BY <6>1 DEF AddRefused, DnsNominal, AfterRemove, NoDnsChange
        <5>3. pre.zone[p] \in Zone
          BY <1>0, <5>1
        <5>4. Named(p) = pre.zone[p] /\ ~ StopsHalfway(p)
          BY <5>2, <5>3 DEF Named, StopsHalfway, Zone
        <5> QED
          BY <2>2, <3>1, <3>2, <5>1, <5>4 DEF ZoneLeg, Landed, Finish
      <4> QED
        BY <4>1, <4>2
    <3>3. CASE StartRollback
      BY <2>6, <3>1, <3>3 DEF StartRollback, Finish
    <3> QED
      BY <2>10, <3>2, <3>3 DEF Verify
  <2>11. CASE RollbackStep
    <3>1. PICK t \in applied : /\ applied' = applied \ {t}
                               /\ \/ Undo(t, TRUE) /\ rbErr' = rbErr \cup {t}
                                  \/ Undo(t, FALSE) /\ UNCHANGED rbErr
      BY <2>11 DEF RollbackStep
    <3>2. /\ pc = "rollback" /\ t \in Targets
          /\ \/ pc' = pc /\ outcome' = outcome
             \/ pc' = "done" /\ outcome' = "failed" /\ applied' = {}
      BY <1>0, <2>11 DEF RollbackStep, Finish, TypeOK
    <3>3. CASE t = p
      <4>1. zone[p] = Named(p) /\ ~ StopsHalfway(p)
        BY <2>3, <3>1, <3>2, <3>3 DEF ZoneLeg
      <4>2. Undo(p, FALSE)
        BY <2>1, <3>1, <3>3
      <4>3. Answers(p, Named(p), Back(p), FALSE, zone'[p])
        BY <1>0, <2>1, <3>2, <3>3, <4>1, <4>2, CallOneProvider
      <4>4. zone'[p] = Unnamed(p)
        BY <4>3 DEF Answers, Unnamed, Back
      <4> QED
        BY <2>2, <3>1, <3>2, <3>3, <4>1, <4>4 DEF ZoneLeg, Landed
    <3>4. CASE t # p
      <4>1. zone'[p] = zone[p]
        BY <1>0, <2>1, <3>1, <3>2, <3>4, CallOneProvider
      <4> QED
        BY <2>5, <2>6, <3>1, <3>2, <3>4, <4>1
    <3> QED
      BY <3>3, <3>4
  <2>12. CASE OutOfBandEdge \/ OutOfBandZone \/ UNCHANGED vars
    <3>1. zone'[p] = zone[p]
      BY <1>0, <2>1, <2>12 DEF OutOfBandEdge, OutOfBandZone, vars, world
    <3> QED
      BY <2>5, <2>12, <3>1 DEF OutOfBandEdge, OutOfBandZone, vars
  <2> QED
    BY <1>2, <2>7, <2>8, <2>9, <2>10, <2>11, <2>12 DEF Next, Crenel
<1> QED
  BY <1>1, <1>2

\* Nothing is written between the read-back and the end of a run, unless
\* persist reloads an edge.
LEMMA NextVerified ==
    ASSUME IInv, [Next]_vars
    PROVE  StillVerified'
<1> SUFFICES ASSUME Landed', \A e \in Edges : ~ Reloaded(e)'
             PROVE  ReadBackOK'
  BY DEF StillVerified
<1>0. TypeOK /\ Planned /\ StillVerified /\ edge \in [Edges -> EdgeState]
  BY DEF IInv, TypeOK
<1>1. ASSUME edge' = edge, zone' = zone, plan' = plan, run' = run, ReadBackOK
      PROVE  ReadBackOK'
  BY <1>1 DEF ReadBackOK, verifyReconcileEdge, verifyReconcileZone, verifyDeclarativeEdge,
              verifyDeclarativeZone
<1>2. CASE Verify
  <2>1. /\ ReadBackOK /\ edge' = [e \in Edges |-> Persisted(e, edge[e])]
        /\ zone' = zone /\ plan' = plan /\ run' = run
    <3>1. ~ StartRollback
      BY DEF StartRollback, Finish, Landed
    <3> QED
      BY <1>2, <3>1 DEF Verify
  <2>2. ASSUME NEW e \in Edges PROVE Persisted(e, edge[e]) = edge[e]
    <3>1. ~ (EdgeKind[e] = "caddy_durable" /\ e \in Steps(plan))
      BY <2>1 DEF Reloaded
    <3> QED
      BY <3>1 DEF Persisted
  <2>3. edge' = edge
    BY <1>0, <2>1, <2>2
  <2> QED
    BY <1>1, <2>1, <2>3
<1>3. CASE UNCHANGED vars
  <2>1. StillVerified => ReadBackOK
    BY <1>3 DEF StillVerified, Landed, Reloaded, vars
  <2> QED
    BY <1>0, <1>1, <1>3, <2>1 DEF vars, world
<1>4. ASSUME Next, ~ Verify PROVE FALSE
  <2>1. outcome' = "applied" /\ pc' = "done"
    BY DEF Landed
  <2>2. ~ Begin
    BY <2>1 DEF Begin, Finish
  <2>3. CASE outcome' = outcome
    BY <1>0, <1>4, <2>1, <2>2, <2>3
       DEF Next, Crenel, Confirm, AdoptStep, Snapshot, ApplyStep, ApplyFails, RollbackStep,
           OutOfBandEdge, OutOfBandZone, Running, StartRollback, Finish, Planned
  <2>4. CASE outcome' # outcome
    BY <1>4, <2>1, <2>2, <2>4
       DEF Next, Crenel, Confirm, AdoptStep, Snapshot, ApplyStep, ApplyFails, RollbackStep,
           OutOfBandEdge, OutOfBandZone, StartRollback, Finish
  <2> QED
    BY <2>3, <2>4
<1> QED
  BY <1>2, <1>3, <1>4

\* The invariant is inductive.
LEMMA NextInv ==
    ASSUME IInv, [Next]_vars
    PROVE  IInv'
<1>1. TypeOK'
  BY NextType DEF IInv
<1>2. Planned' /\ StepOrder' /\ MarkedNow' /\ StillVerified'
  BY NextPlanned, NextStepOrder, NextMarked, NextVerified
<1>3. \A e \in Edges \cap Clean' : EdgeLeg(e)'
  BY NextEdgeLeg
<1>4. \A p \in Providers \cap Clean' : ZoneLeg(p)'
  BY NextZoneLeg
<1> QED
  BY <1>1, <1>2, <1>3, <1>4 DEF IInv

-----------------------------------------------------------------------------
(***************************************************************************)
(* The theorems.                                                           *)
(***************************************************************************)
\* Every state a run of reconcile or apply reaches satisfies the inductive
\* invariant: a target that no fault touched is at an image of what the plan
\* was computed from.
THEOREM ConvergeInvariant == Spec => []IInv
<1>1. Init => IInv
  BY InitInv
<1>2. IInv /\ [Next]_vars => IInv'
  BY NextInv
<1> QED
  BY <1>1, <1>2, PTL DEF Spec

\* The state of Engine.Reconcile and ApplyDeclarative stays well typed.
THEOREM ConvergeTypeCorrect == Spec => []TypeOK
<1>1. IInv => TypeOK
  BY DEF IInv
<1> QED
  BY <1>1, ConvergeInvariant, PTL

\* Neither verb puts up a route without forward-auth for a host that the
\* first serving edge, or the file, gates.
THEOREM NeverAnUngatedCopy == Spec => []NoUngatedCopy
<1>1. IInv => NoUngatedCopy
  BY InvNoUngatedCopy
<1> QED
  BY <1>1, ConvergeInvariant, PTL

\* Neither verb, nor its rollback, changes a route or a record outside the
\* managed boundary.
THEOREM ManagedBoundaryHolds == Spec => []OthersKept
<1>1. IInv => OthersKept
  BY InvOthersKept
<1> QED
  BY <1>1, ConvergeInvariant, PTL

\* No edge loses a host at any point of a reconcile; an apply takes down only
\* what --prune may.
THEOREM NeverDark == Spec => []NothingGoesDark
<1>1. IInv => NothingGoesDark
  BY InvNothingGoesDark
<1> QED
  BY <1>1, ConvergeInvariant, PTL

\* The sort of the apply steps and the reverse order of the rollback keep a
\* name from being announced before its routes are there.
THEOREM NamesAnnouncedLast == Spec => []NamesLast
<1>1. IInv => NamesLast
  BY InvNamesLast
<1> QED
  BY <1>1, ConvergeInvariant, PTL

\* A failed reconcile or apply leaves every target that no fault touched
\* routing and answering what it did.
THEOREM RollbackIsComplete == Spec => []FailedRunRestores
<1>1. IInv => FailedRunRestores
  BY InvFailedRunRestores
<1> QED
  BY <1>1, ConvergeInvariant, PTL

\* Converging twice is converging once.
THEOREM ConvergingIsIdempotent == Spec => []ConvergedStaysConverged
<1>1. IInv => ConvergedStaysConverged
  BY InvConvergedStaysConverged
<1> QED
  BY <1>1, ConvergeInvariant, PTL

\* A reconcile whose read-back passed left the edges of every host in
\* agreement, whatever was done to them meanwhile.
THEOREM ReadBackMeansAgreement == Spec => VerifiedEdgesAgree
<1> DEFINE A == Reconciling /\ pc = "apply" /\ pc' = "done" /\ outcome' = "applied" =>
                    \A e \in Edges : /\ edge[e].deny
                        /\ \A f \in Edges, h \in Hosts :
                            /\ plan.canon[h] # NoRoute
                            /\ roleFor(e, h) = "terminal" /\ roleFor(f, h) # "none"
                            => /\ HasHost(edge[e], h)
                               /\ \/ /\ HasHost(edge[f], h)
                                     /\ findRoute(edge[f], h).mode = findRoute(edge[e], h).mode
                                  \/ roleFor(f, h) = "forward" /\ wildcardForwards(edge[f])
<1>1. [Next]_vars => [A]_vars
  <2> SUFFICES ASSUME Next, Reconciling, pc = "apply", pc' = "done", outcome' = "applied"
               PROVE  \A e \in Edges : /\ edge[e].deny
                        /\ \A f \in Edges, h \in Hosts :
                            /\ plan.canon[h] # NoRoute
                            /\ roleFor(e, h) = "terminal" /\ roleFor(f, h) # "none"
                            => /\ HasHost(edge[e], h)
                               /\ \/ /\ HasHost(edge[f], h)
                                     /\ findRoute(edge[f], h).mode = findRoute(edge[e], h).mode
                                  \/ roleFor(f, h) = "forward" /\ wildcardForwards(edge[f])
    OBVIOUS
  <2>1. Verify
    BY DEF Next, Begin, Crenel, Confirm, AdoptStep, Snapshot, ApplyStep, ApplyFails, RollbackStep,
           OutOfBandEdge, OutOfBandZone, StartRollback, Finish
  <2>2. ReadBackOK
    BY <2>1 DEF Verify, StartRollback, Finish
  <2>3. \A e \in Edges : verifyReconcileEdge(e, edge[e])
    BY <2>2 DEF ReadBackOK, Reconciling
  <2>4. \A e \in Edges : edge[e].deny
    BY <2>3 DEF verifyReconcileEdge
  <2>5. ASSUME NEW e \in Edges, NEW h \in Hosts, plan.canon[h] # NoRoute, roleFor(e, h) # "none"
        PROVE  \/ roleFor(e, h) = "forward" /\ wildcardForwards(edge[e])
               \/ HasHost(edge[e], h) /\ findRoute(edge[e], h).mode = plan.canon[h].mode
    BY <2>3, <2>5 DEF verifyReconcileEdge, Reachable
  <2> QED
    BY <2>4, <2>5
<1> QED
  BY <1>1, PTL DEF Spec, VerifiedEdgesAgree

=============================================================================
