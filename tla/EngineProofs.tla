----------------------------- MODULE EngineProofs -----------------------------
(***************************************************************************)
(* Proofs about the transaction of module Engine, for every wiring, every  *)
(* set of operations and any number of faults: that it leaves alone what   *)
(* it does not own (OthersUntouched) and announces last and withdraws      *)
(* first (ExposureOrdered); and what it leaves behind after a failure,     *)
(* after a success, and at the moment its read-back passes.                *)
(***************************************************************************)
EXTENDS EngineProperties, DriverProofs, FiniteSetTheorems, TopologyProofs

-----------------------------------------------------------------------------
(***************************************************************************)
(* Type correctness.                                                       *)
(***************************************************************************)
\* What another tool leaves behind on an edge is an edge state.
LEMMA EdgeEditsType ==
    ASSUME NEW s \in EdgeState, NEW x \in EdgeEdits(s)
    PROVE  x \in EdgeState
<1>1. \A h \in Hosts : [s EXCEPT !.mine[h] = NoRoute] \in EdgeState
  BY DEF EdgeState, RouteTable
<1>2. \A h \in Hosts : [s EXCEPT !.other[h] = NoRoute] \in EdgeState
  BY DEF EdgeState, RouteTable
<1>3. ASSUME NEW h \in Hosts, NEW w \in {"unmanaged", "foreign"}
      PROVE  [s EXCEPT !.other[h] = OthersRoute(w)] \in EdgeState
  <2> DEFINE r == OthersRoute(w)
  <2>1. r \in Route
    BY DEF Route, OthersRoute
  <2> HIDE DEF r
  <2>2. [s EXCEPT !.other[h] = r] \in EdgeState
    BY <2>1 DEF EdgeState, RouteTable
  <2> QED
    BY <2>2 DEF r
<1>4. ASSUME NEW h \in Hosts, s.mine[h] # NoRoute
      PROVE  [s EXCEPT !.mine[h].auth = "none"] \in EdgeState
  <2>1. s.mine[h] \in Route
    BY <1>4 DEF EdgeState, RouteTable
  <2> DEFINE r == [s.mine[h] EXCEPT !.auth = "none"]
  <2>2. r \in Route
    BY <2>1 DEF Route
  <2>3. [s EXCEPT !.mine[h].auth = "none"] = [s EXCEPT !.mine[h] = r]
    BY DEF EdgeState, RouteTable
  <2> HIDE DEF r
  <2> QED
    BY <2>2, <2>3 DEF EdgeState, RouteTable
<1>5. [s EXCEPT !.deny = FALSE] \in EdgeState
  BY DEF EdgeState
<1> DEFINE A(h) == [s EXCEPT !.mine[h] = NoRoute]
           B(h) == [s EXCEPT !.other[h] = NoRoute]
           C(h, w) == [s EXCEPT !.other[h] = OthersRoute(w)]
           D(h) == [s EXCEPT !.mine[h].auth = "none"]
           G == [s EXCEPT !.deny = FALSE]
<1>6. EdgeEdits(s) = {A(h) : h \in Hosts} \cup {B(h) : h \in Hosts}
                     \cup {C(h, w) : h \in Hosts, w \in {"unmanaged", "foreign"}}
                     \cup {D(h) : h \in {g \in Hosts : s.mine[g] # NoRoute}} \cup {G}
  BY DEF EdgeEdits, A, B, C, D, G
<1>7. /\ \A h \in Hosts : A(h) \in EdgeState /\ B(h) \in EdgeState
      /\ \A h \in Hosts, w \in {"unmanaged", "foreign"} : C(h, w) \in EdgeState
      /\ \A h \in Hosts : s.mine[h] # NoRoute => D(h) \in EdgeState
      /\ G \in EdgeState
  BY <1>1, <1>2, <1>3, <1>4, <1>5, Zenon
<1> HIDE DEF A, B, C, D, G
<1> QED
  BY <1>6, <1>7

-----------------------------------------------------------------------------
(***************************************************************************)
(* Type correctness.                                                       *)
(***************************************************************************)
\* The empty plan is a plan.
LEMMA NoPlanType == NoPlan \in PlanType
<1>1. NoDnsChange \in DnsChange
  BY DEF NoDnsChange, DnsChange
<1> QED
  BY <1>1, NoEdgeChangeType DEF NoPlan, PlanType

\* Engine.Plan and PlanRename return a plan.
LEMMA ChangesType ==
    ASSUME TypeOK, NEW o \in Op
    PROVE  Changes(o) \in PlanType
<1>1. Participants(o) \in SUBSET Edges
  BY DEF Participants
<1>2. ASSUME NEW e \in Edges, e \in Participants(o)
      PROVE  /\ o.verb = "rename" => RenamePlan(o, edge[e]) \in EdgeChange
             /\ EdgePlan(o, e, edge[e]) \in EdgeChange
  <2>1. edge[e] \in EdgeState
    BY DEF TypeOK
  <2>2. o.verb = "rename" => HasHost(edge[e], o.old)
    BY <1>2 DEF Participants
  <2> QED
    BY <2>1, <2>2, RenamePlanType, EdgePlanType
<1>3. ASSUME NEW p \in Providers
      PROVE  Diff(o, p, zone[p][o.host]) \in DnsChange
  <2>1. o.host \in Hosts
    BY DEF Op
  <2>2. zone[p][o.host] \in RecordOrNone
    BY <2>1 DEF TypeOK, Zone
  <2> QED
    BY <2>2, DiffType
<1>4. NoDnsChange \in DnsChange
  BY DEF NoDnsChange, DnsChange
<1> DEFINE ec == [e \in Edges |->
                    IF e \notin Participants(o) THEN NoEdgeChange
                    ELSE IF o.verb = "rename" THEN RenamePlan(o, edge[e])
                    ELSE EdgePlan(o, e, edge[e])]
           dc == [p \in Providers |->
                    IF o.verb = "rename" \/ PlanSkips(o, p) THEN NoDnsChange
                    ELSE Diff(o, p, zone[p][o.host])]
<1>5. ec \in [Edges -> EdgeChange]
  BY <1>2, NoEdgeChangeType
<1>6. dc \in [Providers -> DnsChange]
  BY <1>3, <1>4
<1>7. Changes(o) = [part |-> Participants(o), ec |-> ec, dc |-> dc]
  BY DEF Changes
<1> HIDE DEF ec, dc
<1> QED
  BY <1>1, <1>5, <1>6, <1>7 DEF PlanType

\* The steps of a plan are edges and providers.
LEMMA StepsType == ASSUME NEW pl PROVE Steps(pl) \subseteq Targets
BY DEF Steps, Targets

\* A call of an edge or a provider, good or bad, keeps the world well typed.
LEMMA CallEdgeType ==
    ASSUME TypeOK, NEW e \in Edges, NEW c \in EdgeChange, NEW failed \in BOOLEAN,
           CallEdge(e, c, failed)
    PROVE  /\ edge' \in [Edges -> EdgeState]
           /\ zone' \in [Providers -> Zone]
           /\ credit' \in Nat
           /\ tainted' \subseteq Targets
<1>1. edge[e] \in EdgeState
  BY DEF TypeOK
<1>2. Nominal(e, edge[e], c).s \in EdgeState
  BY <1>1, NominalType
<1>3. \A f \in Faulty(e, edge[e], c, FaultKinds) : f.s \in EdgeState
  BY <1>1, FaultyType
<1> QED
  BY <1>2, <1>3 DEF CallEdge, TypeOK, Targets

\* The same for a provider.
LEMMA CallProviderType ==
    ASSUME TypeOK, NEW p \in Providers, NEW c \in DnsChange, NEW failed \in BOOLEAN,
           CallProvider(p, c, failed)
    PROVE  /\ edge' \in [Edges -> EdgeState]
           /\ zone' \in [Providers -> Zone]
           /\ credit' \in Nat
           /\ tainted' \subseteq Targets
<1>1. op.host \in Hosts
  BY DEF TypeOK, Op
<1>2. zone[p][op.host] \in RecordOrNone
  BY <1>1 DEF TypeOK, Zone
<1>3. DnsNominal(p, zone[p][op.host], c).r \in RecordOrNone
  BY <1>2, DnsNominalType
<1>4. \A f \in DnsFaulty(p, zone[p][op.host], c, FaultKinds) : f.r \in RecordOrNone
  BY <1>2, DnsFaultyType
<1>5. ASSUME NEW r \in RecordOrNone
      PROVE  [zone EXCEPT ![p] = [@ EXCEPT ![op.host] = r]] \in [Providers -> Zone]
  BY <1>1 DEF TypeOK, Zone
<1> QED
  BY <1>3, <1>4, <1>5 DEF CallProvider, TypeOK, Targets

(***************************************************************************)
(* Every action keeps the state well typed.  While edges are persisted     *)
(* (persistEdges) todo holds edges only, which TypeOK alone does not say.  *)
(***************************************************************************)
LEMMA TypeStep == TypeOK /\ PersistQueue /\ [Next]_vars => TypeOK'
<1> SUFFICES ASSUME TypeOK, PersistQueue, [Next]_vars PROVE TypeOK'
  OBVIOUS
<1> USE DEF Finish, Fault, ReadFails
<1>0. ASSUME NEW o \in Op, Start(o), opsLeft' \in Nat, credit' \in Nat
      PROVE  TypeOK'
  BY <1>0, NoPlanType DEF Start, TypeOK, world, World
<1>1. CASE Begin
  <2>1. PICK o \in Ops : Start(o)
    BY <1>1 DEF Begin
  <2>2. o \in Op
    BY EngineAssumption
  <2>3. opsLeft' \in Nat /\ credit' \in Nat
    BY <1>1 DEF Begin, TypeOK
  <2> QED
    BY <1>0, <2>1, <2>2, <2>3
<1>2. CASE Resume
  BY <1>0, <1>2 DEF Resume, TypeOK, env
<1>3. CASE Plan
  <2>1. Changes(op) \in PlanType
    BY ChangesType DEF TypeOK
  <2> QED
    BY <1>3, <2>1 DEF Plan, TypeOK, world, report, World
<1>4. CASE Gate
  BY <1>4 DEF Gate, TypeOK, world, report, history
<1>5. CASE Confirm
  BY <1>5 DEF Confirm, TypeOK, world, report, env, history
<1>6. CASE Snapshot
  <2>1. unread' \in BOOLEAN
    BY <1>6, Zenon DEF Snapshot, TypeOK
  <2>2. /\ snap' \in [Edges -> EdgeState]
        /\ todo' \subseteq Targets
        /\ pc' \in {"done", "apply"}
        /\ outcome' \in {"failed", outcome}
        /\ credit' \in Nat
    BY <1>6, StepsType DEF Snapshot, TypeOK
  <2>3. UNCHANGED <<world, op, plan, applied, rbErr, warned, opsLeft, history>>
    BY <1>6 DEF Snapshot
  <2> QED
    BY <2>1, <2>2, <2>3 DEF TypeOK, world, history
<1>7. ASSUME NEW t \in Targets, NEW failed \in BOOLEAN, Do(t, failed) \/ Undo(t, failed)
      PROVE  /\ edge' \in [Edges -> EdgeState]
             /\ zone' \in [Providers -> Zone]
             /\ credit' \in Nat
             /\ tainted' \subseteq Targets
  <2>1. ASSUME t \in Edges
        PROVE  plan.ec[t] \in EdgeChange /\ invertEdge(plan.ec[t], snap[t]) \in EdgeChange
    BY <2>1, InvertEdgeType DEF TypeOK, PlanType
  <2>2. ASSUME t \in Providers
        PROVE  plan.dc[t] \in DnsChange /\ invertDNS(plan.dc[t]) \in DnsChange
    BY <2>2, InvertDnsType DEF TypeOK, PlanType
  <2> QED
    BY <1>7, <2>1, <2>2, CallEdgeType, CallProviderType DEF Do, Undo
<1>8. CASE ApplyStep
  <2>1. PICK t \in todo : Do(t, FALSE) /\ todo' = todo \ {t} /\ applied' = applied \cup {t}
    BY <1>8 DEF ApplyStep
  <2>2. t \in Targets
    BY DEF TypeOK
  <2> QED
    BY <1>7, <1>8, <2>1, <2>2 DEF ApplyStep, TypeOK, report
<1>9. CASE ApplyFails
  <2>1. PICK t \in todo : Do(t, TRUE)
    BY <1>9 DEF ApplyFails
  <2>2. t \in Targets
    BY DEF TypeOK
  <2> QED
    BY <1>7, <1>9, <2>1, <2>2 DEF ApplyFails, StartRollback, TypeOK, report
<1>10. CASE Verify
  <2>1. plan.part \subseteq Targets
    BY DEF TypeOK, PlanType, Targets
  <2>2. unread' \in BOOLEAN
    BY <1>10, Zenon DEF Verify, TypeOK
  <2>3. /\ todo' \subseteq Targets
        /\ pc' \in {"persist", "rollback", "done"}
        /\ outcome' \in {"failed", outcome}
        /\ credit' \in Nat
    BY <1>10, <2>1 DEF Verify, StartRollback, TypeOK
  <2>4. UNCHANGED <<world, op, plan, snap, applied, rbErr, warned, opsLeft, history>>
    BY <1>10 DEF Verify
  <2> QED
    BY <2>2, <2>3, <2>4 DEF TypeOK, world, history
<1>11. CASE RollbackStep
  <2>1. PICK t \in applied :
            /\ applied' = applied \ {t}
            /\ \/ rbErr' = rbErr \cup {t} /\ UNCHANGED <<world, credit, tainted>>
               \/ Undo(t, TRUE) /\ rbErr' = rbErr \cup {t}
               \/ Undo(t, FALSE) /\ UNCHANGED rbErr
    BY <1>11 DEF RollbackStep
  <2>2. t \in Targets
    BY DEF TypeOK
  <2>3. /\ edge' \in [Edges -> EdgeState]
        /\ zone' \in [Providers -> Zone]
        /\ credit' \in Nat
        /\ tainted' \subseteq Targets
    BY <1>7, <2>1, <2>2 DEF TypeOK, world
  <2>4. applied' \subseteq Targets /\ rbErr' \subseteq Targets
    BY <2>1, <2>2 DEF TypeOK
  <2> QED
    BY <1>11, <2>3, <2>4 DEF RollbackStep, TypeOK
<1>12. CASE PersistStep
  <2>1. ASSUME NEW e \in Edges, Persist(e)
        PROVE  /\ edge' \in [Edges -> EdgeState]
               /\ warned' \subseteq Edges
               /\ credit' \in Nat
               /\ tainted' \subseteq Targets
    <3>1. edge[e] \in EdgeState
      BY DEF TypeOK
    <3>2. mergeManagedRegion(edge[e]) \in EdgeState /\ Boot(mergeManagedRegion(edge[e])) \in EdgeState
      BY <3>1, MergeType, BootType
    <3> QED
      BY <2>1, <3>1, <3>2 DEF Persist, TypeOK, Targets
  <2>2. CASE todo = {} /\ Finish("applied") /\ UNCHANGED <<edge, todo, warned, credit, tainted>>
    BY <1>12, <2>2 DEF PersistStep, TypeOK
  <2>3. CASE /\ \E e \in todo : Persist(e) /\ todo' = todo \ {e}
             /\ UNCHANGED <<pc, outcome>>
    <3>1. PICK e \in todo : Persist(e) /\ todo' = todo \ {e}
      BY <2>3
    <3>2. e \in Edges
      BY <1>12, <3>1 DEF PersistStep, PersistQueue, TypeOK, PlanType
    <3> QED
      BY <1>12, <2>1, <2>3, <3>1, <3>2 DEF PersistStep, TypeOK
  <2> QED
    BY <1>12, <2>2, <2>3 DEF PersistStep
<1>13. CASE Crash
  BY <1>13 DEF Crash, TypeOK, world, txn, report
<1>14. CASE Wedge
  <2>1. \A e \in Edges : [edge EXCEPT ![e].wedged = TRUE] \in [Edges -> EdgeState]
    BY DEF TypeOK, EdgeState
  <2> QED
    BY <1>14, <2>1 DEF Wedge, TypeOK, txn, report, Targets
<1>15. ASSUME NEW e \in Edges, Reboot(e), credit' \in Nat
       PROVE  TypeOK'
  <2>1. Boot(edge[e]) \in EdgeState
    BY BootType DEF TypeOK
  <2> QED
    BY <1>15, <2>1 DEF Reboot, TypeOK, txn, report, Targets
<1>16. CASE Restart
  BY <1>15, <1>16 DEF Restart, TypeOK
<1>17. CASE Recover
  BY <1>15, <1>17 DEF Recover, TypeOK
<1>18. CASE DaemonReload
  <2>1. \A e \in Edges : Load(e, edge[e]) \in EdgeState
    BY LoadType DEF TypeOK
  <2> QED
    BY <1>18, <2>1 DEF DaemonReload, TypeOK, txn, report
<1>19. CASE OutOfBandEdge
  <2>1. \A e \in Edges : \A s \in EdgeEdits(edge[e]) : s \in EdgeState
    BY EdgeEditsType DEF TypeOK
  <2> QED
    BY <1>19, <2>1 DEF OutOfBandEdge, TypeOK, txn, report, Targets
<1>20. CASE OutOfBandZone
  <2>1. PICK p \in Providers, h \in Hosts :
            \E r \in ({NoRecord} \cup [value : Values, ours : {FALSE}]) \ {zone[p][h]} :
                /\ zone' = [zone EXCEPT ![p] = [@ EXCEPT ![h] = r]]
                /\ tainted' = tainted \cup {p}
    BY <1>20 DEF OutOfBandZone
  <2>2. ASSUME NEW r \in {NoRecord} \cup [value : Values, ours : {FALSE}]
        PROVE  r \in RecordOrNone
    BY DEF RecordOrNone
  <2>3. ASSUME NEW r \in RecordOrNone
        PROVE  [zone EXCEPT ![p] = [@ EXCEPT ![h] = r]] \in [Providers -> Zone]
    BY DEF TypeOK, Zone
  <2>4. PICK r \in ({NoRecord} \cup [value : Values, ours : {FALSE}]) \ {zone[p][h]} :
            /\ zone' = [zone EXCEPT ![p] = [@ EXCEPT ![h] = r]]
            /\ tainted' = tainted \cup {p}
    BY <2>1
  <2>5. r \in RecordOrNone
    BY <2>2
  <2>6. zone' \in [Providers -> Zone]
    BY <2>3, <2>4, <2>5
  <2>7. tainted' \subseteq Targets
    BY <2>4 DEF TypeOK, Targets
  <2> QED
    BY <1>20, <2>6, <2>7 DEF OutOfBandZone, TypeOK, txn, report
<1>21. CASE UNCHANGED vars
  BY <1>21 DEF vars, world, report, env, history, TypeOK
<1> QED
  BY <1>1, <1>2, <1>3, <1>4, <1>5, <1>6, <1>8, <1>9, <1>10, <1>11, <1>12, <1>13,
     <1>14, <1>16, <1>17, <1>18, <1>19, <1>20, <1>21
  DEF Next, Crenel, Environment

\* Only Verify fills the queue of edges to persist, with the participants.
LEMMA PersistQueueStep == TypeOK /\ PersistQueue /\ [Next]_vars => PersistQueue'
<1> SUFFICES ASSUME TypeOK, PersistQueue, [Next]_vars, pc' = "persist"
             PROVE  todo' \subseteq plan'.part
  BY DEF PersistQueue
<1> USE DEF Finish
<1>1. CASE Crenel
  BY <1>1 DEF Crenel, Plan, Gate, Confirm, Snapshot, ApplyStep, ApplyFails, Verify,
              StartRollback, RollbackStep, PersistStep, PersistQueue
<1>2. CASE Begin \/ Resume
  BY <1>2 DEF Begin, Resume, Start
<1>3. CASE Environment
  BY <1>3 DEF Environment, Crash, Wedge, Restart, Recover, Reboot, DaemonReload,
              OutOfBandEdge, OutOfBandZone, txn, PersistQueue
<1>4. CASE UNCHANGED vars
  BY <1>4 DEF vars, PersistQueue
<1> QED
  BY <1>1, <1>2, <1>3, <1>4 DEF Next

\* The initial states are well typed.
LEMMA InitType == Init => TypeOK /\ PersistQueue
<1> SUFFICES ASSUME Init PROVE TypeOK /\ PersistQueue
  OBVIOUS
<1>1. PICK w \in InitWorlds : edge = w.edge /\ zone = w.zone
  BY DEF Init
<1>2. edge \in [Edges -> EdgeState] /\ zone \in [Providers -> Zone]
  BY <1>1, EngineAssumption DEF World
<1>3. op \in Op /\ opsLeft \in Nat /\ credit \in Nat
  BY EngineAssumption DEF Init
<1>4. pre \in World
  BY <1>2 DEF Init, World
<1> QED
  BY <1>2, <1>3, <1>4, NoPlanType DEF Init, TypeOK, PersistQueue

(***************************************************************************)
(* The state of the transaction is well typed at every moment: in          *)
(* particular no driver call leaves an ownership marker without a record   *)
(* and no plan asks an edge for something that is not a route.             *)
(***************************************************************************)
THEOREM TypeCorrect == Spec => []TypeOK
  BY InitType, TypeStep, PersistQueueStep, PTL DEF Spec

-----------------------------------------------------------------------------
(***************************************************************************)
(* The order of the steps (the sort of buildSteps).                        *)
(***************************************************************************)
\* Ranks and depths are numbers.
LEMMA RankType ==
    ASSUME NEW t \in Targets
    PROVE  rank(t) \in Nat /\ depth(t) \in Nat
<1>1. N \in Nat
  BY TopologyAssumption, FS_CardinalityType DEF N
<1>2. IsFiniteSet(1..N)
  BY <1>1, FS_Interval
<1>3. \A e \in Edges : IsFiniteSet({k \in 1..N : \E b \in Edges : Hop[k][b] = e})
  BY <1>2, FS_Subset
<1>4. \A e \in Edges : chainDepth(e) \in Nat
  BY <1>3, FS_CardinalityType DEF chainDepth
<1> QED
  BY <1>4 DEF rank, depth, rankEdge, rankInternalDNS, rankPublicDNS

\* A leg behind another one is brought up before it and taken down after it.
LEMMA BehindOrder ==
    ASSUME NEW s \in Targets, NEW t \in Targets, Behind(s, t)
    PROVE  ~ Before("expose", t, s) /\ ~ Before("unexpose", s, t)
BY RankType DEF Behind, Before

-----------------------------------------------------------------------------
(***************************************************************************)
(* What one provider call changes.                                         *)
(***************************************************************************)
\* The routes an edge call leaves: Driver.Apply of a change.
LEMMA WriteEffect ==
    ASSUME NEW e \in Edges, NEW s \in EdgeState, NEW c \in EdgeChange
    PROVE  LET w == Write(e, s, c) IN
           /\ w.disk = s.disk /\ w.region = s.region /\ w.first = s.first
           /\ \A h \in Hosts :
                /\ w.mine[h] = IF c.add[h] # NoRoute THEN Render(e, c.add[h])
                               ELSE IF h \in c.remove THEN NoRoute
                               ELSE s.mine[h]
                /\ w.other[h] \in {NoRoute, s.other[h]}
                /\ h \notin c.remove => w.other[h] = s.other[h]
                /\ c.add[h] # NoRoute => w.mine[h] # NoRoute
<1>1. \A h \in Hosts : c.add[h] # NoRoute => Render(e, c.add[h]) \in Route
  BY DEF EdgeChange, RouteTable, Render, Route
<1>2. \A h \in Hosts : c.add[h] # NoRoute => Render(e, c.add[h]) # NoRoute
  BY <1>1, EdgeDriverAssumption
<1> QED
  BY <1>2 DEF Write, EdgeState

\* Hosts outside a change keep the route that answers for them.
LEMMA WriteKeeps ==
    ASSUME NEW e \in Edges, NEW s \in EdgeState, NEW c \in EdgeChange,
           NEW h \in Hosts, h \notin touchedHosts(c)
    PROVE  findRoute(Write(e, s, c), h) = findRoute(s, h)
<1>1. c.add[h] = NoRoute /\ h \notin c.remove
  BY DEF touchedHosts, AddedHosts
<1> QED
  BY <1>1, WriteEffect DEF findRoute, OrElse

\* An edge call touches one edge; unless a fault taints it, it fails without
\* effect or writes its change.
LEMMA CallEdgeEffect ==
    ASSUME TypeOK, NEW e \in Edges, NEW c \in EdgeChange, NEW failed \in BOOLEAN,
           CallEdge(e, c, failed)
    PROVE  /\ zone' = zone
           /\ tainted \subseteq tainted'
           /\ \A f \in Edges \ {e} : edge'[f] = edge[f]
           /\ e \notin tainted' =>
                IF failed THEN edge'[e] = edge[e]
                ELSE /\ edge'[e].mine = Write(e, edge[e], c).mine
                     /\ edge'[e].other = Write(e, edge[e], c).other
                     /\ edge'[e].disk = edge[e].disk
                     /\ edge'[e].region = edge[e].region
                     /\ edge'[e].first = edge[e].first
<1>1. edge[e] \in EdgeState
  BY DEF TypeOK
<1>2. CASE /\ edge' = [edge EXCEPT ![e] = Nominal(e, edge[e], c).s]
           /\ failed = Nominal(e, edge[e], c).err
           /\ UNCHANGED <<zone, credit, tainted>>
  <2>1. edge'[e] = Nominal(e, edge[e], c).s
    BY <1>2 DEF TypeOK
  <2>2. failed => edge'[e] = edge[e]
    BY <1>2, <2>1 DEF Nominal
  <2>3. ~ failed => edge'[e] \in {Write(e, edge[e], c), Load(e, Write(e, edge[e], c))}
    BY <1>2, <2>1 DEF Nominal
  <2>4. Write(e, edge[e], c) \in EdgeState
    BY <1>1, WriteType
  <2>5. LET w == Write(e, edge[e], c) IN
        /\ Load(e, w).mine = w.mine /\ Load(e, w).other = w.other
        /\ Load(e, w).disk = w.disk /\ Load(e, w).region = w.region
        /\ Load(e, w).first = w.first
    BY <2>4 DEF Load, EdgeState
  <2>6. LET w == Write(e, edge[e], c) IN
        /\ w.disk = edge[e].disk /\ w.region = edge[e].region /\ w.first = edge[e].first
    BY <1>1, WriteEffect
  <2>7. \A f \in Edges \ {e} : edge'[f] = edge[f]
    BY <1>2 DEF TypeOK
  <2> HIDE DEF Write, Load
  <2> QED
    BY <1>2, <2>2, <2>3, <2>5, <2>6, <2>7
<1>3. CASE /\ credit > 0
           /\ \E f \in Faulty(e, edge[e], c, FaultKinds) :
                edge' = [edge EXCEPT ![e] = f.s] /\ failed = f.err
           /\ credit' = credit - 1
           /\ tainted' = tainted \cup {e}
           /\ UNCHANGED zone
  BY <1>3 DEF TypeOK
<1> QED
  BY <1>2, <1>3 DEF CallEdge

\* A provider call touches one provider, and there one name.
LEMMA CallProviderEffect ==
    ASSUME TypeOK, NEW p \in Providers, NEW c \in DnsChange, NEW failed \in BOOLEAN,
           CallProvider(p, c, failed)
    PROVE  /\ edge' = edge
           /\ tainted \subseteq tainted'
           /\ \A q \in Providers \ {p} : zone'[q] = zone[q]
           /\ p \notin tainted' =>
                /\ zone'[p][op.host] = DnsNominal(p, zone[p][op.host], c).r
                /\ failed = DnsNominal(p, zone[p][op.host], c).err
<1>1. op.host \in Hosts
  BY DEF TypeOK, Op
<1> QED
  BY <1>1 DEF CallProvider, TypeOK, Zone

-----------------------------------------------------------------------------
(***************************************************************************)
(* Steps of the environment.                                               *)
(***************************************************************************)
\* Targets that stay clean keep their routes, boot config and records.
KeepsWorld ==
    /\ tainted \subseteq tainted'
    /\ \A e \in Edges \ tainted' :
        /\ edge'[e].mine = edge[e].mine /\ edge'[e].other = edge[e].other
        /\ edge'[e].first = edge[e].first
        /\ edge'[e].disk = edge[e].disk /\ edge'[e].region = edge[e].region
    /\ \A p \in Providers \ tainted' : zone'[p] = zone[p]

\* A step of the environment leaves the invocation alone, or kills it, and
\* taints every target whose routes, boot config or records it changes.
Quiet ==
    /\ UNCHANGED txn
    /\ \/ UNCHANGED <<pc, outcome>>
       \/ pc' = "crashed" /\ outcome' = "crashed"
    /\ KeepsWorld

\* Every step of the environment, and every stuttering step, is quiet.
LEMMA EnvironmentQuiet ==
    ASSUME TypeOK, Environment \/ UNCHANGED vars
    PROVE  Quiet
<1>1. CASE Crash
  BY <1>1 DEF Crash, Quiet, KeepsWorld, world
<1>2. CASE Wedge
  <2>1. PICK e \in Edges : /\ edge' = [edge EXCEPT ![e].wedged = TRUE]
                           /\ tainted' = tainted \cup {e}
    BY <1>2 DEF Wedge
  <2>2. \A f \in Edges \ {e} : edge'[f] = edge[f]
    BY <2>1 DEF TypeOK
  <2> QED
    BY <1>2, <2>1, <2>2 DEF Wedge, Quiet, KeepsWorld
<1>3. CASE Restart \/ Recover
  <2>1. PICK e \in Edges : Reboot(e)
    BY <1>3 DEF Restart, Recover
  <2>2. \A f \in Edges \ {e} : edge'[f] = edge[f]
    BY <2>1 DEF Reboot, TypeOK
  <2> QED
    BY <2>1, <2>2 DEF Reboot, Quiet, KeepsWorld
<1>4. CASE DaemonReload
  <2>1. PICK e \in Edges : edge' = [edge EXCEPT ![e] = Load(e, @)]
    BY <1>4 DEF DaemonReload
  <2>2. \A f \in Edges \ {e} : edge'[f] = edge[f]
    BY <2>1 DEF TypeOK
  <2>3. edge'[e] = Load(e, edge[e])
    BY <2>1 DEF TypeOK
  <2>4. edge[e] \in EdgeState
    BY DEF TypeOK
  <2>5. /\ edge'[e].mine = edge[e].mine /\ edge'[e].other = edge[e].other
        /\ edge'[e].disk = edge[e].disk /\ edge'[e].region = edge[e].region
        /\ edge'[e].first = edge[e].first
    BY <2>3, <2>4 DEF Load, EdgeState
  <2> QED
    BY <1>4, <2>2, <2>5 DEF DaemonReload, Quiet, KeepsWorld
<1>5. CASE OutOfBandEdge
  <2>1. PICK e \in Edges : \E s \in EdgeEdits(edge[e]) \ {edge[e]} :
            edge' = [edge EXCEPT ![e] = s] /\ tainted' = tainted \cup {e}
    BY <1>5 DEF OutOfBandEdge
  <2>2. \A f \in Edges \ {e} : edge'[f] = edge[f]
    BY <2>1 DEF TypeOK
  <2> QED
    BY <1>5, <2>1, <2>2 DEF OutOfBandEdge, Quiet, KeepsWorld
<1>6. CASE OutOfBandZone
  <2>1. PICK p \in Providers, h \in Hosts :
            \E r \in ({NoRecord} \cup [value : Values, ours : {FALSE}]) \ {zone[p][h]} :
                zone' = [zone EXCEPT ![p] = [@ EXCEPT ![h] = r]] /\ tainted' = tainted \cup {p}
    BY <1>6 DEF OutOfBandZone
  <2>2. \A q \in Providers \ {p} : zone'[q] = zone[q]
    BY <2>1 DEF TypeOK
  <2> QED
    BY <1>6, <2>1, <2>2 DEF OutOfBandZone, Quiet, KeepsWorld
<1>7. CASE UNCHANGED vars
  BY <1>7 DEF vars, world, history, env, Quiet, KeepsWorld, txn
<1> QED
  BY <1>1, <1>2, <1>3, <1>4, <1>5, <1>6, <1>7 DEF Environment

-----------------------------------------------------------------------------
(***************************************************************************)
(* StepOrder: the applied steps are a prefix of the ordered ones.          *)
(***************************************************************************)
\* applied grows by the first of the remaining steps and shrinks by the last
\* of the applied ones (the apply loop and rollback).
LEMMA StepOrderStep == TypeOK /\ PlanShape /\ StepOrder /\ [Next]_vars => StepOrder'
<1> SUFFICES ASSUME TypeOK, PlanShape, StepOrder, [Next]_vars PROVE StepOrder'
  OBVIOUS
<1> USE DEF Finish, Running
<1>1. CASE Begin \/ Resume
  BY <1>1 DEF Begin, Resume, Start, StepOrder, Preparing
<1>2. CASE Plan
  <2>1. applied = {} /\ applied' = {}
    BY <1>2 DEF Plan, StepOrder, Preparing
  <2> QED
    BY <1>2, <2>1 DEF Plan, StepOrder, Preparing
<1>3. CASE Gate \/ Confirm
  <2>1. /\ applied = {} /\ applied' = {} /\ pc' \notin {"apply", "persist"}
        /\ pc' # "done" => outcome' = "none"
    BY <1>3 DEF Gate, Confirm, StepOrder, Preparing
  <2> QED
    BY <2>1 DEF StepOrder, Preparing
<1>4. CASE Snapshot
  <2>1. /\ applied = {} /\ applied' = {} /\ plan' = plan /\ pc' # "persist"
        /\ pc' # "done" => outcome' = "none"
    BY <1>4 DEF Snapshot, StepOrder, Preparing
  <2>2. pc' = "apply" => todo' = Steps(plan')
    BY <1>4, <2>1 DEF Snapshot
  <2> QED
    BY <2>1, <2>2 DEF StepOrder, Preparing
<1>5. CASE ApplyStep
  <2>1. PICK t \in todo : /\ First(op.verb, t, todo)
                          /\ todo' = todo \ {t}
                          /\ applied' = applied \cup {t}
    BY <1>5 DEF ApplyStep
  <2>2. /\ pc = "apply" /\ plan' = plan /\ op' = op /\ todo = Steps(plan) \ applied
        /\ UNCHANGED <<pc, outcome>>
    BY <1>5 DEF ApplyStep, StepOrder
  <2>3. \A x \in applied', y \in Steps(plan) \ applied' : Before(op.verb, x, y)
    BY <2>1, <2>2 DEF StepOrder, First
  <2> QED
    BY <2>1, <2>2, <2>3 DEF StepOrder, Preparing
<1>6. CASE ApplyFails
  <2>1. /\ pc' \in {"rollback", "done"} /\ UNCHANGED <<op, plan, applied>>
        /\ pc' # "done" => outcome' = "none"
    BY <1>6 DEF ApplyFails, StartRollback, StepOrder
  <2> QED
    BY <2>1 DEF StepOrder, Preparing
<1>7. CASE Verify
  <2>1. /\ pc' \in {"persist", "rollback", "done"} /\ UNCHANGED <<op, plan, applied>>
        /\ pc' # "done" => outcome' = "none"
    BY <1>7 DEF Verify, StartRollback, StepOrder
  <2>2. applied = Steps(plan)
    BY <1>7 DEF Verify, StepOrder
  <2> QED
    BY <2>1, <2>2 DEF StepOrder, Preparing
<1>8. CASE RollbackStep
  <2>1. PICK t \in applied : Last(op.verb, t, applied) /\ applied' = applied \ {t}
    BY <1>8 DEF RollbackStep
  <2>2. /\ pc' \in {"rollback", "done"} /\ UNCHANGED <<op, plan>>
        /\ pc' # "done" => outcome' = "none"
    BY <1>8 DEF RollbackStep, StepOrder
  <2>3. \A x \in applied', y \in Steps(plan) \ applied' : Before(op.verb, x, y)
    BY <2>1 DEF StepOrder, Last
  <2> QED
    BY <2>1, <2>2, <2>3 DEF StepOrder, Preparing
<1>9. CASE PersistStep
  <2>1. /\ pc' \in {"persist", "done"} /\ UNCHANGED <<op, plan, applied>> /\ pc = "persist"
        /\ pc' # "done" => outcome' = "none"
    BY <1>9 DEF PersistStep, StepOrder
  <2> QED
    BY <2>1 DEF StepOrder, Preparing
<1>10. CASE Environment \/ UNCHANGED vars
  <2>1. /\ UNCHANGED <<op, plan, applied, todo>>
        /\ UNCHANGED <<pc, outcome>> \/ pc' = "crashed"
    BY <1>10, EnvironmentQuiet DEF Quiet, txn
  <2> QED
    BY <2>1 DEF StepOrder, Preparing
<1> QED
  BY <1>1, <1>2, <1>3, <1>4, <1>5, <1>6, <1>7, <1>8, <1>9, <1>10 DEF Next, Crenel

-----------------------------------------------------------------------------
(***************************************************************************)
(* OthersUntouched: the gate reads the routes the plan was computed from,  *)
(* and calls change the touched hosts only.                                *)
(***************************************************************************)
\* A plan has changes for participants only.
LEMMA ChangesOfParticipants ==
    ASSUME TypeOK, NEW o \in Op, NEW e \in Edges \ Changes(o).part
    PROVE  EmptyEdgeChange(Changes(o).ec[e])
<1>1. Changes(o).part = Participants(o)
  BY DEF Changes
<1>2. Changes(o).ec[e] = NoEdgeChange
  BY <1>1 DEF Changes
<1> QED
  BY <1>2 DEF EmptyEdgeChange, touchedHosts, AddedHosts, NoEdgeChange, NoRoutes

\* The empty plan changes nothing.
LEMMA NoPlanEmpty == \A e \in Edges : EmptyEdgeChange(NoPlan.ec[e])
BY DEF NoPlan, EmptyEdgeChange, touchedHosts, AddedHosts, NoEdgeChange, NoRoutes

\* The routes that answer are the same before and after a quiet step.
LEMMA QuietRoutes ==
    ASSUME KeepsWorld, NEW e \in Edges \ tainted', NEW h \in Hosts
    PROVE  /\ findRoute(edge'[e], h) = findRoute(edge[e], h)
           /\ ownershipByHost(edge'[e], h) = ownershipByHost(edge[e], h)
BY DEF KeepsWorld, findRoute, ownershipByHost

\* A compensating change touches nothing its change did not touch.
LEMMA InvertTouches ==
    ASSUME NEW c \in EdgeChange, NEW s \in EdgeState
    PROVE  touchedHosts(invertEdge(c, s)) \subseteq touchedHosts(c)
BY DEF touchedHosts, invertEdge, AddedHosts, EdgeChange

\* A step of the transaction changes no route outside the hosts of the plan,
\* and nothing at all where the plan is empty.
LEMMA CallTouches ==
    ASSUME TypeOK, NEW t \in Steps(plan), NEW failed \in BOOLEAN,
           Do(t, failed) \/ Undo(t, failed)
    PROVE  /\ tainted \subseteq tainted'
           /\ \A e \in Edges \ tainted' : \A h \in Hosts :
                h \notin touchedHosts(plan.ec[e]) =>
                    findRoute(edge'[e], h) = findRoute(edge[e], h)
<1>1. CASE t \in Providers /\ t \notin Edges
  <2>1. plan.dc[t] \in DnsChange /\ invertDNS(plan.dc[t]) \in DnsChange
    BY <1>1, InvertDnsType DEF TypeOK, PlanType
  <2> QED
    BY <1>1, <2>1, CallProviderEffect DEF Do, Undo
<1>2. ASSUME NEW c \in EdgeChange, t \in Edges, CallEdge(t, c, failed),
             touchedHosts(c) \subseteq touchedHosts(plan.ec[t])
      PROVE  /\ tainted \subseteq tainted'
             /\ \A e \in Edges \ tainted' : \A h \in Hosts :
                  h \notin touchedHosts(plan.ec[e]) =>
                      findRoute(edge'[e], h) = findRoute(edge[e], h)
  <2>1. edge[t] \in EdgeState
    BY <1>2 DEF TypeOK
  <2>2. ASSUME NEW h \in Hosts, h \notin touchedHosts(plan.ec[t]), t \notin tainted'
        PROVE  findRoute(edge'[t], h) = findRoute(edge[t], h)
    <3>1. findRoute(Write(t, edge[t], c), h) = findRoute(edge[t], h)
      BY <1>2, <2>1, <2>2, WriteKeeps
    <3>2. Write(t, edge[t], c).first = edge[t].first
      BY <1>2, <2>1, WriteEffect
    <3> QED
      BY <1>2, <2>2, <3>1, <3>2, CallEdgeEffect DEF findRoute, OrElse
  <2> QED
    BY <1>2, <2>2, CallEdgeEffect
<1>3. CASE t \in Edges
  <2>1. t \notin Providers
    BY <1>3, TopologyAssumption
  <2>2. plan.ec[t] \in EdgeChange /\ snap[t] \in EdgeState
    BY <1>3 DEF TypeOK, PlanType
  <2>3. invertEdge(plan.ec[t], snap[t]) \in EdgeChange
    BY <2>2, InvertEdgeType
  <2>4. touchedHosts(invertEdge(plan.ec[t], snap[t])) \subseteq touchedHosts(plan.ec[t])
    BY <2>2, InvertTouches
  <2> QED
    BY <1>2, <1>3, <2>1, <2>2, <2>3, <2>4 DEF Do, Undo
<1> QED
  BY <1>1, <1>3 DEF Steps

\* Past the gate the touched hosts are crenel's to touch.
LEMMA GatedStep == TypeOK /\ StepOrder /\ PlanShape /\ Gated /\ [Next]_vars => Gated'
<1> SUFFICES ASSUME TypeOK, StepOrder, PlanShape, Gated, [Next]_vars PROVE Gated'
  OBVIOUS
<1> USE DEF Finish
<1>1. CASE Begin \/ Resume
  <2>1. pc' = "plan" /\ plan' = NoPlan /\ edge' = edge /\ pre' = [edge |-> edge, zone |-> zone]
    BY <1>1 DEF Begin, Resume, Start, world
  <2> QED
    BY <2>1, NoPlanEmpty DEF Gated
<1>2. CASE Plan
  <2>1. pre' = [edge |-> edge, zone |-> zone] /\ edge' = edge /\ pc' \in {"gate", "done"}
    BY <1>2 DEF Plan, world
  <2>2. plan' \in {plan, Changes(op)}
    BY <1>2 DEF Plan
  <2>3. op \in Op
    BY DEF TypeOK
  <2>4. \A e \in Edges \ plan'.part : EmptyEdgeChange(plan'.ec[e])
    BY <2>2, <2>3, ChangesOfParticipants DEF Gated
  <2> QED
    BY <2>1, <2>4 DEF Gated
<1>3. CASE Gate
  <2>1. UNCHANGED <<edge, plan, pre, tainted>> /\ pc = "gate" /\ pc' \in {"done", "confirm"}
    BY <1>3 DEF Gate, world, history
  <2>2. ASSUME pc' = "confirm", NEW e \in Edges \ tainted, NEW h \in touchedHosts(plan.ec[e])
        PROVE  e \notin Generated /\ ~ OwnerRefuses(ownershipByHost(pre.edge[e], h))
    <3>1. ~ gateOwnership(op, plan)
      BY <1>3, <2>2 DEF Gate
    <3>2. e \in plan.part /\ ~ EmptyEdgeChange(plan.ec[e])
      BY <2>2 DEF Gated, EmptyEdgeChange
    <3>3. e \notin Generated /\ ~ OwnerRefuses(ownershipByHost(edge[e], h))
      BY <2>2, <3>1, <3>2 DEF gateOwnership
    <3>4. plan.ec[e] \in EdgeChange
      BY DEF TypeOK, PlanType
    <3>5. h \in Hosts
      BY <3>4 DEF touchedHosts, AddedHosts, EdgeChange
    <3>6. ownershipByHost(edge[e], h) = ownershipByHost(pre.edge[e], h)
      BY <2>1, <3>5 DEF Gated
    <3> QED
      BY <3>3, <3>6
  <2>3. pc' # "gate" /\ pc' # "plan"
    BY <2>1
  <2> QED
    BY <2>1, <2>2, <2>3 DEF Gated
<1>4. CASE Confirm \/ Snapshot \/ Verify
  <2>1. /\ UNCHANGED <<edge, plan, pre, tainted>> /\ pc \in {"confirm", "snapshot", "apply"}
        /\ pc' \notin {"plan", "gate"}
    BY <1>4 DEF Confirm, Snapshot, Verify, StartRollback, world, history
  <2> QED
    BY <2>1 DEF Gated
<1>5. CASE ApplyStep \/ ApplyFails \/ RollbackStep
  <2>1. /\ UNCHANGED <<plan, pre>> /\ pc \in {"apply", "rollback"}
        /\ pc' \in {"apply", "rollback", "done"}
    BY <1>5 DEF ApplyStep, ApplyFails, StartRollback, RollbackStep
  <2>2. tainted \subseteq tainted'
    <3>1. todo \subseteq Steps(plan) \/ pc # "apply"
      BY DEF StepOrder
    <3>2. applied \subseteq Steps(plan)
      BY DEF StepOrder
    <3> QED
      BY <1>5, <3>1, <3>2, CallTouches DEF ApplyStep, ApplyFails, RollbackStep
  <2> QED
    BY <2>1, <2>2 DEF Gated
<1>6. CASE PersistStep
  <2>1. UNCHANGED <<plan, pre>> /\ pc' \in {"persist", "done"}
    BY <1>6 DEF PersistStep
  <2> QED
    BY <2>1 DEF Gated
<1>7. CASE Environment \/ UNCHANGED vars
  <2>1. Quiet
    BY <1>7, EnvironmentQuiet
  <2>2. /\ UNCHANGED <<plan, pre>> /\ pc' \in {pc, "crashed"} /\ tainted \subseteq tainted'
        /\ \A e \in Edges \ tainted' : \A h \in Hosts :
             ownershipByHost(edge'[e], h) = ownershipByHost(edge[e], h)
    BY <2>1, QuietRoutes DEF Quiet, txn, KeepsWorld
  <2> QED
    BY <2>2 DEF Gated
<1> QED
  BY <1>1, <1>2, <1>3, <1>4, <1>5, <1>6, <1>7 DEF Next, Crenel

\* No step changes what crenel must not touch.
LEMMA OthersStep ==
    TypeOK /\ PersistQueue /\ StepOrder /\ Gated /\ OthersUntouched /\ [Next]_vars
        => OthersUntouched'
<1> SUFFICES ASSUME TypeOK, PersistQueue, StepOrder, Gated, OthersUntouched, [Next]_vars
             PROVE  OthersUntouched'
  OBVIOUS
<1> USE DEF Finish
<1>1. CASE Begin \/ Resume \/ Plan
  <2>1. edge' = edge /\ pre' = [edge |-> edge, zone |-> zone]
    BY <1>1 DEF Begin, Resume, Start, Plan, world
  <2> QED
    BY <2>1 DEF OthersUntouched
<1>2. CASE Gate \/ Confirm \/ Snapshot \/ Verify
  <2>1. /\ UNCHANGED <<edge, pre, tainted>> /\ pc # "persist" /\ outcome = "none"
    BY <1>2 DEF Gate, Confirm, Snapshot, Verify, StartRollback, world, history,
                StepOrder, Running
  <2> QED
    BY <2>1 DEF OthersUntouched, Reloaded
<1>3. CASE ApplyStep \/ ApplyFails \/ RollbackStep
  <2>1. UNCHANGED pre /\ pc \in {"apply", "rollback"} /\ outcome = "none"
    BY <1>3 DEF ApplyStep, ApplyFails, RollbackStep, StepOrder, Running
  <2>2. /\ tainted \subseteq tainted'
        /\ \A e \in Edges \ tainted' : \A h \in Hosts :
             h \notin touchedHosts(plan.ec[e]) =>
                 findRoute(edge'[e], h) = findRoute(edge[e], h)
    <3>1. todo \subseteq Steps(plan) \/ pc # "apply"
      BY DEF StepOrder
    <3>2. applied \subseteq Steps(plan)
      BY DEF StepOrder
    <3>3. (\E t \in Steps(plan), failed \in BOOLEAN : Do(t, failed) \/ Undo(t, failed))
          \/ UNCHANGED <<edge, tainted>>
      BY <1>3, <3>1, <3>2 DEF ApplyStep, ApplyFails, RollbackStep, world
    <3> QED
      BY <3>3, CallTouches
  <2>3. ASSUME NEW e \in Edges \ tainted', NEW h \in Hosts, ~ Reloaded(e)',
               e \in Generated \/ OwnerRefuses(ownershipByHost(pre.edge[e], h))
        PROVE  findRoute(edge'[e], h) = findRoute(pre.edge[e], h)
    <3>1. h \notin touchedHosts(plan.ec[e])
      BY <2>1, <2>2, <2>3 DEF Gated
    <3>2. findRoute(edge'[e], h) = findRoute(edge[e], h)
      BY <2>2, <3>1
    <3>3. ~ Reloaded(e)
      BY <2>1, <2>3 DEF Reloaded
    <3> QED
      BY <2>2, <2>3, <3>2, <3>3 DEF OthersUntouched
  <2> QED
    BY <2>1, <2>3 DEF OthersUntouched
<1>4. CASE PersistStep
  <2>1. UNCHANGED pre /\ pc = "persist" /\ (pc' = "persist" \/ outcome' = "applied")
    BY <1>4 DEF PersistStep
  <2>2. \A e \in Edges : Reloaded(e) => Reloaded(e)'
    BY <2>1 DEF Reloaded
  <2>3. ASSUME NEW f \in todo, Persist(f)
        PROVE  /\ tainted \subseteq tainted'
               /\ \A e \in Edges : EdgeKind[e] # "caddy_durable" => edge'[e] = edge[e]
    <3>1. f \in Edges
      BY <2>1 DEF PersistQueue, TypeOK, PlanType
    <3> QED
      BY <2>3, <3>1 DEF Persist, TypeOK
  <2>4. /\ tainted \subseteq tainted'
        /\ \A e \in Edges : EdgeKind[e] # "caddy_durable" => edge'[e] = edge[e]
    BY <1>4, <2>3 DEF PersistStep
  <2>5. \A e \in Edges : EdgeKind[e] = "caddy_durable" => Reloaded(e)'
    BY <2>1 DEF Reloaded
  <2> QED
    BY <2>1, <2>2, <2>4, <2>5 DEF OthersUntouched
<1>5. CASE Environment \/ UNCHANGED vars
  <2>1. Quiet
    BY <1>5, EnvironmentQuiet
  <2>2. /\ UNCHANGED pre /\ tainted \subseteq tainted'
        /\ \A e \in Edges \ tainted' : \A h \in Hosts :
             findRoute(edge'[e], h) = findRoute(edge[e], h)
    BY <2>1, QuietRoutes DEF Quiet, txn, KeepsWorld
  <2>3. \A e \in Edges : Reloaded(e) => Reloaded(e)'
    BY <2>1 DEF Quiet, Reloaded
  <2> QED
    BY <2>2, <2>3 DEF OthersUntouched
<1> QED
  BY <1>1, <1>2, <1>3, <1>4, <1>5 DEF Next, Crenel

-----------------------------------------------------------------------------
(***************************************************************************)
(* PlanShape: what Plan computes for an expose and an unexpose.            *)
(***************************************************************************)
\* The changes of an expose only add, those of an unexpose only remove, and
\* both name the operation's host alone.
LEMMA ChangesShape ==
    ASSUME TypeOK, NEW e \in Edges
    PROVE  LET c == Changes(op).ec[e] IN
           /\ op.verb = "expose" =>
                /\ c.remove = {} /\ AddedHosts(c) \subseteq {op.host}
                /\ touchedHosts(c) # {} => ~ HasHost(edge[e], op.host)
           /\ op.verb = "unexpose" =>
                /\ c.remove \subseteq {op.host} /\ AddedHosts(c) = {}
                /\ touchedHosts(c) # {} => HasHost(edge[e], op.host)
<1>1. op.host \in Hosts
  BY DEF TypeOK, Op
<1>2. op.verb # "rename" => Changes(op).ec[e] \in {NoEdgeChange, EdgePlan(op, e, edge[e])}
  BY DEF Changes
<1>3. NoEdgeChange.remove = {} /\ AddedHosts(NoEdgeChange) = {}
  BY DEF NoEdgeChange, AddedHosts, NoRoutes
<1>4. \A r : Add(op.host, r).remove = {} /\ AddedHosts(Add(op.host, r)) \subseteq {op.host}
  BY <1>1 DEF Add, AddedHosts, NoRoutes
<1>5. Remove(op.host).remove = {op.host} /\ AddedHosts(Remove(op.host)) = {}
  BY DEF Remove, AddedHosts, NoRoutes
<1>6. touchedHosts(NoEdgeChange) = {}
  BY <1>3 DEF touchedHosts
<1>7. CASE op.verb = "expose"
  <2>1. CASE HasHost(edge[e], op.host)
    BY <1>2, <1>3, <1>6, <1>7, <2>1 DEF EdgePlan
  <2>2. CASE ~ HasHost(edge[e], op.host)
    BY <1>2, <1>3, <1>4, <1>7, <2>2 DEF EdgePlan
  <2> QED
    BY <2>1, <2>2
<1>8. CASE op.verb = "unexpose"
  BY <1>2, <1>3, <1>5, <1>6, <1>8 DEF EdgePlan
<1> QED
  BY <1>7, <1>8

\* The same for the records.
LEMMA ChangesRecords ==
    ASSUME TypeOK, NEW p \in Providers
    PROVE  LET c == Changes(op).dc[p]
               r == zone[p][op.host]
           IN  /\ op.verb = "expose" => c.remove = NoValue
               /\ op.verb = "unexpose" =>
                    /\ c.add = NoValue
                    /\ c.remove # NoValue =>
                        /\ DnsKind[p] = "split" => r.value = c.remove
                        /\ DnsKind[p] = "cloudflare" => r.ours
                        /\ r.value # NoValue
<1>1. op.verb # "rename" => Changes(op).dc[p] \in {NoDnsChange, Diff(op, p, zone[p][op.host])}
  BY DEF Changes
<1> QED
  BY <1>1 DEF NoDnsChange, Diff, LiveValue

\* The empty plan has every shape.
LEMMA NoPlanShape ==
    /\ Steps(NoPlan) = {}
    /\ \A e \in Edges : NoPlan.ec[e].remove = {} /\ AddedHosts(NoPlan.ec[e]) = {}
    /\ \A p \in Providers : NoPlan.dc[p].add = NoValue /\ NoPlan.dc[p].remove = NoValue
BY DEF NoPlan, Steps, EmptyEdgeChange, touchedHosts, AddedHosts, NoEdgeChange, NoRoutes,
       NoDnsChange

\* plan changes only where it is reset and where it is computed.
LEMMA PlanShapeStep == TypeOK /\ PlanShape /\ [Next]_vars => PlanShape'
<1> SUFFICES ASSUME TypeOK, PlanShape, [Next]_vars PROVE PlanShape'
  OBVIOUS
<1> USE DEF Finish
<1>1. CASE plan' = NoPlan
  BY <1>1, NoPlanShape DEF PlanShape
<1>2. CASE Begin \/ Resume
  BY <1>1, <1>2 DEF Begin, Resume, Start
<1>3. CASE Plan
  <2>1. CASE plan' = plan
    BY <1>1, <1>3, <2>1 DEF Plan, PlanShape
  <2>2. CASE plan' = Changes(op) /\ pc' = "gate"
    <3>1. op' = op /\ pre' = [edge |-> edge, zone |-> zone]
      BY <1>3 DEF Plan
    <3> QED
      BY <2>2, <3>1, ChangesShape, ChangesRecords DEF PlanShape
  <2> QED
    BY <1>3, <2>1, <2>2 DEF Plan
<1>4. CASE Gate \/ Confirm \/ Snapshot \/ Verify \/ ApplyStep \/ ApplyFails
           \/ RollbackStep \/ PersistStep
  <2>1. UNCHANGED <<op, plan, pre>> /\ pc' # "plan"
    BY <1>4 DEF Gate, Confirm, Snapshot, Verify, ApplyStep, ApplyFails, StartRollback,
                RollbackStep, PersistStep, history
  <2> QED
    BY <2>1 DEF PlanShape
<1>5. CASE Environment \/ UNCHANGED vars
  <2>1. UNCHANGED <<op, plan, pre>> /\ pc' \in {pc, "crashed"}
    BY <1>5, EnvironmentQuiet DEF Quiet, txn
  <2> QED
    BY <2>1 DEF PlanShape
<1> QED
  BY <1>2, <1>3, <1>4, <1>5 DEF Next, Crenel

-----------------------------------------------------------------------------
(***************************************************************************)
(* ExposeLegs and UnexposeLegs.                                            *)
(***************************************************************************)
\* A step of the transaction touches one target.
LEMMA CallOthers ==
    ASSUME TypeOK, NEW t \in Steps(plan), NEW failed \in BOOLEAN,
           Do(t, failed) \/ Undo(t, failed)
    PROVE  /\ tainted \subseteq tainted'
           /\ \A f \in Edges \ {t} : edge'[f] = edge[f]
           /\ \A q \in Providers \ {t} : zone'[q] = zone[q]
<1>1. t \in Providers => plan.dc[t] \in DnsChange /\ invertDNS(plan.dc[t]) \in DnsChange
  BY InvertDnsType DEF TypeOK, PlanType
<1>2. t \in Edges => plan.ec[t] \in EdgeChange /\ invertEdge(plan.ec[t], snap[t]) \in EdgeChange
  BY InvertEdgeType DEF TypeOK, PlanType
<1>3. CASE t \in Providers /\ t \notin Edges
  BY <1>1, <1>3, CallProviderEffect DEF Do, Undo
<1>4. CASE t \in Edges /\ t \notin Providers
  BY <1>2, <1>4, CallEdgeEffect DEF Do, Undo
<1> QED
  BY <1>3, <1>4, TopologyAssumption DEF Steps

\* An edge with a step has a host to add or to remove, a provider a value.
LEMMA StepsShape ==
    ASSUME TypeOK, PlanShape, NEW t \in Steps(plan)
    PROVE  /\ op.verb = "expose" =>
                /\ t \in Edges => plan.ec[t].add[op.host] # NoRoute
                /\ t \in Providers => plan.dc[t].add # NoValue
           /\ op.verb = "unexpose" =>
                /\ t \in Edges => plan.ec[t].remove = {op.host}
                /\ t \in Providers => plan.dc[t].remove # NoValue
<1>1. CASE t \in Edges /\ t \notin Providers
  BY <1>1 DEF PlanShape, Steps, EmptyEdgeChange, touchedHosts, AddedHosts
<1>2. CASE t \in Providers /\ t \notin Edges
  <2>1. plan.dc[t] \in DnsChange /\ plan.dc[t] # NoDnsChange
    BY <1>2 DEF Steps, TypeOK, PlanType
  <2> QED
    BY <1>2, <2>1 DEF PlanShape, DnsChange, NoDnsChange
<1> QED
  BY <1>1, <1>2, TopologyAssumption DEF Steps

\* The legs of an expose whose target a step leaves alone stay where they are.
LEMMA ExposeFrame ==
    ASSUME UNCHANGED <<op, plan, pre>>, tainted \subseteq tainted', rbErr \subseteq rbErr',
           Undoable' => Undoable, ExposeLegs, op.verb = "expose"
    PROVE  /\ \A e \in (Edges \cap Steps(plan)) \ Suspect' :
                /\ e \in applied' <=> e \in applied
                /\ edge'[e].mine = edge[e].mine /\ edge'[e].other = edge[e].other
                /\ edge'[e].region = edge[e].region
                => ExposedEdge(e)'
           /\ \A p \in (Providers \cap Steps(plan)) \ Suspect' :
                /\ p \in applied' <=> p \in applied
                /\ zone'[p][op.host] = zone[p][op.host]
                => ExposedRecord(p)'
<1>1. Suspect \subseteq Suspect'
  BY DEF Suspect
<1>2. ASSUME NEW e \in (Edges \cap Steps(plan)) \ Suspect',
             e \in applied' <=> e \in applied,
             edge'[e].mine = edge[e].mine, edge'[e].other = edge[e].other,
             edge'[e].region = edge[e].region
      PROVE  ExposedEdge(e)'
  <2>1. ExposedEdge(e)
    BY <1>1, <1>2 DEF ExposeLegs
  <2> QED
    BY <1>2, <2>1 DEF ExposedEdge, HasHost, findRoute, OrElse
<1>3. ASSUME NEW p \in (Providers \cap Steps(plan)) \ Suspect',
             p \in applied' <=> p \in applied, zone'[p][op.host] = zone[p][op.host]
      PROVE  ExposedRecord(p)'
  <2>1. ExposedRecord(p)
    BY <1>1, <1>3 DEF ExposeLegs
  <2> QED
    BY <1>3, <2>1 DEF ExposedRecord
<1> QED
  BY <1>2, <1>3

\* The forward call of an expose brings its leg up; one that fails without a
\* fault changes nothing.
LEMMA ExposeDo ==
    ASSUME TypeOK, PlanShape, ExposeLegs, op.verb = "expose", pc = "apply",
           NEW t \in Steps(plan) \ applied, NEW failed \in BOOLEAN, Do(t, failed),
           t \notin Suspect'
    PROVE  /\ t \in Edges => LET s == edge[t] IN
                IF failed
                THEN edge'[t] = s
                ELSE edge'[t].mine[op.host] # NoRoute /\ edge'[t].other[op.host] = s.other[op.host]
           /\ t \in Providers => LET r == zone'[t][op.host] IN
                IF failed
                THEN r = zone[t][op.host]
                ELSE r.value = plan.dc[t].add /\ r.ours
<1>1. op.host \in Hosts
  BY DEF TypeOK, Op
<1>2. t \notin tainted'
  BY DEF Suspect
<1>3. CASE t \in Edges /\ t \notin Providers
  <2>1. CallEdge(t, plan.ec[t], failed) /\ plan.ec[t] \in EdgeChange /\ edge[t] \in EdgeState
    BY <1>3 DEF Do, TypeOK, PlanType
  <2>2. plan.ec[t].add[op.host] # NoRoute /\ plan.ec[t].remove = {}
    BY <1>3, StepsShape DEF PlanShape
  <2>3. /\ Write(t, edge[t], plan.ec[t]).mine[op.host] # NoRoute
        /\ Write(t, edge[t], plan.ec[t]).other[op.host] = edge[t].other[op.host]
    BY <1>1, <1>3, <2>1, <2>2, WriteEffect
  <2> QED
    BY <1>2, <1>3, <2>1, <2>3, CallEdgeEffect
<1>4. CASE t \in Providers /\ t \notin Edges
  <2>1. CallProvider(t, plan.dc[t], failed) /\ plan.dc[t] \in DnsChange
    BY <1>4 DEF Do, TypeOK, PlanType
  <2>2. plan.dc[t].add # NoValue /\ plan.dc[t].remove = NoValue
    BY <1>4, StepsShape DEF PlanShape
  <2>3. /\ zone'[t][op.host] = DnsNominal(t, zone[t][op.host], plan.dc[t]).r
        /\ failed = DnsNominal(t, zone[t][op.host], plan.dc[t]).err
    BY <1>2, <1>4, <2>1, CallProviderEffect
  <2> QED
    BY <1>4, <2>2, <2>3 DEF DnsNominal, AfterRemove
<1> QED
  BY <1>3, <1>4, TopologyAssumption DEF Steps

\* The compensator of an expose takes its leg down.
LEMMA ExposeUndo ==
    ASSUME TypeOK, PlanShape, StepOrder, ExposeLegs, op.verb = "expose", pc = "rollback",
           NEW t \in applied, Undo(t, FALSE), t \notin Suspect', rbErr \subseteq rbErr'
    PROVE  /\ t \in Edges => /\ edge'[t].mine[op.host] = NoRoute
                             /\ edge'[t].other[op.host] = NoRoute
           /\ t \in Providers => zone'[t][op.host].value = NoValue
<1>1. op.host \in Hosts
  BY DEF TypeOK, Op
<1>2. t \in Steps(plan) /\ t \notin tainted'
  BY DEF Suspect, StepOrder
<1>3. tainted \subseteq tainted'
  BY <1>2, CallOthers
<1>4. t \notin Suspect
  BY <1>3 DEF Suspect
<1>5. CASE t \in Edges /\ t \notin Providers
  <2> DEFINE c == invertEdge(plan.ec[t], snap[t])
  <2>1. CallEdge(t, c, FALSE) /\ edge[t] \in EdgeState
    BY <1>5 DEF Undo, TypeOK
  <2>2. c \in EdgeChange
    BY <1>5, InvertEdgeType DEF TypeOK, PlanType
  <2>3. op.host \in c.remove
    BY <1>1, <1>2, <1>5, StepsShape DEF invertEdge, AddedHosts
  <2>4. c.add[op.host] = NoRoute
    BY <1>1, <1>5 DEF invertEdge, PlanShape
  <2>5. edge[t].other[op.host] = NoRoute
    BY <1>2, <1>4, <1>5 DEF ExposeLegs, ExposedEdge, Undoable
  <2> HIDE DEF c
  <2>6. /\ Write(t, edge[t], c).mine[op.host] = NoRoute
        /\ Write(t, edge[t], c).other[op.host] = NoRoute
    BY <1>1, <1>5, <2>1, <2>2, <2>3, <2>4, <2>5, WriteEffect
  <2> QED
    BY <1>2, <1>5, <2>1, <2>2, <2>6, CallEdgeEffect
<1>6. CASE t \in Providers /\ t \notin Edges
  <2> DEFINE c == invertDNS(plan.dc[t])
  <2>1. CallProvider(t, c, FALSE)
    BY <1>6 DEF Undo
  <2>2. plan.dc[t] \in DnsChange /\ c \in DnsChange
    BY <1>6, InvertDnsType DEF TypeOK, PlanType
  <2>3. zone'[t][op.host] = DnsNominal(t, zone[t][op.host], c).r
    BY <1>2, <1>6, <2>1, <2>2, CallProviderEffect
  <2>4. c.add = NoValue /\ c.remove = plan.dc[t].add
    BY <1>6 DEF invertDNS, PlanShape
  <2>5. zone[t][op.host].value = plan.dc[t].add /\ zone[t][op.host].ours
    BY <1>2, <1>4, <1>6 DEF ExposeLegs, ExposedRecord
  <2>6. plan.dc[t].add # NoValue
    BY <1>2, <1>6, StepsShape
  <2> HIDE DEF c
  <2> QED
    BY <1>6, <2>3, <2>4, <2>5, <2>6 DEF DnsNominal, AfterRemove, NoRecord
<1> QED
  BY <1>2, <1>5, <1>6, TopologyAssumption DEF Steps

\* Persisting an exposed edge keeps its leg up: the host is written to crenel's
\* region of the boot config, from which Caddy is reloaded.
LEMMA PersistKeepsExposed ==
    ASSUME NEW s \in EdgeState, NEW h \in Hosts,
           s.mine[h] # NoRoute \/ (h \in s.region /\ s.other[h] # NoRoute)
    PROVE  LET b == Boot(mergeManagedRegion(s)) IN h \in b.region /\ b.other[h] # NoRoute
<1>1. HasHost(s, h)
  BY DEF HasHost, findRoute, OrElse
<1>2. h \in PersistHosts(s)
  BY <1>1 DEF PersistHosts
<1>3. FileRoute(findRoute(s, h)) \in Route
  BY <1>1, FindRouteType DEF FileRoute, Route, HasHost
<1>4. FileRoute(findRoute(s, h)) # NoRoute
  BY <1>3, EdgeDriverAssumption
<1>5. mergeManagedRegion(s).disk[h] # NoRoute /\ mergeManagedRegion(s).region = PersistHosts(s)
  BY <1>2, <1>4 DEF mergeManagedRegion, EdgeState
<1>6. mergeManagedRegion(s) \in EdgeState
  BY MergeType
<1> HIDE DEF mergeManagedRegion
<1> QED
  BY <1>2, <1>5, <1>6 DEF Boot, EdgeState

\* What Persist does to an edge no fault touches: nothing, or one rewrite and
\* reload of its boot config.
LEMMA PersistEffect ==
    ASSUME TypeOK, NEW f \in Edges, Persist(f)
    PROVE  /\ tainted \subseteq tainted'
           /\ \A e \in Edges \ tainted' :
                edge'[e] = edge[e] \/ edge'[e] = Boot(mergeManagedRegion(edge[e]))
BY DEF Persist, TypeOK

\* Every step keeps the legs of an expose where ExposeLegs says.
LEMMA ExposeLegsStep ==
    TypeOK /\ PersistQueue /\ StepOrder /\ PlanShape /\ ExposeLegs /\ [Next]_vars => ExposeLegs'
<1> SUFFICES ASSUME TypeOK, PersistQueue, StepOrder, PlanShape, ExposeLegs, [Next]_vars,
                    op'.verb = "expose"
             PROVE  /\ \A e \in (Edges \cap Steps(plan')) \ Suspect' : ExposedEdge(e)'
                    /\ \A p \in (Providers \cap Steps(plan')) \ Suspect' : ExposedRecord(p)'
  BY DEF ExposeLegs
<1> USE DEF Finish
<1>0. op.host \in Hosts
  BY DEF TypeOK, Op
<1>1. CASE plan' = NoPlan
  BY <1>1, NoPlanShape
<1>2. CASE Begin \/ Resume
  BY <1>1, <1>2 DEF Begin, Resume, Start
<1>3. CASE Plan
  <2>1. CASE plan' = plan
    BY <1>1, <1>3, <2>1 DEF Plan, PlanShape
  <2>2. CASE plan' = Changes(op)
    <3>1. /\ op' = op /\ edge' = edge /\ zone' = zone /\ applied' = {} /\ applied = {}
          /\ pre' = [edge |-> edge, zone |-> zone]
      BY <1>3 DEF Plan, world, StepOrder, Preparing
    <3>2. ASSUME NEW e \in Edges \cap Steps(plan') PROVE ExposedEdge(e)'
      <4>1. ~ HasHost(edge[e], op.host)
        <5>1. e \notin Providers
          BY TopologyAssumption
        <5>2. touchedHosts(Changes(op).ec[e]) # {}
          BY <2>2, <3>2, <5>1 DEF Steps, EmptyEdgeChange
        <5> QED
          BY <3>1, <5>2, ChangesShape
      <4>2. edge[e].other[op.host] = NoRoute
        BY <4>1 DEF HasHost, findRoute, OrElse
      <4> QED
        BY <3>1, <4>1, <4>2 DEF ExposedEdge
    <3>3. ASSUME NEW p \in Providers \cap Steps(plan') PROVE ExposedRecord(p)'
      BY <3>1 DEF ExposedRecord
    <3> QED
      BY <3>2, <3>3
  <2> QED
    BY <1>3, <2>1, <2>2 DEF Plan
<1>4. CASE Gate \/ Confirm \/ Snapshot \/ Verify
  <2>1. /\ UNCHANGED <<op, plan, pre, edge, zone, applied, tainted, rbErr>>
        /\ Undoable' => Undoable
    BY <1>4 DEF Gate, Confirm, Snapshot, Verify, StartRollback, world, report, history,
                Undoable, Preparing
  <2> QED
    BY <2>1, ExposeFrame
<1>5. CASE ApplyStep \/ ApplyFails
  <2>1. /\ UNCHANGED <<op, plan, pre, rbErr>> /\ pc = "apply"
        /\ todo = Steps(plan) \ applied
    BY <1>5 DEF ApplyStep, ApplyFails, report, StepOrder
  <2>2. PICK t \in todo, failed \in BOOLEAN :
            Do(t, failed) /\ applied' = IF failed THEN applied ELSE applied \cup {t}
    BY <1>5 DEF ApplyStep, ApplyFails
  <2>3. t \in Steps(plan) \ applied
    BY <2>1, <2>2
  <2>4. /\ tainted \subseteq tainted'
        /\ \A f \in Edges \ {t} : edge'[f] = edge[f]
        /\ \A q \in Providers \ {t} : zone'[q] = zone[q]
    BY <2>2, <2>3, CallOthers
  <2>5. Undoable
    BY <2>1 DEF Undoable
  <2>6. ASSUME t \in Edges, t \notin Suspect' PROVE ExposedEdge(t)'
    <3>1. t \notin Suspect
      BY <2>1, <2>4, <2>6 DEF Suspect
    <3>2. ExposedEdge(t)
      BY <2>1, <2>3, <2>6, <3>1 DEF ExposeLegs
    <3>3. edge[t].other[op.host] = NoRoute /\ ~ HasHost(edge[t], op.host)
      BY <2>3, <2>5, <3>2 DEF ExposedEdge
    <3>4. IF failed
          THEN edge'[t] = edge[t]
          ELSE edge'[t].mine[op.host] # NoRoute /\ edge'[t].other[op.host] = NoRoute
      BY <2>1, <2>2, <2>3, <2>6, <3>3, ExposeDo
    <3> QED
      BY <2>1, <2>2, <2>3, <3>3, <3>4 DEF ExposedEdge
  <2>7. ASSUME t \in Providers, t \notin Suspect' PROVE ExposedRecord(t)'
    <3>1. t \notin Suspect
      BY <2>1, <2>4, <2>7 DEF Suspect
    <3>2. ExposedRecord(t)
      BY <2>1, <2>3, <2>7, <3>1 DEF ExposeLegs
    <3>3. LET r == zone'[t][op.host] IN
          IF failed THEN r = zone[t][op.host] ELSE r.value = plan.dc[t].add /\ r.ours
      BY <2>1, <2>2, <2>3, <2>7, ExposeDo
    <3> QED
      BY <2>1, <2>2, <2>3, <3>2, <3>3 DEF ExposedRecord
  <2>8. \A x \in Targets \ {t} : x \in applied' <=> x \in applied
    BY <2>2
  <2>9. /\ \A e \in (Edges \cap Steps(plan)) \ (Suspect' \cup {t}) : ExposedEdge(e)'
        /\ \A p \in (Providers \cap Steps(plan)) \ (Suspect' \cup {t}) : ExposedRecord(p)'
    BY <2>1, <2>4, <2>5, <2>8, ExposeFrame DEF Targets
  <2> QED
    BY <2>1, <2>6, <2>7, <2>9
<1>6. CASE RollbackStep
  <2>1. UNCHANGED <<op, plan, pre>> /\ pc = "rollback" /\ rbErr \subseteq rbErr'
    BY <1>6 DEF RollbackStep
  <2>2. PICK t \in applied :
            /\ applied' = applied \ {t}
            /\ \/ t \in rbErr' /\ (UNCHANGED <<edge, zone, tainted>> \/ Undo(t, TRUE))
               \/ Undo(t, FALSE)
    BY <1>6 DEF RollbackStep, world
  <2>3. t \in Steps(plan)
    BY DEF StepOrder
  <2>4. /\ tainted \subseteq tainted'
        /\ \A f \in Edges \ {t} : edge'[f] = edge[f]
        /\ \A q \in Providers \ {t} : zone'[q] = zone[q]
    BY <2>2, <2>3, CallOthers
  <2>5. Undoable
    BY <2>1 DEF Undoable
  <2>6. ASSUME t \in Edges, t \notin Suspect' PROVE ExposedEdge(t)'
    <3>1. edge'[t].mine[op.host] = NoRoute /\ edge'[t].other[op.host] = NoRoute
      BY <2>1, <2>2, <2>6, ExposeUndo DEF Suspect
    <3> QED
      BY <2>1, <2>2, <3>1 DEF ExposedEdge, HasHost, findRoute, OrElse
  <2>7. ASSUME t \in Providers, t \notin Suspect' PROVE ExposedRecord(t)'
    <3>1. zone'[t][op.host].value = NoValue
      BY <2>1, <2>2, <2>7, ExposeUndo DEF Suspect
    <3> QED
      BY <2>1, <2>2, <3>1 DEF ExposedRecord
  <2>8. \A x \in Targets \ {t} : x \in applied' <=> x \in applied
    BY <2>2
  <2>9. /\ \A e \in (Edges \cap Steps(plan)) \ (Suspect' \cup {t}) : ExposedEdge(e)'
        /\ \A p \in (Providers \cap Steps(plan)) \ (Suspect' \cup {t}) : ExposedRecord(p)'
    BY <2>1, <2>4, <2>5, <2>8, ExposeFrame DEF Targets
  <2> QED
    BY <2>1, <2>6, <2>7, <2>9
<1>7. CASE PersistStep
  <2>1. /\ UNCHANGED <<op, plan, pre, zone, applied, rbErr>>
        /\ pc = "persist" /\ pc' \in {"persist", "done"}
    BY <1>7 DEF PersistStep
  <2>2. ~ Undoable' /\ applied = Steps(plan)
    BY <2>1 DEF Undoable, Preparing, StepOrder
  <2>3. /\ tainted \subseteq tainted'
        /\ \A e \in Edges \ tainted' :
             edge'[e] = edge[e] \/ edge'[e] = Boot(mergeManagedRegion(edge[e]))
    <3>1. \A f \in todo : f \in Edges
      BY <2>1 DEF PersistQueue, TypeOK, PlanType
    <3> QED
      BY <1>7, <3>1, PersistEffect DEF PersistStep
  <2>4. ASSUME NEW e \in (Edges \cap Steps(plan)) \ Suspect' PROVE ExposedEdge(e)'
    <3>1. e \notin Suspect /\ e \notin tainted' /\ edge[e] \in EdgeState
      BY <2>1, <2>3, <2>4 DEF Suspect, TypeOK
    <3>2. ExposedEdge(e)
      BY <2>1, <2>4, <3>1 DEF ExposeLegs
    <3>3. edge[e].mine[op.host] # NoRoute
          \/ (op.host \in edge[e].region /\ edge[e].other[op.host] # NoRoute)
      BY <2>2, <2>4, <3>2 DEF ExposedEdge
    <3>4. edge'[e] = edge[e] \/ (op.host \in edge'[e].region /\ edge'[e].other[op.host] # NoRoute)
      BY <1>0, <2>3, <3>1, <3>3, PersistKeepsExposed
    <3> QED
      BY <2>1, <2>2, <2>4, <3>3, <3>4 DEF ExposedEdge
  <2>5. \A p \in (Providers \cap Steps(plan)) \ Suspect' : ExposedRecord(p)'
    BY <2>1, <2>2, <2>3, ExposeFrame
  <2> QED
    BY <2>1, <2>4, <2>5
<1>8. CASE Environment \/ UNCHANGED vars
  <2>1. Quiet
    BY <1>8, EnvironmentQuiet
  <2>2. /\ UNCHANGED <<op, plan, pre, applied, rbErr>> /\ tainted \subseteq tainted'
        /\ Undoable' => Undoable
    BY <2>1 DEF Quiet, txn, report, KeepsWorld, Undoable, Preparing
  <2>3. Edges \ Suspect' \subseteq Edges \ tainted' /\ Providers \ Suspect' \subseteq Providers \ tainted'
    BY DEF Suspect
  <2> QED
    BY <2>1, <2>2, <2>3, ExposeFrame DEF Quiet, KeepsWorld
<1> QED
  BY <1>2, <1>3, <1>4, <1>5, <1>6, <1>7, <1>8 DEF Next, Crenel

\* The legs of an unexpose whose target a step leaves alone stay where they are.
LEMMA UnexposeFrame ==
    ASSUME UNCHANGED <<op, plan, pre>>, tainted \subseteq tainted', rbErr \subseteq rbErr',
           Undoable' => Undoable,
           Preparing' \/ pc' = "apply" => Preparing \/ pc = "apply",
           UnexposeLegs, op.verb = "unexpose"
    PROVE  /\ \A e \in (Edges \cap Steps(plan)) \ Suspect' :
                /\ e \in applied' <=> e \in applied
                /\ edge'[e].mine = edge[e].mine /\ edge'[e].other = edge[e].other
                /\ edge'[e].disk = edge[e].disk /\ edge'[e].region = edge[e].region
                /\ pc' \in {"apply", "rollback"} => HasHost(snap'[e], op.host)
                => UnexposedEdge(e)'
           /\ \A p \in (Providers \cap Steps(plan)) \ Suspect' :
                /\ p \in applied' <=> p \in applied
                /\ zone'[p][op.host] = zone[p][op.host]
                => UnexposedRecord(p)'
<1>1. Suspect \subseteq Suspect'
  BY DEF Suspect
<1>2. ASSUME NEW e \in (Edges \cap Steps(plan)) \ Suspect',
             e \in applied' <=> e \in applied,
             edge'[e].mine = edge[e].mine, edge'[e].other = edge[e].other,
             edge'[e].disk = edge[e].disk, edge'[e].region = edge[e].region,
             pc' \in {"apply", "rollback"} => HasHost(snap'[e], op.host)
      PROVE  UnexposedEdge(e)'
  <2>1. UnexposedEdge(e)
    BY <1>1, <1>2 DEF UnexposeLegs
  <2>2. Removable(e)' <=> Removable(e)
    BY DEF Removable
  <2>3. HasHost(edge[e], op.host)' <=> HasHost(edge[e], op.host)
    BY <1>2 DEF HasHost, findRoute, OrElse
  <2> QED
    BY <1>2, <2>1, <2>2, <2>3 DEF UnexposedEdge
<1>3. ASSUME NEW p \in (Providers \cap Steps(plan)) \ Suspect',
             p \in applied' <=> p \in applied, zone'[p][op.host] = zone[p][op.host]
      PROVE  UnexposedRecord(p)'
  <2>1. UnexposedRecord(p)
    BY <1>1, <1>3 DEF UnexposeLegs
  <2> QED
    BY <1>3, <2>1 DEF UnexposedRecord
<1> QED
  BY <1>2, <1>3

\* The forward call of an unexpose takes its leg down where the route is
\* removable; one that fails without a fault changes nothing.
LEMMA UnexposeDo ==
    ASSUME TypeOK, PlanShape, UnexposeLegs, op.verb = "unexpose", pc = "apply",
           NEW t \in Steps(plan) \ (applied \cup Suspect), NEW failed \in BOOLEAN,
           Do(t, failed), t \notin tainted'
    PROVE  /\ t \in Edges =>
                /\ edge'[t].disk = edge[t].disk /\ edge'[t].region = edge[t].region
                /\ failed => edge'[t] = edge[t]
                /\ ~ failed => /\ edge'[t].mine[op.host] = NoRoute
                               /\ edge'[t].other[op.host] \in {NoRoute, edge[t].other[op.host]}
           /\ t \in Providers => ~ failed /\ zone'[t][op.host].value = NoValue
<1>1. op.host \in Hosts
  BY DEF TypeOK, Op
<1>2. CASE t \in Edges /\ t \notin Providers
  <2>1. CallEdge(t, plan.ec[t], failed) /\ plan.ec[t] \in EdgeChange /\ edge[t] \in EdgeState
    BY <1>2 DEF Do, TypeOK, PlanType
  <2>2. plan.ec[t].add[op.host] = NoRoute /\ plan.ec[t].remove = {op.host}
    BY <1>1, <1>2, StepsShape DEF PlanShape, AddedHosts
  <2>3. /\ Write(t, edge[t], plan.ec[t]).mine[op.host] = NoRoute
        /\ Write(t, edge[t], plan.ec[t]).other[op.host] \in {NoRoute, edge[t].other[op.host]}
    BY <1>1, <1>2, <2>1, <2>2, WriteEffect
  <2> QED
    BY <1>2, <2>1, <2>3, CallEdgeEffect
<1>3. CASE t \in Providers /\ t \notin Edges
  <2>1. CallProvider(t, plan.dc[t], failed) /\ plan.dc[t] \in DnsChange
    BY <1>3 DEF Do, TypeOK, PlanType
  <2>2. plan.dc[t].add = NoValue /\ plan.dc[t].remove # NoValue
    BY <1>3, StepsShape DEF PlanShape
  <2>3. /\ zone'[t][op.host] = DnsNominal(t, zone[t][op.host], plan.dc[t]).r
        /\ failed = DnsNominal(t, zone[t][op.host], plan.dc[t]).err
    BY <1>3, <2>1, CallProviderEffect
  <2>4. zone[t][op.host] = pre.zone[t][op.host]
    BY <1>3 DEF UnexposeLegs, UnexposedRecord
  <2>5. AfterRemove(t, zone[t][op.host], plan.dc[t]) = NoRecord
    BY <1>3, <2>2, <2>4 DEF PlanShape, AfterRemove
  <2> QED
    BY <1>3, <2>2, <2>3, <2>5 DEF DnsNominal, AddRefused, NoRecord
<1> QED
  BY <1>2, <1>3, TopologyAssumption DEF Steps

\* The compensator of an unexpose brings its leg up again.
LEMMA UnexposeUndo ==
    ASSUME TypeOK, PlanShape, UnexposeLegs, op.verb = "unexpose", pc = "rollback",
           NEW t \in Steps(plan) \ Suspect, Undo(t, FALSE), t \notin tainted'
    PROVE  /\ t \in Edges =>
                /\ edge'[t].disk = edge[t].disk /\ edge'[t].region = edge[t].region
                /\ edge'[t].mine[op.host] # NoRoute
                /\ edge'[t].other[op.host] \in {NoRoute, edge[t].other[op.host]}
           /\ t \in Providers => zone'[t][op.host].value # NoValue
<1>1. op.host \in Hosts
  BY DEF TypeOK, Op
<1>2. CASE t \in Edges /\ t \notin Providers
  <2> DEFINE c == invertEdge(plan.ec[t], snap[t])
  <2>1. CallEdge(t, c, FALSE) /\ edge[t] \in EdgeState
    BY <1>2 DEF Undo, TypeOK
  <2>2. c \in EdgeChange
    BY <1>2, InvertEdgeType DEF TypeOK, PlanType
  <2>3. findRoute(snap[t], op.host) # NoRoute
    BY <1>2 DEF UnexposeLegs, UnexposedEdge, HasHost
  <2>4. c.add[op.host] # NoRoute
    BY <1>1, <1>2, <2>3, StepsShape DEF invertEdge
  <2> HIDE DEF c
  <2>5. /\ Write(t, edge[t], c).mine[op.host] # NoRoute
        /\ Write(t, edge[t], c).other[op.host] \in {NoRoute, edge[t].other[op.host]}
    BY <1>1, <1>2, <2>1, <2>2, <2>4, WriteEffect
  <2> QED
    BY <1>2, <2>1, <2>2, <2>5, CallEdgeEffect
<1>3. CASE t \in Providers /\ t \notin Edges
  <2> DEFINE c == invertDNS(plan.dc[t])
  <2>1. CallProvider(t, c, FALSE)
    BY <1>3 DEF Undo
  <2>2. plan.dc[t] \in DnsChange /\ c \in DnsChange
    BY <1>3, InvertDnsType DEF TypeOK, PlanType
  <2>3. /\ zone'[t][op.host] = DnsNominal(t, zone[t][op.host], c).r
        /\ ~ DnsNominal(t, zone[t][op.host], c).err
    BY <1>3, <2>1, <2>2, CallProviderEffect
  <2>4. c.add # NoValue
    BY <1>3, StepsShape DEF invertDNS
  <2> HIDE DEF c
  <2> QED
    BY <1>3, <2>3, <2>4 DEF DnsNominal
<1> QED
  BY <1>2, <1>3, TopologyAssumption DEF Steps

\* Persisting an edge whose host is gone, and that the operator's part of the
\* boot config does not declare, does not bring the host back.
LEMMA PersistKeepsRemoved ==
    ASSUME NEW s \in EdgeState, NEW h \in Hosts, ~ HasHost(s, h),
           s.disk[h] = NoRoute \/ h \in s.region
    PROVE  LET b == Boot(mergeManagedRegion(s)) IN ~ HasHost(b, h) /\ b.disk[h] = NoRoute
<1>1. h \notin PersistHosts(s)
  BY DEF PersistHosts
<1>2. mergeManagedRegion(s).disk[h] = NoRoute
  BY <1>1 DEF mergeManagedRegion, EdgeState
<1>3. mergeManagedRegion(s) \in EdgeState
  BY MergeType
<1> HIDE DEF mergeManagedRegion
<1> QED
  BY <1>2, <1>3 DEF Boot, EdgeState, HasHost, findRoute, OrElse, NoRoutes

\* Every step keeps the legs of an unexpose where UnexposeLegs says.
LEMMA UnexposeLegsStep ==
    TypeOK /\ PersistQueue /\ StepOrder /\ PlanShape /\ UnexposeLegs /\ [Next]_vars
        => UnexposeLegs'
<1> SUFFICES ASSUME TypeOK, PersistQueue, StepOrder, PlanShape, UnexposeLegs, [Next]_vars,
                    op'.verb = "unexpose"
             PROVE  /\ \A e \in (Edges \cap Steps(plan')) \ Suspect' : UnexposedEdge(e)'
                    /\ \A p \in (Providers \cap Steps(plan')) \ Suspect' : UnexposedRecord(p)'
  BY DEF UnexposeLegs
<1> USE DEF Finish
<1>0. op.host \in Hosts
  BY DEF TypeOK, Op
<1>1. CASE plan' = NoPlan
  BY <1>1, NoPlanShape
<1>2. CASE Begin \/ Resume
  BY <1>1, <1>2 DEF Begin, Resume, Start
<1>3. CASE Plan
  <2>1. CASE plan' = plan
    BY <1>1, <1>3, <2>1 DEF Plan, PlanShape
  <2>2. CASE plan' = Changes(op) /\ pc' = "gate"
    <3>1. /\ op' = op /\ edge' = edge /\ zone' = zone /\ applied' = {}
          /\ pre' = [edge |-> edge, zone |-> zone]
      BY <1>3 DEF Plan, world, StepOrder, Preparing
    <3>2. ASSUME NEW e \in Edges \cap Steps(plan') PROVE UnexposedEdge(e)'
      <4>1. HasHost(edge[e], op.host)
        <5>1. e \notin Providers
          BY TopologyAssumption
        <5>2. touchedHosts(Changes(op).ec[e]) # {}
          BY <2>2, <3>2, <5>1 DEF Steps, EmptyEdgeChange
        <5> QED
          BY <3>1, <5>2, ChangesShape
      <4>2. Removable(e)' => /\ edge[e].other[op.host] = NoRoute
                             /\ edge[e].disk[op.host] = NoRoute \/ op.host \in edge[e].region
        BY <3>1, <3>2 DEF Removable
      <4> QED
        BY <2>2, <3>1, <4>1, <4>2 DEF UnexposedEdge
    <3>3. ASSUME NEW p \in Providers \cap Steps(plan') PROVE UnexposedRecord(p)'
      <4>1. Changes(op).dc[p] # NoDnsChange
        <5>1. p \notin Edges
          BY TopologyAssumption
        <5> QED
          BY <2>2, <3>3, <5>1 DEF Steps
      <4>2. Changes(op).dc[p] \in DnsChange
        BY ChangesType DEF TypeOK, PlanType
      <4>3. Changes(op).dc[p].remove # NoValue
        BY <3>1, <4>1, <4>2, ChangesRecords DEF DnsChange, NoDnsChange
      <4>4. zone[p][op.host].value # NoValue
        BY <3>1, <4>3, ChangesRecords
      <4> QED
        BY <3>1, <4>4 DEF UnexposedRecord
    <3> QED
      BY <3>2, <3>3
  <2> QED
    BY <1>3, <2>1, <2>2 DEF Plan
<1>4. CASE Gate \/ Confirm \/ Snapshot \/ Verify
  <2>1. /\ UNCHANGED <<op, plan, pre, edge, zone, applied, tainted, rbErr>>
        /\ Undoable' => Undoable
        /\ Preparing' \/ pc' = "apply" => Preparing \/ pc = "apply"
    BY <1>4 DEF Gate, Confirm, Snapshot, Verify, StartRollback, world, report, history,
                Undoable, Preparing
  <2>2. ASSUME NEW e \in (Edges \cap Steps(plan)) \ Suspect', pc' \in {"apply", "rollback"}
        PROVE  HasHost(snap'[e], op.host)
    <3>1. UnexposedEdge(e)
      BY <2>1, <2>2 DEF UnexposeLegs, Suspect
    <3>2. CASE Snapshot
      <4>1. applied = {} /\ snap' = edge
        BY <2>2, <3>2 DEF Snapshot, StepOrder, Preparing
      <4> QED
        BY <3>1, <4>1 DEF UnexposedEdge
    <3>3. CASE Verify
      <4>1. pc = "apply" /\ snap' = snap
        BY <3>3 DEF Verify
      <4> QED
        BY <3>1, <4>1 DEF UnexposedEdge
    <3> QED
      BY <1>4, <2>2, <3>2, <3>3 DEF Gate, Confirm
  <2> QED
    BY <2>1, <2>2, UnexposeFrame
<1>5. CASE ApplyStep \/ ApplyFails
  <2>1. /\ UNCHANGED <<op, plan, pre, rbErr, snap>> /\ pc = "apply"
        /\ todo = Steps(plan) \ applied
    BY <1>5 DEF ApplyStep, ApplyFails, report, StepOrder
  <2>2. PICK t \in todo, failed \in BOOLEAN :
            Do(t, failed) /\ applied' = IF failed THEN applied ELSE applied \cup {t}
    BY <1>5 DEF ApplyStep, ApplyFails
  <2>3. t \in Steps(plan) \ applied
    BY <2>1, <2>2
  <2>4. /\ tainted \subseteq tainted'
        /\ \A f \in Edges \ {t} : edge'[f] = edge[f]
        /\ \A q \in Providers \ {t} : zone'[q] = zone[q]
    BY <2>2, <2>3, CallOthers
  <2>5. Undoable
    BY <2>1 DEF Undoable
  <2>6. ASSUME t \notin Suspect' PROVE t \notin Suspect /\ t \notin tainted'
    BY <2>1, <2>4, <2>6 DEF Suspect
  <2>7. ASSUME t \in Edges, t \notin Suspect' PROVE UnexposedEdge(t)'
    <3>1. UnexposedEdge(t)
      BY <2>1, <2>3, <2>6, <2>7 DEF UnexposeLegs
    <3>2. /\ edge'[t].disk = edge[t].disk /\ edge'[t].region = edge[t].region
          /\ failed => edge'[t] = edge[t]
          /\ ~ failed => /\ edge'[t].mine[op.host] = NoRoute
                         /\ edge'[t].other[op.host] \in {NoRoute, edge[t].other[op.host]}
      BY <2>1, <2>2, <2>3, <2>6, <2>7, UnexposeDo
    <3>3. Removable(t)' <=> Removable(t)
      BY <2>1 DEF Removable
    <3>4. t \in applied' <=> ~ failed
      BY <2>2, <2>3
    <3>5. failed => (HasHost(edge[t], op.host)' <=> HasHost(edge[t], op.host))
      BY <2>1, <3>2
    <3>6. Removable(t) => edge'[t].other[op.host] = NoRoute
      BY <2>5, <3>1, <3>2 DEF UnexposedEdge
    <3>7. Removable(t) /\ ~ failed => ~ HasHost(edge[t], op.host)'
      BY <2>1, <3>2, <3>6 DEF HasHost, findRoute, OrElse
    <3> QED
      BY <2>1, <2>3, <2>5, <3>1, <3>2, <3>3, <3>4, <3>5, <3>6, <3>7 DEF UnexposedEdge
  <2>8. ASSUME t \in Providers, t \notin Suspect' PROVE UnexposedRecord(t)'
    <3>1. ~ failed /\ zone'[t][op.host].value = NoValue
      BY <2>1, <2>2, <2>3, <2>6, <2>8, UnexposeDo
    <3> QED
      BY <2>1, <2>2, <3>1 DEF UnexposedRecord
  <2>9. \A x \in Targets \ {t} : x \in applied' <=> x \in applied
    BY <2>2
  <2>10. \A e \in (Edges \cap Steps(plan)) \ Suspect' : HasHost(snap'[e], op.host)
    BY <2>1, <2>4 DEF UnexposeLegs, UnexposedEdge, Suspect
  <2>11. /\ \A e \in (Edges \cap Steps(plan)) \ (Suspect' \cup {t}) : UnexposedEdge(e)'
         /\ \A p \in (Providers \cap Steps(plan)) \ (Suspect' \cup {t}) : UnexposedRecord(p)'
    BY <2>1, <2>4, <2>5, <2>9, <2>10, UnexposeFrame DEF Targets
  <2> QED
    BY <2>1, <2>7, <2>8, <2>11
<1>6. CASE RollbackStep
  <2>1. /\ UNCHANGED <<op, plan, pre, snap>> /\ pc = "rollback" /\ rbErr \subseteq rbErr'
        /\ pc' \in {"rollback", "done"}
    BY <1>6 DEF RollbackStep
  <2>2. PICK t \in applied :
            /\ applied' = applied \ {t}
            /\ \/ t \in rbErr' /\ (UNCHANGED <<edge, zone, tainted>> \/ Undo(t, TRUE))
               \/ Undo(t, FALSE)
    BY <1>6 DEF RollbackStep, world
  <2>3. t \in Steps(plan)
    BY DEF StepOrder
  <2>4. /\ tainted \subseteq tainted'
        /\ \A f \in Edges \ {t} : edge'[f] = edge[f]
        /\ \A q \in Providers \ {t} : zone'[q] = zone[q]
    BY <2>2, <2>3, CallOthers
  <2>5. Undoable /\ ~ Preparing' /\ pc' # "apply"
    BY <2>1 DEF Undoable, Preparing
  <2>6. ASSUME t \notin Suspect' PROVE t \notin Suspect /\ t \notin tainted' /\ Undo(t, FALSE)
    BY <2>1, <2>2, <2>4, <2>6 DEF Suspect
  <2>7. ASSUME t \in Edges, t \notin Suspect' PROVE UnexposedEdge(t)'
    <3>1. UnexposedEdge(t)
      BY <2>1, <2>3, <2>6, <2>7 DEF UnexposeLegs
    <3>2. /\ edge'[t].disk = edge[t].disk /\ edge'[t].region = edge[t].region
          /\ edge'[t].mine[op.host] # NoRoute
          /\ edge'[t].other[op.host] \in {NoRoute, edge[t].other[op.host]}
      BY <2>1, <2>3, <2>6, <2>7, UnexposeUndo
    <3>3. Removable(t)' <=> Removable(t)
      BY <2>1 DEF Removable
    <3>4. t \notin applied'
      BY <2>2
    <3>5. HasHost(edge[t], op.host)'
      BY <2>1, <3>2 DEF HasHost, findRoute, OrElse
    <3> QED
      BY <2>1, <2>5, <3>1, <3>2, <3>3, <3>4, <3>5 DEF UnexposedEdge
  <2>8. ASSUME t \in Providers, t \notin Suspect' PROVE UnexposedRecord(t)'
    <3>1. zone'[t][op.host].value # NoValue
      BY <2>1, <2>3, <2>6, <2>8, UnexposeUndo
    <3> QED
      BY <2>1, <2>2, <2>5, <3>1 DEF UnexposedRecord
  <2>9. \A x \in Targets \ {t} : x \in applied' <=> x \in applied
    BY <2>2
  <2>10. \A e \in (Edges \cap Steps(plan)) \ Suspect' : HasHost(snap'[e], op.host)
    BY <2>1, <2>4 DEF UnexposeLegs, UnexposedEdge, Suspect
  <2>11. /\ \A e \in (Edges \cap Steps(plan)) \ (Suspect' \cup {t}) : UnexposedEdge(e)'
         /\ \A p \in (Providers \cap Steps(plan)) \ (Suspect' \cup {t}) : UnexposedRecord(p)'
    BY <2>1, <2>4, <2>5, <2>9, <2>10, UnexposeFrame DEF Targets
  <2> QED
    BY <2>1, <2>7, <2>8, <2>11
<1>7. CASE PersistStep
  <2>1. /\ UNCHANGED <<op, plan, pre, zone, applied, rbErr>>
        /\ pc = "persist" /\ pc' \in {"persist", "done"}
    BY <1>7 DEF PersistStep
  <2>2. ~ Undoable' /\ ~ Preparing' /\ pc' \notin {"apply", "rollback"} /\ applied = Steps(plan)
    BY <2>1 DEF Undoable, Preparing, StepOrder
  <2>3. /\ tainted \subseteq tainted'
        /\ \A e \in Edges \ tainted' :
             edge'[e] = edge[e] \/ edge'[e] = Boot(mergeManagedRegion(edge[e]))
    <3>1. \A f \in todo : f \in Edges
      BY <2>1 DEF PersistQueue, TypeOK, PlanType
    <3> QED
      BY <1>7, <3>1, PersistEffect DEF PersistStep
  <2>4. ASSUME NEW e \in (Edges \cap Steps(plan)) \ Suspect' PROVE UnexposedEdge(e)'
    <3>1. e \notin Suspect /\ e \notin tainted' /\ edge[e] \in EdgeState
      BY <2>1, <2>3, <2>4 DEF Suspect, TypeOK
    <3>2. UnexposedEdge(e)
      BY <2>1, <2>4, <3>1 DEF UnexposeLegs
    <3>3. Removable(e)' <=> Removable(e)
      BY <2>1 DEF Removable
    <3>4. Removable(e) => /\ ~ HasHost(edge[e], op.host)
                          /\ edge[e].disk[op.host] = NoRoute \/ op.host \in edge[e].region
      BY <2>2, <2>4, <3>2 DEF UnexposedEdge
    <3>5. Removable(e) => /\ ~ HasHost(edge'[e], op.host)
                          /\ edge'[e].disk[op.host] = NoRoute \/ op.host \in edge'[e].region
      BY <1>0, <2>3, <3>1, <3>4, PersistKeepsRemoved
    <3> QED
      BY <2>1, <2>2, <2>4, <3>3, <3>5 DEF UnexposedEdge
  <2>5. \A p \in (Providers \cap Steps(plan)) \ Suspect' : UnexposedRecord(p)'
    BY <2>1, <2>2, <2>3, UnexposeFrame
  <2> QED
    BY <2>1, <2>4, <2>5
<1>8. CASE Environment \/ UNCHANGED vars
  <2>1. Quiet
    BY <1>8, EnvironmentQuiet
  <2>2. /\ UNCHANGED <<op, plan, pre, snap, applied, rbErr>> /\ tainted \subseteq tainted'
        /\ Undoable' => Undoable
        /\ Preparing' \/ pc' = "apply" => Preparing \/ pc = "apply"
        /\ pc' \in {"apply", "rollback"} => pc' = pc
    BY <2>1 DEF Quiet, txn, report, KeepsWorld, Undoable, Preparing
  <2>3. Edges \ Suspect' \subseteq Edges \ tainted' /\ Providers \ Suspect' \subseteq Providers \ tainted'
    BY DEF Suspect
  <2>4. pc' \in {"apply", "rollback"} =>
            \A e \in (Edges \cap Steps(plan)) \ Suspect' : HasHost(snap'[e], op.host)
    BY <2>2 DEF UnexposeLegs, UnexposedEdge, Suspect
  <2> QED
    BY <2>1, <2>2, <2>3, <2>4, UnexposeFrame DEF Quiet, KeepsWorld
<1> QED
  BY <1>2, <1>3, <1>4, <1>5, <1>6, <1>7, <1>8 DEF Next, Crenel

-----------------------------------------------------------------------------
(***************************************************************************)
(* The theorems.                                                           *)
(***************************************************************************)
\* The legs stand in the order of their steps.
LEMMA LegsOrdered ==
    TypeOK /\ StepOrder /\ PlanShape /\ ExposeLegs /\ UnexposeLegs => ExposureOrdered
<1> SUFFICES ASSUME TypeOK, StepOrder, PlanShape, ExposeLegs, UnexposeLegs, op.verb # "rename",
                    NEW s \in Steps(plan) \ Suspect, NEW t \in Steps(plan) \ Suspect,
                    Behind(s, t), Up(t),
                    IF op.verb = "expose" THEN ~ WasUp(t) ELSE Removable(t)
             PROVE  Up(s)
  BY DEF ExposureOrdered
<1>1. s \in Targets /\ t \in Targets
  BY StepsType
<1>2. op.verb \in {"expose", "unexpose"}
  BY DEF TypeOK, Op
<1>3. \A x \in Targets : ~ (x \in Edges /\ x \in Providers)
  BY TopologyAssumption
<1>4. CASE op.verb = "expose"
  <2>1. t \in applied
    BY <1>1, <1>3, <1>4 DEF Up, WasUp, ExposeLegs, ExposedEdge, ExposedRecord, Targets
  <2>2. s \in applied
    BY <1>1, <1>4, <2>1, BehindOrder DEF StepOrder
  <2>3. CASE s \in Edges
    <3>1. ExposedEdge(s)
      BY <1>4, <2>3 DEF ExposeLegs
    <3> QED
      BY <2>2, <2>3, <3>1 DEF Up, ExposedEdge, HasHost, findRoute, OrElse
  <2>4. CASE s \in Providers
    <3>1. zone[s][op.host].value = plan.dc[s].add
      BY <1>4, <2>2, <2>4 DEF ExposeLegs, ExposedRecord
    <3>2. plan.dc[s].add # NoValue
      BY <1>4, <2>4, StepsShape
    <3> QED
      BY <2>4, <3>1, <3>2 DEF Up
  <2> QED
    BY <1>1, <2>3, <2>4 DEF Targets
<1>5. CASE op.verb = "unexpose"
  <2>1. t \notin applied
    BY <1>1, <1>3, <1>5 DEF Up, UnexposeLegs, UnexposedEdge, UnexposedRecord, Targets
  <2>2. s \notin applied
    BY <1>1, <1>5, <2>1, BehindOrder DEF StepOrder
  <2> QED
    BY <1>1, <1>5, <2>2 DEF Up, UnexposeLegs, UnexposedEdge, UnexposedRecord, Targets
<1> QED
  BY <1>2, <1>4, <1>5

-----------------------------------------------------------------------------
(***************************************************************************)
(* The invariant, and what follows from it.                                *)
(***************************************************************************)
\* A plan without changes has no steps.
LEMMA NoPlanSteps == Steps(NoPlan) = {}
  BY NoPlanEmpty DEF Steps, NoPlan

\* Before the first operation nothing is planned and nothing was changed.
LEMMA InitInv == Init => TransactionInv
<1> SUFFICES ASSUME Init PROVE TransactionInv
  OBVIOUS
<1>1. TypeOK /\ PersistQueue
  BY InitType
<1>2. /\ pc = "idle" /\ plan = NoPlan /\ applied = {} /\ outcome = "none"
      /\ pre.edge = edge
  BY DEF Init
<1>3. StepOrder
  BY <1>2 DEF StepOrder, Preparing
<1>4. Gated
  BY <1>2, NoPlanEmpty DEF Gated
<1>5. OthersUntouched
  BY <1>2 DEF OthersUntouched
<1>6. PlanShape
  BY <1>2, NoPlanShape DEF PlanShape
<1>7. ExposeLegs /\ UnexposeLegs
  BY <1>2, NoPlanSteps DEF ExposeLegs, UnexposeLegs
<1> QED
  BY <1>1, <1>3, <1>4, <1>5, <1>6, <1>7 DEF TransactionInv

\* Every step of crenel, of the operator and of the environment keeps it.
LEMMA StepInv == TransactionInv /\ [Next]_vars => TransactionInv'
  BY TypeStep, PersistQueueStep, StepOrderStep, GatedStep, OthersStep, PlanShapeStep,
     ExposeLegsStep, UnexposeLegsStep
  DEF TransactionInv

(***************************************************************************)
(* The transaction invariant holds at every moment of every behaviour:     *)
(* whatever fails, is killed or is edited from outside, the applied steps  *)
(* are a prefix of the sorted steps and the legs of the operation stand    *)
(* where that prefix says (buildSteps, applyPlanned, rollback).            *)
(***************************************************************************)
THEOREM TransactionSafe == Spec => []TransactionInv
  BY InitInv, StepInv, PTL DEF Spec

(***************************************************************************)
(* Refuse to manage (gate.go): on every wiring, a route that crenel must   *)
(* not touch is the same during and after any number of transactions.      *)
(***************************************************************************)
THEOREM OthersSafe == Spec => []OthersUntouched
<1>1. TransactionInv => OthersUntouched
  BY DEF TransactionInv
<1> QED
  BY <1>1, TransactionSafe, PTL

(***************************************************************************)
(* Announce last, withdraw first (buildSteps, rollback): on every wiring,  *)
(* no leg of an exposure is up over a missing one.                         *)
(***************************************************************************)
THEOREM OrderSafe == Spec => []ExposureOrdered
<1>1. TransactionInv => ExposureOrdered
  BY LegsOrdered DEF TransactionInv
<1> QED
  BY <1>1, TransactionSafe, PTL

-----------------------------------------------------------------------------
(***************************************************************************)
(* The inductive invariant.  A target that no fault touched is always at   *)
(* one of a few images of the state pre that the plan was computed from.   *)
(***************************************************************************)
\* Two edge states that differ only in what the daemon has loaded.
Same(s, t) ==
    /\ s.mine = t.mine /\ s.other = t.other /\ s.first = t.first
    /\ s.deny = t.deny /\ s.wedged = t.wedged
    /\ s.disk = t.disk /\ s.region = t.region

\* After the step of the plan, and after its compensator.
Wrote(e) == Write(e, pre.edge[e], plan.ec[e])
Undone(e) == Write(e, Wrote(e), invertEdge(plan.ec[e], pre.edge[e]))

\* After all steps.
Final(e) == IF e \in Steps(plan) THEN Wrote(e) ELSE pre.edge[e]

\* The edge is a durable one and has been reloaded from its boot config.
Booted(e) ==
    /\ e \in plan.part /\ EdgeKind[e] = "caddy_durable" /\ e \notin warned
    /\ ~ (pc = "persist" /\ e \in todo)

EdgeImage(e) ==
    /\ pc = "idle" \/ Preparing \/ outcome \in {"refused", "noop", "declined"} =>
        Same(edge[e], pre.edge[e])
    /\ pc \in {"apply", "rollback"} =>
        /\ Same(snap[e], pre.edge[e])
        /\ Same(edge[e], IF e \in applied THEN Wrote(e)
                         ELSE IF e \in Steps(plan) \ todo THEN Undone(e)
                         ELSE pre.edge[e])
    /\ pc = "apply" /\ e \in applied /\ SelfLoading(e) =>
        edge[e].loaded = RoutedHosts(edge[e])
    /\ outcome = "failed" /\ Rollback =>
        \/ Same(edge[e], pre.edge[e])
        \/ e \in Steps(plan) /\ Same(edge[e], Undone(e))
    /\ pc = "persist" \/ outcome = "applied" =>
        IF Booted(e)
        THEN ~ PersistBlocked(Final(e)) /\ Same(edge[e], Boot(mergeManagedRegion(Final(e))))
        ELSE Same(edge[e], Final(e))

Named(p) == [pre.zone[p] EXCEPT ![op.host] = DnsNominal(p, pre.zone[p][op.host], plan.dc[p]).r]
Unnamed(p) ==
    [Named(p) EXCEPT ![op.host] = DnsNominal(p, Named(p)[op.host], invertDNS(plan.dc[p])).r]

ZoneImage(p) ==
    /\ pc = "idle" \/ Preparing \/ outcome \in {"refused", "noop", "declined"} =>
        zone[p] = pre.zone[p]
    /\ pc \in {"apply", "rollback"} =>
        zone[p] = IF p \in applied THEN Named(p)
                  ELSE IF p \in Steps(plan) \ todo THEN Unnamed(p)
                  ELSE pre.zone[p]
    /\ outcome = "failed" /\ Rollback =>
        \/ zone[p] = pre.zone[p]
        \/ p \in Steps(plan) /\ zone[p] = Unnamed(p)
    /\ pc = "persist" \/ outcome = "applied" =>
        zone[p] = IF p \in Steps(plan) THEN Named(p) ELSE pre.zone[p]

\* A plan was made and neither refused nor lost with its process.
Drafted ==
    \/ pc \in {"gate", "confirm", "snapshot", "apply", "rollback", "persist"}
    \/ outcome \in {"noop", "declined", "failed", "applied"}

\* It is the plan of the world pre, and Plan found nothing to refuse there.
PlannedFrom ==
    Drafted =>
        /\ plan.part = IF op.verb = "rename" THEN {e \in Edges : HasHost(pre.edge[e], op.old)}
                       ELSE {e \in Edges : edgeSelected(op, e) /\ roleFor(e, op.service) # "none"}
        /\ \A e \in Edges :
            plan.ec[e] = IF e \notin plan.part THEN NoEdgeChange
                         ELSE IF op.verb = "rename" THEN RenamePlan(op, pre.edge[e])
                         ELSE EdgePlan(op, e, pre.edge[e])
        /\ \A p \in Providers :
            plan.dc[p] = IF op.verb = "rename" \/ PlanSkips(op, p) THEN NoDnsChange
                         ELSE Diff(op, p, pre.zone[p][op.host])
        /\ \A e \in plan.part : ~ pre.edge[e].wedged
        /\ op.verb = "rename" =>
            /\ op.old # op.host
            /\ \A e \in plan.part : /\ ~ HasHost(pre.edge[e], op.host)
                                    /\ findRoute(pre.edge[e], op.old).auth # "detected"
        /\ op.verb = "expose" =>
            \A p \in Providers : ~ PlanSkips(op, p) => ~ DiffRefuses(op, p, pre.zone[p][op.host])

\* What the report says, and when.
Reported ==
    /\ pc # "rollback" /\ outcome \notin {"failed", "crashed"} => rbErr = {}
    /\ Preparing \/ pc \in {"apply", "rollback"} => warned = {}
    /\ pc = "persist" => warned \cap todo = {}
    /\ pc = "rollback" => todo \subseteq Steps(plan) /\ todo \cap applied = {}
    /\ pc = "persist" \/ outcome = "applied" =>
        \A e \in plan.part \cap Steps(plan) :
            EdgeKind[e] = "caddy" /\ ~ (pc = "persist" /\ e \in todo) => e \in warned

\* The read-back found the removed hosts gone.
VerifiedGone ==
    pc = "persist" \/ outcome = "applied" =>
        \A e \in plan.part \ Suspect : \A h \in plan.ec[e].remove : ~ HasHost(Wrote(e), h)

\* A transaction that is rolled back undisturbed has its excuse.
Excused ==
    (pc = "rollback" \/ outcome = "failed") /\ tainted = {} /\ ~ unread => ReadBackRefuses

ImageInv ==
    /\ TransactionInv
    /\ PlannedFrom
    /\ Reported
    /\ \A e \in Edges \ Suspect : EdgeImage(e)
    /\ \A p \in Providers \ Suspect : ZoneImage(p)
    /\ VerifiedGone
    /\ Excused

-----------------------------------------------------------------------------
(***************************************************************************)
(* Edge states that differ only in what is loaded.                         *)
(***************************************************************************)
\* The same routes answer, and the same owners are read.
LEMMA SameFind ==
    ASSUME NEW s, NEW t, Same(s, t)
    PROVE  /\ \A h : findRoute(s, h) = findRoute(t, h) /\ (HasHost(s, h) <=> HasHost(t, h))
           /\ RoutedHosts(s) = RoutedHosts(t)
           /\ \A c : invertEdge(c, s) = invertEdge(c, t)
BY DEF Same, findRoute, OrElse, HasHost, RoutedHosts, invertEdge

\* It is an equivalence.
LEMMA SameTransitive ==
    ASSUME NEW s, NEW t, NEW u, Same(s, t)
    PROVE  Same(t, s) /\ (Same(t, u) => Same(s, u))
BY DEF Same

\* Driver.Apply of one change to both.
LEMMA SameWrite ==
    ASSUME NEW e \in Edges, NEW s \in EdgeState, NEW t \in EdgeState, NEW c, Same(s, t)
    PROVE  Same(Write(e, s, c), Write(e, t, c))
BY DEF Same, Write, EdgeState

\* The daemon loads its file.
LEMMA SameLoad ==
    ASSUME NEW e \in Edges, NEW s \in EdgeState
    PROVE  /\ Same(Load(e, s), s)
           /\ FileEdge(e) => Load(e, s).loaded = RoutedHosts(s)
BY DEF Same, Load, EdgeState

\* Persist: the same verdict, the same file, the same state after the reload.
LEMMA SamePersist ==
    ASSUME NEW s \in EdgeState, NEW t \in EdgeState, Same(s, t)
    PROVE  /\ PersistBlocked(s) <=> PersistBlocked(t)
           /\ Same(Boot(mergeManagedRegion(s)), Boot(mergeManagedRegion(t)))
<1>1. \A h : findRoute(s, h) = findRoute(t, h) /\ (HasHost(s, h) <=> HasHost(t, h))
  BY SameFind
<1>2. PersistHosts(s) = PersistHosts(t)
  BY <1>1 DEF PersistHosts, Same
<1>3. PersistBlocked(s) <=> PersistBlocked(t)
  BY <1>1, <1>2 DEF PersistBlocked, PersistInvalid, Same
<1>4. Same(mergeManagedRegion(s), mergeManagedRegion(t))
  BY <1>1, <1>2 DEF mergeManagedRegion, Same, EdgeState
<1>5. mergeManagedRegion(s) \in EdgeState /\ mergeManagedRegion(t) \in EdgeState
  BY MergeType
<1> QED
  BY <1>3, <1>4, <1>5 DEF Boot, Same, EdgeState

-----------------------------------------------------------------------------
(***************************************************************************)
(* What a step does to targets that stay clean.                            *)
(***************************************************************************)
\* An edge call without a fault fails because it must, or writes its change
\* and has the daemon load it where the driver does so.
LEMMA CallEdgeImage ==
    ASSUME TypeOK, NEW e \in Edges, NEW c \in EdgeChange, NEW failed \in BOOLEAN,
           CallEdge(e, c, failed), e \notin tainted'
    PROVE  /\ failed => edge'[e] = edge[e] /\ (edge[e].wedged \/ CannotRender(e, c))
           /\ ~ failed => /\ Same(edge'[e], Write(e, edge[e], c))
                          /\ SelfLoading(e) => edge'[e].loaded = RoutedHosts(edge'[e])
<1> DEFINE w == Write(e, edge[e], c)
           n == Nominal(e, edge[e], c)
<1>1. edge[e] \in EdgeState /\ w \in EdgeState
  BY WriteType DEF TypeOK
<1>2. edge'[e] = n.s /\ failed = n.err
  BY DEF CallEdge, TypeOK
<1>3. n = IF edge[e].wedged \/ CannotRender(e, c) THEN [s |-> edge[e], err |-> TRUE]
          ELSE [s |-> IF SelfLoading(e) THEN Load(e, w) ELSE w, err |-> FALSE]
  BY DEF Nominal
<1>4. /\ Same(Load(e, w), w)
      /\ SelfLoading(e) => FileEdge(e)
      /\ FileEdge(e) => Load(e, w).loaded = RoutedHosts(w)
  <2> HIDE DEF w
  <2> QED
    BY <1>1, SameLoad DEF SelfLoading, FileEdge, AdminEdge
<1>5. Same(w, w) /\ RoutedHosts(Load(e, w)) = RoutedHosts(w)
  <2> HIDE DEF w
  <2> QED
    BY <1>4, SameFind DEF Same
<1> HIDE DEF w, n
<1> QED
  BY <1>2, <1>3, <1>4, <1>5 DEF w

\* Steps of the environment leave a clean edge as it is, or have its daemon
\* load its file.
LEMMA EnvironmentSame ==
    ASSUME TypeOK, Environment \/ UNCHANGED vars, NEW e \in Edges \ tainted'
    PROVE  /\ Same(edge'[e], edge[e])
           /\ edge'[e].loaded \in {edge[e].loaded, RoutedHosts(edge[e])}
<1>1. edge[e] \in EdgeState
  BY DEF TypeOK
<1>2. edge'[e] = edge[e] => Same(edge'[e], edge[e]) /\ edge'[e].loaded = edge[e].loaded
  BY DEF Same
<1>3. CASE Crash \/ OutOfBandZone \/ UNCHANGED vars
  BY <1>2, <1>3 DEF Crash, OutOfBandZone, vars, world
<1>4. CASE Wedge
  BY <1>2, <1>4 DEF Wedge, TypeOK
<1>5. CASE Restart \/ Recover
  BY <1>2, <1>5 DEF Restart, Recover, Reboot, TypeOK
<1>6. CASE OutOfBandEdge
  BY <1>2, <1>6 DEF OutOfBandEdge, TypeOK
<1>7. CASE DaemonReload
  <2>1. edge'[e] = edge[e] \/ (edge'[e] = Load(e, edge[e]) /\ FileEdge(e))
    BY <1>7 DEF DaemonReload, TypeOK
  <2> QED
    BY <1>1, <1>2, <2>1, SameLoad
<1> QED
  BY <1>3, <1>4, <1>5, <1>6, <1>7 DEF Environment

\* The stages a step of the invocation leads from and to.
LEMMA Stages ==
    ASSUME TypeOK, StepOrder, Next \/ UNCHANGED vars
    PROVE  \/ Begin \/ Resume
           \/ Plan
           \/ (Environment \/ UNCHANGED vars)
           \/ /\ UNCHANGED <<op, plan, pre>> /\ tainted \subseteq tainted'
              /\ \/ Gate /\ pc = "gate" /\ pc' \in {"confirm", "done"}
                 \/ Confirm /\ pc = "confirm" /\ pc' \in {"snapshot", "done"}
                 \/ Snapshot /\ pc = "snapshot" /\ pc' \in {"apply", "done"}
                 \/ ApplyStep /\ pc = "apply" /\ pc' = "apply"
                 \/ ApplyFails /\ pc = "apply" /\ pc' \in {"rollback", "done"}
                 \/ Verify /\ pc = "apply" /\ pc' \in {"persist", "rollback", "done"}
                 \/ RollbackStep /\ pc = "rollback" /\ pc' \in {"rollback", "done"}
                 \/ PersistStep /\ pc = "persist" /\ pc' \in {"persist", "done"}
<1> USE DEF Finish, history
<1>1. CASE Gate
  BY <1>1 DEF Gate
<1>2. CASE Confirm
  BY <1>2 DEF Confirm
<1>3. CASE Snapshot
  BY <1>3 DEF Snapshot
<1>4. CASE ApplyStep
  BY <1>4 DEF ApplyStep, Do, CallEdge, CallProvider
<1>5. CASE ApplyFails
  BY <1>5 DEF ApplyFails, StartRollback, Do, CallEdge, CallProvider
<1>6. CASE Verify
  BY <1>6 DEF Verify, StartRollback
<1>7. CASE RollbackStep
  BY <1>7 DEF RollbackStep, Undo, CallEdge, CallProvider
<1>8. CASE PersistStep
  BY <1>8 DEF PersistStep, Persist
<1> QED
  BY <1>1, <1>2, <1>3, <1>4, <1>5, <1>6, <1>7, <1>8 DEF Next, Crenel

-----------------------------------------------------------------------------
(***************************************************************************)
(* PlannedFrom and Reported.                                               *)
(***************************************************************************)
\* The plan stands until the next one is made.
LEMMA PlannedStep ==
    ASSUME TypeOK, StepOrder, PlannedFrom, [Next]_vars
    PROVE  PlannedFrom'
<1> USE DEF Finish
<1>1. CASE Begin \/ Resume
  <2>1. pc' = "plan" /\ outcome' = "none"
    BY <1>1 DEF Begin, Resume, Start
  <2> QED
    BY <2>1 DEF PlannedFrom, Drafted
<1>2. CASE Plan
  <2>1. CASE pc' = "done" /\ outcome' = "refused"
    BY <2>1 DEF PlannedFrom, Drafted
  <2>2. CASE ~ PlanRefuses(op) /\ plan' = Changes(op)
    <3>1. op' = op /\ pre' = [edge |-> edge, zone |-> zone]
      BY <1>2 DEF Plan
    <3>2. pre'.edge = edge /\ pre'.zone = zone
      BY <3>1
    <3>3. plan'.part = Participants(op)
      BY <2>2 DEF Changes
    <3>4. \A e \in Edges :
            plan'.ec[e] = IF e \notin Participants(op) THEN NoEdgeChange
                          ELSE IF op.verb = "rename" THEN RenamePlan(op, edge[e])
                          ELSE EdgePlan(op, e, edge[e])
      BY <2>2 DEF Changes
    <3>5. \A p \in Providers :
            plan'.dc[p] = IF op.verb = "rename" \/ PlanSkips(op, p) THEN NoDnsChange
                          ELSE Diff(op, p, zone[p][op.host])
      BY <2>2 DEF Changes
    <3>6. Participants(op) = IF op.verb = "rename" THEN {e \in Edges : HasHost(edge[e], op.old)}
                   ELSE {e \in Edges : edgeSelected(op, e) /\ roleFor(e, op.service) # "none"}
      BY DEF Participants
    <3>7. \A e \in Participants(op) : ~ edge[e].wedged
      BY <2>2, <3>6 DEF PlanRefuses
    <3>8. op.verb = "rename" =>
            /\ op.old # op.host
            /\ \A e \in Participants(op) : /\ ~ HasHost(edge[e], op.host)
                                           /\ findRoute(edge[e], op.old).auth # "detected"
      BY <2>2 DEF PlanRefuses
    <3>9. op.verb = "expose" =>
            \A p \in Providers : ~ PlanSkips(op, p) => ~ DiffRefuses(op, p, zone[p][op.host])
      BY <2>2 DEF PlanRefuses
    <3> QED
      BY <3>1, <3>2, <3>3, <3>4, <3>5, <3>6, <3>7, <3>8, <3>9 DEF PlannedFrom
  <2> QED
    BY <1>2, <2>1, <2>2 DEF Plan
<1>3. CASE Environment \/ UNCHANGED vars
  <2>1. /\ UNCHANGED <<op, plan, pre>>
        /\ UNCHANGED <<pc, outcome>> \/ (pc' = "crashed" /\ outcome' = "crashed")
    BY <1>3, EnvironmentQuiet DEF Quiet, txn
  <2> QED
    BY <2>1 DEF PlannedFrom, Drafted
<1>4. CASE /\ UNCHANGED <<op, plan, pre>>
           /\ pc \in {"gate", "confirm", "snapshot", "apply", "rollback", "persist"}
  BY <1>4 DEF PlannedFrom, Drafted
<1> QED
  BY <1>1, <1>2, <1>3, <1>4, Stages

\* The report is filled in by rollback and persist only.
LEMMA ReportedStep ==
    ASSUME TypeOK, StepOrder, PersistQueue, Reported, [Next]_vars
    PROVE  Reported'
<1> USE DEF Finish, report, Preparing
<1>0. pc \in {"gate", "confirm", "snapshot", "apply", "rollback", "persist"} => outcome = "none"
  BY DEF StepOrder, Running
<1>1. CASE Begin \/ Resume
  <2>1. pc' = "plan" /\ rbErr' = {} /\ warned' = {} /\ outcome' = "none"
    BY <1>1 DEF Begin, Resume, Start
  <2> QED
    BY <2>1 DEF Reported
<1>2. CASE Plan
  <2>1. /\ pc = "plan" /\ pc' \in {"gate", "done"} /\ UNCHANGED <<rbErr, warned>>
        /\ outcome' \in {outcome, "refused"} /\ outcome = "none"
    BY <1>2 DEF Plan, StepOrder, Running
  <2> QED
    BY <2>1 DEF Reported
<1>3. CASE Environment \/ UNCHANGED vars
  <2>1. /\ UNCHANGED <<op, plan, pre, todo, applied, rbErr, warned, unread>>
        /\ UNCHANGED <<pc, outcome>> \/ (pc' = "crashed" /\ outcome' = "crashed")
    BY <1>3, EnvironmentQuiet DEF Quiet, txn
  <2> QED
    BY <2>1 DEF Reported
<1>4. CASE (Gate \/ Confirm) /\ pc \in {"gate", "confirm"}
  <2>1. /\ UNCHANGED <<rbErr, warned>> /\ outcome = "none"
        /\ pc' \in {"confirm", "snapshot", "done"} /\ outcome' \in {"none", "noop", "refused", "declined"}
    BY <1>0, <1>4 DEF Gate, Confirm
  <2> QED
    BY <1>4, <2>1 DEF Reported
<1>5. CASE Snapshot
  <2>1. /\ UNCHANGED <<rbErr, warned>> /\ outcome = "none" /\ pc = "snapshot"
        /\ pc' \in {"apply", "done"} /\ outcome' \in {"none", "failed"}
    BY <1>0, <1>5 DEF Snapshot
  <2> QED
    BY <2>1 DEF Reported
<1>6. CASE ApplyStep
  <2>1. UNCHANGED <<rbErr, warned, outcome, pc>> /\ outcome = "none" /\ pc = "apply"
    BY <1>0, <1>6 DEF ApplyStep
  <2> QED
    BY <2>1 DEF Reported
<1>7. CASE ApplyFails \/ Verify
  <2>1. /\ UNCHANGED <<rbErr, warned, applied, plan>> /\ outcome = "none" /\ pc = "apply"
        /\ pc' \in {"rollback", "done", "persist"} /\ outcome' \in {"none", "failed"}
        /\ pc' = "rollback" => todo' = todo
        /\ pc' = "persist" => todo' = plan.part /\ outcome' = "none"
    BY <1>0, <1>7 DEF ApplyFails, Verify, StartRollback
  <2>2. todo = Steps(plan) \ applied /\ warned = {}
    BY <2>1 DEF StepOrder, Reported
  <2> QED
    BY <2>1, <2>2 DEF Reported
<1>8. CASE RollbackStep
  <2>1. /\ UNCHANGED <<warned, plan, todo>> /\ outcome = "none" /\ pc = "rollback"
        /\ pc' \in {"rollback", "done"} /\ outcome' \in {"none", "failed"}
        /\ pc' = "done" <=> outcome' = "failed"
        /\ applied' \subseteq applied
    BY <1>0, <1>8 DEF RollbackStep
  <2> QED
    BY <2>1 DEF Reported
<1>9. CASE PersistStep
  <2>1. /\ UNCHANGED <<rbErr, plan>> /\ outcome = "none" /\ pc = "persist" /\ rbErr = {}
    BY <1>0, <1>9 DEF PersistStep, Reported
  <2>2. CASE todo = {} /\ pc' = "done" /\ outcome' = "applied" /\ UNCHANGED <<todo, warned>>
    BY <2>1, <2>2 DEF Reported
  <2>3. ASSUME NEW e \in todo, Persist(e), todo' = todo \ {e}, UNCHANGED <<pc, outcome>>
        PROVE  Reported'
    <3>1. /\ warned' \in {warned, warned \cup {e}}
          /\ EdgeKind[e] = "caddy" /\ ~ EmptyEdgeChange(plan.ec[e]) => e \in warned'
      BY <2>3 DEF Persist
    <3>2. e \in Steps(plan) /\ e \in Edges => ~ EmptyEdgeChange(plan.ec[e])
      BY TopologyAssumption DEF Steps
    <3>3. e \in plan.part /\ plan.part \subseteq Edges
      BY <2>1, <2>3 DEF PersistQueue, TypeOK, PlanType
    <3> QED
      BY <2>1, <2>3, <3>1, <3>2, <3>3 DEF Reported
  <2> QED
    BY <1>9, <2>2, <2>3 DEF PersistStep
<1> QED
  BY <1>1, <1>2, <1>3, <1>4, <1>5, <1>6, <1>7, <1>8, <1>9, Stages

-----------------------------------------------------------------------------
(***************************************************************************)
(* The image of an edge.                                                   *)
(***************************************************************************)
\* Nothing happens to the edge but a reload of its daemon.
LEMMA EdgeFrame ==
    ASSUME NEW e \in Edges, EdgeImage(e), Same(edge'[e], edge[e]),
           edge'[e].loaded \in {edge[e].loaded, RoutedHosts(edge[e])},
           UNCHANGED <<op, plan, pre, pc, outcome, todo, applied, warned>>,
           snap'[e] = snap[e]
    PROVE  EdgeImage(e)'
<1> DEFINE W == Wrote(e)
           U == Undone(e)
           F == Final(e)
           B == Boot(mergeManagedRegion(Final(e)))
           P == pre.edge[e]
<1>1. /\ Wrote(e)' = W /\ Undone(e)' = U /\ Final(e)' = F /\ pre'.edge[e] = P
      /\ Booted(e)' <=> Booted(e)
      /\ Preparing' <=> Preparing
  BY DEF Wrote, Undone, Final, Booted, Preparing
<1>2. \A u : Same(edge[e], u) => Same(edge'[e], u)
  BY SameTransitive
<1>3. RoutedHosts(edge'[e]) = RoutedHosts(edge[e])
  BY SameFind
<1> HIDE DEF W, U, F, P
<1>4. /\ pc = "idle" \/ Preparing \/ outcome \in {"refused", "noop", "declined"} => Same(edge[e], P)
      /\ pc \in {"apply", "rollback"} =>
          /\ Same(snap[e], P)
          /\ Same(edge[e], IF e \in applied THEN W ELSE IF e \in Steps(plan) \ todo THEN U ELSE P)
      /\ pc = "apply" /\ e \in applied /\ SelfLoading(e) => edge[e].loaded = RoutedHosts(edge[e])
      /\ outcome = "failed" /\ Rollback => \/ Same(edge[e], P)
                                           \/ e \in Steps(plan) /\ Same(edge[e], U)
      /\ pc = "persist" \/ outcome = "applied" =>
          IF Booted(e) THEN ~ PersistBlocked(F) /\ Same(edge[e], Boot(mergeManagedRegion(F)))
          ELSE Same(edge[e], F)
  BY DEF EdgeImage, W, U, F, P
<1>5. /\ pc = "idle" \/ Preparing \/ outcome \in {"refused", "noop", "declined"} => Same(edge'[e], P)
      /\ pc \in {"apply", "rollback"} =>
          /\ Same(snap[e], P)
          /\ Same(edge'[e], IF e \in applied THEN W ELSE IF e \in Steps(plan) \ todo THEN U ELSE P)
      /\ pc = "apply" /\ e \in applied /\ SelfLoading(e) => edge'[e].loaded = RoutedHosts(edge'[e])
      /\ outcome = "failed" /\ Rollback => \/ Same(edge'[e], P)
                                           \/ e \in Steps(plan) /\ Same(edge'[e], U)
      /\ pc = "persist" \/ outcome = "applied" =>
          IF Booted(e) THEN ~ PersistBlocked(F) /\ Same(edge'[e], Boot(mergeManagedRegion(F)))
          ELSE Same(edge'[e], F)
  BY <1>2, <1>3, <1>4
<1> QED
  BY <1>1, <1>5 DEF EdgeImage

\* The call of a step on a clean edge: it fails and leaves the edge alone, or
\* takes it to the image the plan promised.
LEMMA DoEdgeImage ==
    ASSUME TypeOK, StepOrder, pc = "apply", NEW e \in Edges \ tainted', EdgeImage(e), e \in todo,
           NEW failed \in BOOLEAN, Do(e, failed)
    PROVE  /\ failed => edge'[e] = edge[e] /\ (edge[e].wedged \/ CannotRender(e, plan.ec[e]))
           /\ ~ failed => /\ Same(edge'[e], Wrote(e))
                          /\ SelfLoading(e) => edge'[e].loaded = RoutedHosts(edge'[e])
<1>1. /\ plan.ec[e] \in EdgeChange /\ edge[e] \in EdgeState /\ pre.edge[e] \in EdgeState
  BY DEF TypeOK, PlanType, World
<1>2. CallEdge(e, plan.ec[e], failed)
  BY TopologyAssumption DEF Do
<1>3. Same(edge[e], pre.edge[e])
  BY DEF EdgeImage, StepOrder
<1>4. Same(Write(e, edge[e], plan.ec[e]), Wrote(e))
  BY <1>1, <1>3, SameWrite DEF Wrote
<1>5. /\ failed => edge'[e] = edge[e] /\ (edge[e].wedged \/ CannotRender(e, plan.ec[e]))
      /\ ~ failed => /\ Same(edge'[e], Write(e, edge[e], plan.ec[e]))
                     /\ SelfLoading(e) => edge'[e].loaded = RoutedHosts(edge'[e])
  BY <1>1, <1>2, CallEdgeImage
<1> QED
  BY <1>4, <1>5, SameTransitive

\* The compensator of a clean edge takes it from the one image to the other.
LEMMA UndoEdgeImage ==
    ASSUME TypeOK, pc = "rollback", NEW e \in Edges \ tainted', EdgeImage(e), e \in applied,
           Undo(e, FALSE)
    PROVE  Same(edge'[e], Undone(e))
<1> DEFINE c == invertEdge(plan.ec[e], snap[e])
           d == invertEdge(plan.ec[e], pre.edge[e])
<1>1. /\ plan.ec[e] \in EdgeChange /\ edge[e] \in EdgeState /\ pre.edge[e] \in EdgeState
      /\ snap[e] \in EdgeState
  BY DEF TypeOK, PlanType, World
<1>2. CallEdge(e, c, FALSE)
  BY TopologyAssumption DEF Undo
<1>3. Same(edge[e], Wrote(e)) /\ Same(snap[e], pre.edge[e])
  BY DEF EdgeImage
<1>4. c = d
  BY <1>3, SameFind
<1>5. c \in EdgeChange
  BY <1>1, InvertEdgeType
<1>6. Wrote(e) \in EdgeState
  BY <1>1, WriteType DEF Wrote
<1>7. Same(edge'[e], Write(e, edge[e], c))
  <2> HIDE DEF c
  <2> QED
    BY <1>2, <1>5, CallEdgeImage
<1>8. Same(Write(e, edge[e], c), Write(e, Wrote(e), c))
  BY <1>1, <1>3, <1>6, SameWrite
<1>9. Undone(e) = Write(e, Wrote(e), c)
  BY <1>4 DEF Undone
<1> QED
  BY <1>7, <1>8, <1>9, SameTransitive

\* Every step keeps a clean edge at one of its images.
LEMMA EdgeImageStep ==
    ASSUME TypeOK, PersistQueue, StepOrder, Gated, Reported, [Next]_vars,
           \A e \in Edges \ Suspect : EdgeImage(e), NEW e \in Edges \ Suspect'
    PROVE  EdgeImage(e)'
<1> USE DEF Finish
<1>0. pc \in {"gate", "confirm", "snapshot", "apply", "rollback", "persist"} => outcome = "none"
  BY DEF StepOrder, Running
<1>s. Same(edge[e], edge[e])
  BY DEF Same
<1>1. CASE Begin \/ Resume
  <2>1. /\ pc' = "plan" /\ outcome' = "none" /\ edge' = edge
        /\ pre' = [edge |-> edge, zone |-> zone]
    BY <1>1 DEF Begin, Resume, Start, world
  <2> QED
    BY <2>1, <1>s DEF EdgeImage
<1>2. CASE Plan
  <2>1. /\ pc' \in {"gate", "done"} /\ outcome' \in {outcome, "refused"} /\ outcome = "none"
        /\ pre' = [edge |-> edge, zone |-> zone] /\ edge' = edge
    BY <1>2 DEF Plan, StepOrder, Running, world
  <2> QED
    BY <2>1, <1>s DEF EdgeImage
<1>3. CASE Environment \/ UNCHANGED vars
  <2>1. /\ UNCHANGED <<op, plan, pre, snap, todo, applied, rbErr, warned, unread>>
        /\ UNCHANGED <<pc, outcome>> \/ (pc' = "crashed" /\ outcome' = "crashed")
        /\ tainted \subseteq tainted'
    BY <1>3, EnvironmentQuiet DEF Quiet, KeepsWorld, txn, report
  <2>2. e \notin Suspect /\ e \notin tainted'
    BY <2>1 DEF Suspect
  <2>3. CASE pc' = "crashed" /\ outcome' = "crashed"
    BY <2>3 DEF EdgeImage, Preparing
  <2>4. CASE UNCHANGED <<pc, outcome>>
    <3>1. /\ Same(edge'[e], edge[e])
          /\ edge'[e].loaded \in {edge[e].loaded, RoutedHosts(edge[e])}
      BY <1>3, <2>2, EnvironmentSame
    <3> QED
      BY <2>1, <2>2, <2>4, <3>1, EdgeFrame
  <2> QED
    BY <2>1, <2>3, <2>4
<1>4. CASE /\ UNCHANGED <<op, plan, pre>> /\ tainted \subseteq tainted'
           /\ \/ Gate /\ pc = "gate" /\ pc' \in {"confirm", "done"}
              \/ Confirm /\ pc = "confirm" /\ pc' \in {"snapshot", "done"}
              \/ Snapshot /\ pc = "snapshot" /\ pc' \in {"apply", "done"}
              \/ ApplyStep /\ pc = "apply" /\ pc' = "apply"
              \/ ApplyFails /\ pc = "apply" /\ pc' \in {"rollback", "done"}
              \/ Verify /\ pc = "apply" /\ pc' \in {"persist", "rollback", "done"}
              \/ RollbackStep /\ pc = "rollback" /\ pc' \in {"rollback", "done"}
              \/ PersistStep /\ pc = "persist" /\ pc' \in {"persist", "done"}
  <2>0. /\ Wrote(e)' = Wrote(e) /\ Undone(e)' = Undone(e) /\ Final(e)' = Final(e)
        /\ pre'.edge[e] = pre.edge[e] /\ Steps(plan') = Steps(plan)
    BY <1>4 DEF Wrote, Undone, Final
  <2>r. rbErr \subseteq rbErr'
    BY <1>4 DEF Gate, Confirm, Snapshot, ApplyStep, ApplyFails, Verify, RollbackStep, PersistStep,
                report
  <2>e. e \notin Suspect /\ e \notin tainted' /\ e \notin rbErr' /\ EdgeImage(e)
    BY <1>4, <2>r DEF Suspect
  <2>1. CASE (Gate \/ Confirm) /\ pc \in {"gate", "confirm"} /\ pc' \in {"confirm", "snapshot", "done"}
    <3>1. edge' = edge /\ outcome' \in {"none", "noop", "refused", "declined"}
      BY <1>0, <2>1 DEF Gate, Confirm, world
    <3>2. Same(edge[e], pre.edge[e])
      BY <2>1, <2>e DEF EdgeImage, Preparing
    <3> QED
      BY <2>0, <2>1, <3>1, <3>2 DEF EdgeImage
  <2>2. CASE Snapshot /\ pc = "snapshot" /\ pc' \in {"apply", "done"}
    <3>1. /\ edge' = edge /\ outcome' \in {"none", "failed"}
          /\ pc' = "apply" => snap' = edge /\ todo' = Steps(plan) /\ outcome' = "none"
          /\ applied' = {}
      BY <1>0, <2>2 DEF Snapshot, world, StepOrder, Preparing
    <3>2. Same(edge[e], pre.edge[e])
      BY <2>2, <2>e DEF EdgeImage, Preparing
    <3> QED
      BY <2>0, <2>2, <3>1, <3>2 DEF EdgeImage, Preparing
  <2>3. CASE ApplyStep /\ pc = "apply" /\ pc' = "apply"
    <3>1. PICK t \in todo : Do(t, FALSE) /\ todo' = todo \ {t} /\ applied' = applied \cup {t}
      BY <2>3 DEF ApplyStep
    <3>2. outcome' = "none" /\ snap' = snap /\ todo = Steps(plan) \ applied
      BY <1>0, <2>3 DEF ApplyStep, StepOrder
    <3>3. /\ Same(snap[e], pre.edge[e])
          /\ Same(edge[e], IF e \in applied THEN Wrote(e)
                           ELSE IF e \in Steps(plan) \ todo THEN Undone(e)
                           ELSE pre.edge[e])
          /\ e \in applied /\ SelfLoading(e) => edge[e].loaded = RoutedHosts(edge[e])
      BY <2>3, <2>e DEF EdgeImage
    <3>4. CASE e = t
      <4>1. Same(edge'[e], Wrote(e)) /\ (SelfLoading(e) => edge'[e].loaded = RoutedHosts(edge'[e]))
        BY <2>3, <2>e, <3>1, <3>4, DoEdgeImage
      <4> QED
        BY <2>0, <2>3, <3>1, <3>2, <3>3, <3>4, <4>1 DEF EdgeImage, Preparing
    <3>5. CASE e # t
      <4>1. edge'[e] = edge[e]
        BY <3>1, <3>2, <3>5, CallOthers
      <4> QED
        BY <2>0, <2>3, <3>1, <3>2, <3>3, <3>5, <4>1 DEF EdgeImage, Preparing
    <3> QED
      BY <3>4, <3>5
  <2>4. CASE ApplyFails /\ pc = "apply" /\ pc' \in {"rollback", "done"}
    <3>1. PICK t \in todo : Do(t, TRUE)
      BY <2>4 DEF ApplyFails
    <3>2. /\ outcome' \in {"none", "failed"} /\ UNCHANGED <<snap, todo, applied>>
          /\ todo = Steps(plan) \ applied
          /\ pc' = "rollback" => outcome' = "none"
          /\ pc' = "done" /\ Rollback => applied = {}
      BY <1>0, <2>4 DEF ApplyFails, StartRollback, StepOrder
    <3>3. /\ Same(snap[e], pre.edge[e])
          /\ Same(edge[e], IF e \in applied THEN Wrote(e)
                           ELSE IF e \in Steps(plan) \ todo THEN Undone(e)
                           ELSE pre.edge[e])
      BY <2>4, <2>e DEF EdgeImage
    <3>4. edge'[e] = edge[e]
      <4>1. CASE e = t
        BY <2>4, <2>e, <3>1, <4>1, DoEdgeImage
      <4>2. CASE e # t
        BY <3>1, <3>2, <4>2, CallOthers
      <4> QED
        BY <4>1, <4>2
    <3> QED
      BY <2>0, <2>4, <3>2, <3>3, <3>4 DEF EdgeImage, Preparing
  <2>5. CASE Verify /\ pc = "apply" /\ pc' \in {"persist", "rollback", "done"}
    <3>1. /\ outcome' \in {"none", "failed"} /\ UNCHANGED <<snap, applied, edge>>
          /\ todo = {} /\ todo = Steps(plan) \ applied
          /\ pc' = "rollback" => outcome' = "none" /\ todo' = todo
          /\ pc' = "persist" => todo' = plan.part /\ outcome' = "none"
          /\ pc' = "done" /\ Rollback => applied = {}
      BY <1>0, <2>5 DEF Verify, StartRollback, StepOrder, world
    <3>2. /\ Same(snap[e], pre.edge[e])
          /\ Same(edge[e], IF e \in applied THEN Wrote(e)
                           ELSE IF e \in Steps(plan) \ todo THEN Undone(e)
                           ELSE pre.edge[e])
      BY <2>5, <2>e DEF EdgeImage
    <3>3. pc' = "persist" => ~ Booted(e)'
      BY <1>4, <3>1 DEF Booted
    <3>4. Same(edge[e], Final(e))
      BY <3>1, <3>2 DEF Final, StepOrder
    <3> QED
      BY <2>0, <2>5, <3>1, <3>2, <3>3, <3>4 DEF EdgeImage, Preparing
  <2>6. CASE RollbackStep /\ pc = "rollback" /\ pc' \in {"rollback", "done"}
    <3>0. PICK t \in applied :
            /\ applied' = applied \ {t}
            /\ \/ /\ t \in Edges /\ AdminEdge(t) /\ edge[t].wedged
                  /\ rbErr' = rbErr \cup {t} /\ UNCHANGED <<world, credit, tainted>>
               \/ Undo(t, TRUE) /\ rbErr' = rbErr \cup {t}
               \/ Undo(t, FALSE)
      BY <2>6 DEF RollbackStep
    <3>1. /\ outcome' \in {"none", "failed"} /\ UNCHANGED <<snap, todo>>
          /\ pc' = "rollback" => outcome' = "none"
          /\ pc' = "done" => applied' = {}
          /\ todo \cap applied = {} /\ applied \subseteq Steps(plan)
      BY <1>0, <2>6 DEF RollbackStep, StepOrder, Reported
    <3>2. /\ Same(snap[e], pre.edge[e])
          /\ Same(edge[e], IF e \in applied THEN Wrote(e)
                           ELSE IF e \in Steps(plan) \ todo THEN Undone(e)
                           ELSE pre.edge[e])
      BY <2>6, <2>e DEF EdgeImage
    <3>3. Same(edge'[e], IF e \in applied' THEN Wrote(e)
                         ELSE IF e \in Steps(plan) \ todo THEN Undone(e)
                         ELSE pre.edge[e])
      <4>1. CASE e = t
        <5>1. Undo(e, FALSE)
          BY <2>e, <3>0, <4>1
        <5>2. Same(edge'[e], Undone(e))
          BY <2>6, <2>e, <3>0, <4>1, <5>1, UndoEdgeImage
        <5> QED
          BY <3>0, <3>1, <4>1, <5>2
      <4>2. CASE e # t
        <5>1. CASE UNCHANGED world
          BY <3>0, <3>2, <4>2, <5>1 DEF world
        <5>2. ASSUME NEW failed \in BOOLEAN, Undo(t, failed) PROVE edge'[e] = edge[e]
          BY <3>0, <3>1, <4>2, <5>2, CallOthers
        <5>3. UNCHANGED world \/ edge'[e] = edge[e]
          BY <3>0, <5>2
        <5> QED
          BY <3>0, <3>2, <4>2, <5>1, <5>3
      <4> QED
        BY <4>1, <4>2
    <3> QED
      BY <2>0, <2>6, <3>1, <3>2, <3>3 DEF EdgeImage, Preparing
  <2>7. CASE PersistStep /\ pc = "persist" /\ pc' \in {"persist", "done"}
    <3>1. IF Booted(e) THEN ~ PersistBlocked(Final(e)) /\ Same(edge[e], Boot(mergeManagedRegion(Final(e))))
          ELSE Same(edge[e], Final(e))
      BY <2>7, <2>e DEF EdgeImage
    <3>2. IF Booted(e)'
          THEN ~ PersistBlocked(Final(e)) /\ Same(edge'[e], Boot(mergeManagedRegion(Final(e))))
          ELSE Same(edge'[e], Final(e))
      <4>1. CASE todo = {} /\ UNCHANGED <<edge, todo, warned>>
        <5>1. Booted(e)' <=> Booted(e)
          BY <1>4, <4>1 DEF Booted
        <5> QED
          BY <3>1, <4>1, <5>1
      <4>2. ASSUME NEW f \in todo, Persist(f), todo' = todo \ {f}, pc' = "persist"
            PROVE  IF Booted(e)'
                   THEN ~ PersistBlocked(Final(e)) /\ Same(edge'[e], Boot(mergeManagedRegion(Final(e))))
                   ELSE Same(edge'[e], Final(e))
        <5>0. f \in plan.part /\ f \in Edges
          BY <2>7, <4>2 DEF PersistQueue, TypeOK, PlanType
        <5>1. CASE f # e
          <6>1. edge'[e] = edge[e] /\ (e \in warned' <=> e \in warned)
            BY <4>2, <5>0, <5>1 DEF Persist, TypeOK
          <6>2. Booted(e)' <=> Booted(e)
            BY <1>4, <2>7, <4>2, <5>1, <6>1 DEF Booted
          <6> QED
            BY <3>1, <6>1, <6>2
        <5>2. CASE f = e
          <6>1. ~ Booted(e) /\ e \notin warned
            BY <2>7, <4>2, <5>2 DEF Booted, Reported
          <6>2. CASE EdgeKind[e] # "caddy_durable" /\ edge' = edge
            BY <3>1, <6>1, <6>2 DEF Booted
          <6>3. CASE e \in warned' /\ edge' = edge
            BY <3>1, <6>1, <6>3 DEF Booted
          <6>4. CASE /\ EdgeKind[e] = "caddy_durable" /\ ~ PersistBlocked(edge[e])
                     /\ edge' = [edge EXCEPT ![e] = Boot(mergeManagedRegion(@))]
                     /\ warned' = warned
            <7>1. Booted(e)'
              BY <1>4, <4>2, <5>0, <5>2, <6>1, <6>4 DEF Booted
            <7>2. edge[e] \in EdgeState /\ pre.edge[e] \in EdgeState /\ plan.ec[e] \in EdgeChange
              BY DEF TypeOK, PlanType, World
            <7>3. Final(e) \in EdgeState
              BY <7>2, WriteType DEF Final, Wrote
            <7>4. /\ PersistBlocked(edge[e]) <=> PersistBlocked(Final(e))
                  /\ Same(Boot(mergeManagedRegion(edge[e])), Boot(mergeManagedRegion(Final(e))))
              BY <3>1, <6>1, <7>2, <7>3, SamePersist
            <7>5. edge'[e] = Boot(mergeManagedRegion(edge[e]))
              BY <6>4 DEF TypeOK
            <7> QED
              BY <6>4, <7>1, <7>4, <7>5
          <6> QED
            BY <2>e, <4>2, <5>2, <6>2, <6>3, <6>4 DEF Persist
        <5> QED
          BY <5>1, <5>2
      <4> QED
        BY <2>7, <4>1, <4>2 DEF PersistStep
    <3>3. outcome' \in {"none", "applied"}
      BY <1>0, <2>7 DEF PersistStep
    <3> QED
      BY <2>0, <2>7, <3>2, <3>3 DEF EdgeImage, Preparing
  <2> QED
    BY <1>4, <2>1, <2>2, <2>3, <2>4, <2>5, <2>6, <2>7
<1> QED
  BY <1>1, <1>2, <1>3, <1>4, Stages

-----------------------------------------------------------------------------
(***************************************************************************)
(* The image of a DNS provider.                                            *)
(***************************************************************************)
\* A call of a clean provider fails because it must, or writes its change.
LEMMA CallProviderImage ==
    ASSUME TypeOK, NEW p \in Providers, NEW c, NEW failed \in BOOLEAN,
           CallProvider(p, c, failed), p \notin tainted'
    PROVE  /\ zone'[p] = [zone[p] EXCEPT ![op.host] = DnsNominal(p, zone[p][op.host], c).r]
           /\ failed = AddRefused(p, zone[p][op.host], c)
BY DEF CallProvider, DnsNominal, TypeOK

\* The plan adds a record or removes one, never both.
LEMMA PlannedRecord ==
    ASSUME PlannedFrom, Drafted, NEW p \in Providers
    PROVE  plan.dc[p].add = NoValue \/ plan.dc[p].remove = NoValue
<1>1. plan.dc[p] = IF op.verb = "rename" \/ PlanSkips(op, p) THEN NoDnsChange
                   ELSE Diff(op, p, pre.zone[p][op.host])
  BY DEF PlannedFrom
<1>2. \A r : Diff(op, p, r).add = NoValue \/ Diff(op, p, r).remove = NoValue
  BY DEF Diff, NoDnsChange
<1>3. NoDnsChange.add = NoValue
  BY DEF NoDnsChange
<1> QED
  BY <1>1, <1>2, <1>3

\* The call of a step on a clean provider.
LEMMA DoZoneImage ==
    ASSUME TypeOK, StepOrder, PlannedFrom, pc = "apply", NEW p \in Providers \ tainted',
           ZoneImage(p), p \in todo, NEW failed \in BOOLEAN, Do(p, failed)
    PROVE  /\ zone[p] = pre.zone[p]
           /\ failed => zone'[p] = zone[p] /\ AddRefused(p, zone[p][op.host], plan.dc[p])
           /\ ~ failed => zone'[p] = Named(p)
<1>1. CallProvider(p, plan.dc[p], failed)
  BY TopologyAssumption DEF Do
<1>2. zone[p] = pre.zone[p]
  BY DEF ZoneImage, StepOrder
<1>3. /\ zone'[p] = [zone[p] EXCEPT ![op.host] = DnsNominal(p, zone[p][op.host], plan.dc[p]).r]
      /\ failed = AddRefused(p, zone[p][op.host], plan.dc[p])
  BY <1>1, CallProviderImage
<1>4. failed => DnsNominal(p, zone[p][op.host], plan.dc[p]).r = zone[p][op.host]
  <2>1. Drafted
    BY DEF Drafted
  <2>2. plan.dc[p].add = NoValue \/ plan.dc[p].remove = NoValue
    BY <2>1, PlannedRecord
  <2> QED
    BY <1>3, <2>2 DEF AddRefused, DnsNominal, AfterRemove
<1>5. zone[p] \in [Hosts -> RecordOrNone]
  BY DEF TypeOK, Zone
<1>6. failed => zone'[p] = zone[p]
  BY <1>3, <1>4, <1>5
<1> QED
  BY <1>2, <1>3, <1>6 DEF Named

\* The compensator of a clean provider.
LEMMA UndoZoneImage ==
    ASSUME TypeOK, pc = "rollback", NEW p \in Providers \ tainted', ZoneImage(p), p \in applied,
           Undo(p, FALSE)
    PROVE  zone'[p] = Unnamed(p)
<1>1. CallProvider(p, invertDNS(plan.dc[p]), FALSE)
  BY TopologyAssumption DEF Undo
<1>2. zone[p] = Named(p)
  BY DEF ZoneImage
<1> QED
  BY <1>1, <1>2, CallProviderImage DEF Unnamed

\* Every step keeps a clean provider at one of its images.
LEMMA ZoneImageStep ==
    ASSUME TypeOK, PersistQueue, StepOrder, PlannedFrom, Reported, [Next]_vars,
           \A p \in Providers \ Suspect : ZoneImage(p), NEW p \in Providers \ Suspect'
    PROVE  ZoneImage(p)'
<1> USE DEF Finish
<1>0. pc \in {"gate", "confirm", "snapshot", "apply", "rollback", "persist"} => outcome = "none"
  BY DEF StepOrder, Running
<1>1. CASE Begin \/ Resume
  <2>1. /\ pc' = "plan" /\ outcome' = "none" /\ zone' = zone
        /\ pre' = [edge |-> edge, zone |-> zone]
    BY <1>1 DEF Begin, Resume, Start, world
  <2> QED
    BY <2>1 DEF ZoneImage
<1>2. CASE Plan
  <2>1. /\ pc' \in {"gate", "done"} /\ outcome' \in {outcome, "refused"} /\ outcome = "none"
        /\ pre' = [edge |-> edge, zone |-> zone] /\ zone' = zone
    BY <1>2 DEF Plan, StepOrder, Running, world
  <2> QED
    BY <2>1 DEF ZoneImage
<1>3. CASE Environment \/ UNCHANGED vars
  <2>1. /\ UNCHANGED <<op, plan, pre, todo, applied, rbErr>>
        /\ UNCHANGED <<pc, outcome>> \/ (pc' = "crashed" /\ outcome' = "crashed")
        /\ tainted \subseteq tainted'
        /\ \A q \in Providers \ tainted' : zone'[q] = zone[q]
    BY <1>3, EnvironmentQuiet DEF Quiet, KeepsWorld, txn, report
  <2>2. ZoneImage(p) /\ zone'[p] = zone[p]
    BY <2>1 DEF Suspect
  <2> QED
    BY <2>1, <2>2 DEF ZoneImage, Named, Unnamed, Preparing
<1>4. CASE /\ UNCHANGED <<op, plan, pre>> /\ tainted \subseteq tainted'
           /\ \/ Gate /\ pc = "gate" /\ pc' \in {"confirm", "done"}
              \/ Confirm /\ pc = "confirm" /\ pc' \in {"snapshot", "done"}
              \/ Snapshot /\ pc = "snapshot" /\ pc' \in {"apply", "done"}
              \/ ApplyStep /\ pc = "apply" /\ pc' = "apply"
              \/ ApplyFails /\ pc = "apply" /\ pc' \in {"rollback", "done"}
              \/ Verify /\ pc = "apply" /\ pc' \in {"persist", "rollback", "done"}
              \/ RollbackStep /\ pc = "rollback" /\ pc' \in {"rollback", "done"}
              \/ PersistStep /\ pc = "persist" /\ pc' \in {"persist", "done"}
  <2>0. /\ Named(p)' = Named(p) /\ Unnamed(p)' = Unnamed(p)
        /\ pre'.zone[p] = pre.zone[p] /\ Steps(plan') = Steps(plan)
    BY <1>4 DEF Named, Unnamed
  <2>r. rbErr \subseteq rbErr'
    BY <1>4 DEF Gate, Confirm, Snapshot, ApplyStep, ApplyFails, Verify, RollbackStep, PersistStep,
                report
  <2>e. p \notin Suspect /\ p \notin tainted' /\ p \notin rbErr' /\ ZoneImage(p)
    BY <1>4, <2>r DEF Suspect
  <2>1. CASE (Gate \/ Confirm) /\ pc \in {"gate", "confirm"} /\ pc' \in {"confirm", "snapshot", "done"}
    <3>1. zone' = zone /\ outcome' \in {"none", "noop", "refused", "declined"}
      BY <1>0, <2>1 DEF Gate, Confirm, world
    <3>2. zone[p] = pre.zone[p]
      BY <2>1, <2>e DEF ZoneImage, Preparing
    <3> QED
      BY <2>0, <2>1, <3>1, <3>2 DEF ZoneImage
  <2>2. CASE Snapshot /\ pc = "snapshot" /\ pc' \in {"apply", "done"}
    <3>1. /\ zone' = zone /\ outcome' \in {"none", "failed"}
          /\ pc' = "apply" => todo' = Steps(plan) /\ outcome' = "none"
          /\ applied' = {}
      BY <1>0, <2>2 DEF Snapshot, world, StepOrder, Preparing
    <3>2. zone[p] = pre.zone[p]
      BY <2>2, <2>e DEF ZoneImage, Preparing
    <3> QED
      BY <2>0, <2>2, <3>1, <3>2 DEF ZoneImage, Preparing
  <2>3. CASE ApplyStep /\ pc = "apply" /\ pc' = "apply"
    <3>1. PICK t \in todo : Do(t, FALSE) /\ todo' = todo \ {t} /\ applied' = applied \cup {t}
      BY <2>3 DEF ApplyStep
    <3>2. outcome' = "none" /\ todo = Steps(plan) \ applied
      BY <1>0, <2>3 DEF ApplyStep, StepOrder
    <3>3. zone[p] = IF p \in applied THEN Named(p)
                    ELSE IF p \in Steps(plan) \ todo THEN Unnamed(p)
                    ELSE pre.zone[p]
      BY <2>3, <2>e DEF ZoneImage
    <3>4. CASE p = t
      <4>1. zone'[p] = Named(p)
        BY <2>3, <2>e, <3>1, <3>4, DoZoneImage
      <4> QED
        BY <2>0, <2>3, <3>1, <3>2, <3>4, <4>1 DEF ZoneImage, Preparing
    <3>5. CASE p # t
      <4>1. zone'[p] = zone[p]
        BY <3>1, <3>2, <3>5, CallOthers
      <4> QED
        BY <2>0, <2>3, <3>1, <3>2, <3>3, <3>5, <4>1 DEF ZoneImage, Preparing
    <3> QED
      BY <3>4, <3>5
  <2>4. CASE ApplyFails /\ pc = "apply" /\ pc' \in {"rollback", "done"}
    <3>1. PICK t \in todo : Do(t, TRUE)
      BY <2>4 DEF ApplyFails
    <3>2. /\ outcome' \in {"none", "failed"} /\ UNCHANGED <<todo, applied>>
          /\ todo = Steps(plan) \ applied
          /\ pc' = "rollback" => outcome' = "none"
          /\ pc' = "done" /\ Rollback => applied = {}
      BY <1>0, <2>4 DEF ApplyFails, StartRollback, StepOrder
    <3>3. zone[p] = IF p \in applied THEN Named(p)
                    ELSE IF p \in Steps(plan) \ todo THEN Unnamed(p)
                    ELSE pre.zone[p]
      BY <2>4, <2>e DEF ZoneImage
    <3>4. zone'[p] = zone[p]
      <4>1. CASE p = t
        BY <2>4, <2>e, <3>1, <4>1, DoZoneImage
      <4>2. CASE p # t
        BY <3>1, <3>2, <4>2, CallOthers
      <4> QED
        BY <4>1, <4>2
    <3> QED
      BY <2>0, <2>4, <3>2, <3>3, <3>4 DEF ZoneImage, Preparing
  <2>5. CASE Verify /\ pc = "apply" /\ pc' \in {"persist", "rollback", "done"}
    <3>1. /\ outcome' \in {"none", "failed"} /\ UNCHANGED <<applied, zone>>
          /\ todo = {} /\ applied = Steps(plan)
          /\ pc' = "rollback" => outcome' = "none" /\ todo' = todo
          /\ pc' = "persist" => outcome' = "none"
          /\ pc' = "done" /\ Rollback => applied = {}
      BY <1>0, <2>5 DEF Verify, StartRollback, StepOrder, world
    <3>2. zone[p] = IF p \in applied THEN Named(p)
                    ELSE IF p \in Steps(plan) \ todo THEN Unnamed(p)
                    ELSE pre.zone[p]
      BY <2>5, <2>e DEF ZoneImage
    <3> QED
      BY <2>0, <2>5, <3>1, <3>2 DEF ZoneImage, Preparing
  <2>6. CASE RollbackStep /\ pc = "rollback" /\ pc' \in {"rollback", "done"}
    <3>0. PICK t \in applied :
            /\ applied' = applied \ {t}
            /\ \/ t \in Edges /\ UNCHANGED world
               \/ Undo(t, TRUE) /\ rbErr' = rbErr \cup {t}
               \/ Undo(t, FALSE)
      BY <2>6 DEF RollbackStep
    <3>1. /\ outcome' \in {"none", "failed"} /\ UNCHANGED <<snap, todo>>
          /\ pc' = "rollback" => outcome' = "none"
          /\ pc' = "done" => applied' = {}
          /\ todo \cap applied = {} /\ applied \subseteq Steps(plan)
      BY <1>0, <2>6 DEF RollbackStep, StepOrder, Reported
    <3>2. zone[p] = IF p \in applied THEN Named(p)
                    ELSE IF p \in Steps(plan) \ todo THEN Unnamed(p)
                    ELSE pre.zone[p]
      BY <2>6, <2>e DEF ZoneImage
    <3>3. zone'[p] = IF p \in applied' THEN Named(p)
                     ELSE IF p \in Steps(plan) \ todo THEN Unnamed(p)
                     ELSE pre.zone[p]
      <4>1. CASE p = t
        <5>1. Undo(p, FALSE)
          BY <2>e, <3>0, <4>1, TopologyAssumption
        <5>2. zone'[p] = Unnamed(p)
          BY <2>6, <2>e, <3>0, <4>1, <5>1, UndoZoneImage
        <5> QED
          BY <3>0, <3>1, <4>1, <5>2
      <4>2. CASE p # t
        <5>1. ASSUME NEW failed \in BOOLEAN, Undo(t, failed) PROVE zone'[p] = zone[p]
          BY <3>0, <3>1, <4>2, <5>1, CallOthers
        <5>2. zone'[p] = zone[p]
          BY <3>0, <5>1 DEF world
        <5> QED
          BY <3>0, <3>2, <4>2, <5>2
      <4> QED
        BY <4>1, <4>2
    <3> QED
      BY <2>0, <2>6, <3>1, <3>2, <3>3 DEF ZoneImage, Preparing
  <2>7. CASE PersistStep /\ pc = "persist" /\ pc' \in {"persist", "done"}
    <3>1. zone' = zone /\ outcome' \in {"none", "applied"}
      BY <1>0, <2>7 DEF PersistStep
    <3> QED
      BY <2>0, <2>7, <2>e, <3>1 DEF ZoneImage, Preparing
  <2> QED
    BY <1>4, <2>1, <2>2, <2>3, <2>4, <2>5, <2>6, <2>7
<1> QED
  BY <1>1, <1>2, <1>3, <1>4, Stages

-----------------------------------------------------------------------------
(***************************************************************************)
(* What was planned, and what is there once it was written.                *)
(***************************************************************************)
\* The change of a participating edge (Driver.Plan, planForward, PlanRename).
LEMMA PlannedEdge ==
    ASSUME TypeOK, PlannedFrom, Drafted, NEW e \in plan.part
    PROVE  LET c == plan.ec[e]
               q == pre.edge[e]
           IN  /\ \A h \in AddedHosts(c) :
                    /\ h = op.host /\ op.verb # "unexpose" /\ ~ HasHost(q, h)
                    /\ c.add[h] \in Route /\ c.add[h].auth # "detected"
               /\ \A h \in c.remove :
                    /\ h = OldHost /\ op.verb # "expose"
                    /\ h \notin AddedHosts(c) /\ HasHost(q, h)
               /\ op.verb = "expose" /\ ~ HasHost(q, op.host) => op.host \in AddedHosts(c)
               /\ op.verb = "unexpose" /\ HasHost(q, op.host) => op.host \in c.remove
               /\ op.verb = "rename" => op.old \in c.remove
<1> DEFINE c == plan.ec[e]
           q == pre.edge[e]
<1>1. /\ e \in Edges /\ q \in EdgeState /\ op.host \in Hosts /\ op.old \in Hosts
      /\ op.verb \in {"expose", "unexpose", "rename"} /\ op.auth \in {"none", "named"}
  BY DEF TypeOK, PlanType, World, Op
<1>2. CASE op.verb = "rename"
  <2>1. /\ c = RenamePlan(op, q) /\ HasHost(q, op.old) /\ ~ HasHost(q, op.host)
        /\ op.old # op.host /\ findRoute(q, op.old).auth # "detected"
    BY <1>1, <1>2 DEF PlannedFrom
  <2>2. findRoute(q, op.old) \in Route
    BY <1>1, <2>1, FindRouteType DEF HasHost
  <2>3. RenameRoute(op, q) \in Route /\ RenameRoute(op, q).auth # "detected"
    BY <2>1, <2>2 DEF RenameRoute, Route
  <2>4. /\ c.add = [NoRoutes EXCEPT ![op.host] = RenameRoute(op, q)] /\ c.remove = {op.old}
    BY <2>1 DEF RenamePlan
  <2>5. AddedHosts(c) \subseteq {op.host} /\ c.add[op.host] = RenameRoute(op, q)
    BY <1>1, <2>4 DEF AddedHosts, NoRoutes
  <2> HIDE DEF c, q
  <2> QED
    BY <1>2, <2>1, <2>3, <2>4, <2>5 DEF OldHost, c, q
<1>3. CASE op.verb # "rename"
  <2>1. c = EdgePlan(op, e, q)
    BY <1>1, <1>3 DEF PlannedFrom
  <2> DEFINE r == IF roleFor(e, op.service) = "terminal" THEN TerminalRoute(op) ELSE forwardRoute(e)
  <2>2. r \in Route /\ r.auth # "detected"
    BY <1>1 DEF TerminalRoute, forwardRoute, Route
  <2>3. CASE c = NoEdgeChange
    <3>1. AddedHosts(c) = {} /\ c.remove = {}
      BY <2>3 DEF AddedHosts, NoEdgeChange, NoRoutes
    <3>2. /\ op.verb = "expose" => HasHost(q, op.host)
          /\ op.verb = "unexpose" => ~ HasHost(q, op.host)
      <4>1. op.verb = "expose" /\ ~ HasHost(q, op.host) => FALSE
        <5>1. SUFFICES ASSUME op.verb = "expose", ~ HasHost(q, op.host) PROVE FALSE
          OBVIOUS
        <5>2. c = Add(op.host, r)
          BY <2>1, <5>1 DEF EdgePlan
        <5>3. c.add[op.host] = r
          BY <1>1, <5>2 DEF Add, NoRoutes
        <5>4. c.add[op.host] = NoRoute
          BY <1>1, <2>3 DEF NoEdgeChange, NoRoutes
        <5> QED
          BY <2>2, <5>3, <5>4, EdgeDriverAssumption
      <4>2. op.verb = "unexpose" /\ HasHost(q, op.host) => c.remove = {op.host}
        BY <2>1 DEF EdgePlan, Remove
      <4> QED
        BY <3>1, <4>1, <4>2
    <3> QED
      BY <1>1, <1>3, <3>1, <3>2
  <2>4. CASE op.verb = "expose" /\ ~ HasHost(q, op.host)
    <3>1. c = Add(op.host, r)
      BY <2>1, <2>4 DEF EdgePlan
    <3>2. c.add = [NoRoutes EXCEPT ![op.host] = r] /\ c.remove = {}
      BY <3>1 DEF Add
    <3> HIDE DEF r, c, q
    <3>3. AddedHosts(c) \subseteq {op.host} /\ c.add[op.host] = r
      BY <1>1, <3>2 DEF AddedHosts, NoRoutes
    <3>4. op.host \in AddedHosts(c)
      BY <1>1, <2>2, <3>3, EdgeDriverAssumption DEF AddedHosts
    <3> QED
      BY <2>2, <2>4, <3>2, <3>3, <3>4 DEF c, q
  <2>5. CASE op.verb = "unexpose" /\ HasHost(q, op.host)
    <3>1. c.add = NoRoutes /\ c.remove = {op.host}
      BY <2>1, <2>5 DEF EdgePlan, Remove
    <3>2. AddedHosts(c) = {}
      BY <3>1 DEF AddedHosts, NoRoutes
    <3> HIDE DEF c, q
    <3> QED
      BY <2>5, <3>1, <3>2 DEF OldHost, c, q
  <2> QED
    BY <1>1, <1>3, <2>1, <2>3, <2>4, <2>5 DEF EdgePlan
<1> QED
  BY <1>2, <1>3

\* The routes of a participating edge once its change is written.
LEMMA FinalRoutes ==
    ASSUME TypeOK, PlannedFrom, Drafted, NEW e \in plan.part
    PROVE  LET c == plan.ec[e]
               q == pre.edge[e]
               f == Final(e)
           IN  /\ f \in EdgeState
               /\ \A h \in AddedHosts(c) :
                    /\ findRoute(f, h) = Render(e, c.add[h]) /\ HasHost(f, h)
                    /\ findRoute(f, h).auth = c.add[h].auth
                    /\ findRoute(f, h).tls = (c.add[h].tls /\ AdminEdge(e))
               /\ \A h \in c.remove : HasHost(f, h) <=> f.other[h] # NoRoute
               /\ \A h \in c.remove : ~ UnmarkedRemoval => ~ HasHost(f, h)
               /\ \A h \in Hosts \ touchedHosts(c) : findRoute(f, h) = findRoute(q, h)
               /\ f.wedged = q.wedged /\ (q.deny => f.deny)
<1> DEFINE c == plan.ec[e]
           q == pre.edge[e]
           f == Final(e)
           w == Write(e, q, c)
<1>1. e \in Edges /\ q \in EdgeState /\ c \in EdgeChange
  BY DEF TypeOK, PlanType, World
<1>2. f = IF touchedHosts(c) = {} THEN q ELSE w
  BY <1>1, TopologyAssumption DEF Final, Steps, EmptyEdgeChange, Wrote
<1>3. w \in EdgeState /\ w.wedged = q.wedged /\ w.first = q.first /\ (q.deny => w.deny)
  <2>1. w \in EdgeState
    BY <1>1, WriteType
  <2> HIDE DEF q, c
  <2>2. w.wedged = q.wedged /\ w.first = q.first
    BY <1>1 DEF Write, EdgeState
  <2>3. w.deny = (q.deny \/ EdgeKind[e] = "nginx")
    BY <1>1 DEF Write, EdgeState
  <2> QED
    BY <2>1, <2>2, <2>3
<1>4. c.remove \subseteq Hosts /\ AddedHosts(c) \subseteq Hosts
  BY <1>1 DEF EdgeChange, AddedHosts
<1>5. ASSUME NEW h \in AddedHosts(c)
      PROVE  /\ findRoute(w, h) = Render(e, c.add[h]) /\ HasHost(w, h)
             /\ findRoute(w, h).auth = c.add[h].auth
             /\ findRoute(w, h).tls = (c.add[h].tls /\ AdminEdge(e))
  <2>1. h \in Hosts /\ c.add[h] # NoRoute /\ ~ HasHost(q, h) /\ c.add[h] \in Route
    BY <1>4, <1>5, PlannedEdge DEF AddedHosts
  <2>2. q.other[h] = NoRoute
    BY <2>1 DEF HasHost, findRoute, OrElse
  <2>3. /\ w.mine[h] = Render(e, c.add[h]) /\ w.mine[h] # NoRoute
        /\ w.other[h] = NoRoute
    BY <1>1, <2>1, <2>2, WriteEffect
  <2>4. findRoute(w, h) = Render(e, c.add[h]) /\ HasHost(w, h)
    <3> HIDE DEF w, c
    <3> QED
      BY <2>3 DEF HasHost, findRoute, OrElse
  <2>5. Render(e, c.add[h]).auth = c.add[h].auth
        /\ Render(e, c.add[h]).tls = (c.add[h].tls /\ AdminEdge(e))
    <3> HIDE DEF c
    <3> QED
      BY <2>1 DEF Render, Route
  <2> QED
    BY <2>4, <2>5
<1>6. ASSUME NEW h \in c.remove
      PROVE  /\ HasHost(w, h) <=> w.other[h] # NoRoute
             /\ ~ UnmarkedRemoval => ~ HasHost(w, h)
  <2>1. h \in Hosts /\ c.add[h] = NoRoute
    BY <1>4, <1>6, PlannedEdge DEF AddedHosts
  <2>2. w.mine[h] = NoRoute
    BY <1>1, <1>6, <2>1, WriteEffect
  <2>3. HasHost(w, h) <=> w.other[h] # NoRoute
    <3> HIDE DEF w
    <3> QED
      BY <2>2 DEF HasHost, findRoute, OrElse
  <2>4. w.other[h] = IF EdgeKind[e] = "caddy_durable" /\ q.mine[h] = NoRoute THEN NoRoute
                     ELSE q.other[h]
    BY <1>1, <1>6, <2>1 DEF Write, EdgeState
  <2>5. ~ UnmarkedRemoval => q.other[h] = NoRoute \/ (EdgeKind[e] = "caddy_durable" /\ q.mine[h] = NoRoute)
    BY <1>6 DEF UnmarkedRemoval
  <2> QED
    BY <2>3, <2>4, <2>5
<1>7. \A h \in Hosts \ touchedHosts(c) : findRoute(w, h) = findRoute(q, h)
  BY <1>1, WriteKeeps
<1>8. touchedHosts(c) = {} => AddedHosts(c) = {} /\ c.remove = {}
  BY DEF touchedHosts
<1> HIDE DEF w, f, q, c
<1>9. CASE touchedHosts(c) = {}
  BY <1>1, <1>2, <1>8, <1>9 DEF c, q, f
<1>10. CASE touchedHosts(c) # {}
  BY <1>2, <1>3, <1>5, <1>6, <1>7, <1>10 DEF c, q, f
<1> QED
  BY <1>9, <1>10

-----------------------------------------------------------------------------
(***************************************************************************)
(* The read-back of a transaction that nothing disturbed.                  *)
(***************************************************************************)
\* Every step was applied and every target is clean.
Landed ==
    /\ pc = "apply" /\ todo = {} /\ Suspect = {}
    /\ \A e \in Edges : EdgeImage(e)
    /\ \A p \in Providers : ZoneImage(p)

\* What an edge then looks like.
LEMMA LandedEdge ==
    ASSUME TypeOK, StepOrder, Landed, NEW e \in Edges
    PROVE  /\ Same(edge[e], Final(e))
           /\ ~ EmptyEdgeChange(plan.ec[e]) /\ SelfLoading(e) =>
                edge[e].loaded = RoutedHosts(edge[e])
<1>1. applied = Steps(plan)
  BY DEF Landed, StepOrder
<1>2. EdgeImage(e) /\ pc = "apply" /\ todo = {}
  BY DEF Landed
<1>3. ~ EmptyEdgeChange(plan.ec[e]) => e \in Steps(plan)
  BY DEF Steps
<1> QED
  BY <1>1, <1>2, <1>3 DEF EdgeImage, Final

\* An edge passes Engine.verify and gateRuntimeVerify unless one of the known
\* causes applies.
LEMMA EdgePasses ==
    ASSUME TypeOK, StepOrder, PlannedFrom, Landed, ~ ReadBackRefuses, NEW e \in plan.part
    PROVE  /\ VerifyEdge(op, e, edge[e], plan.ec[e])
           /\ AllowUnverified \/ ~ RuntimeUnconfirmed(op, e, edge[e], plan.ec[e])
<1> DEFINE c == plan.ec[e]
           q == pre.edge[e]
           s == edge[e]
           f == Final(e)
<1>0. Drafted /\ e \in Edges /\ op.verb \in {"expose", "unexpose", "rename"}
  BY DEF Drafted, Landed, TypeOK, PlanType, Op
<1>1. Same(s, f) /\ (touchedHosts(c) # {} /\ SelfLoading(e) => s.loaded = RoutedHosts(s))
  BY <1>0, LandedEdge DEF EmptyEdgeChange
<1>2. /\ \A h : findRoute(s, h) = findRoute(f, h) /\ (HasHost(s, h) <=> HasHost(f, h))
      /\ s.wedged = f.wedged /\ s.deny = f.deny
  BY <1>1, SameFind DEF Same
<1>3. /\ \A h \in AddedHosts(c) :
            /\ h = op.host /\ op.verb # "unexpose" /\ ~ HasHost(q, h)
            /\ c.add[h] \in Route /\ c.add[h].auth # "detected"
      /\ \A h \in c.remove : h = OldHost /\ op.verb # "expose" /\ h \notin AddedHosts(c)
      /\ op.verb = "expose" /\ ~ HasHost(q, op.host) => op.host \in AddedHosts(c)
      /\ op.verb = "unexpose" /\ HasHost(q, op.host) => op.host \in c.remove
  BY <1>0, PlannedEdge
<1>4. /\ \A h \in AddedHosts(c) :
            /\ HasHost(f, h)
            /\ findRoute(f, h).auth = c.add[h].auth
            /\ findRoute(f, h).tls = (c.add[h].tls /\ AdminEdge(e))
      /\ \A h \in c.remove : ~ HasHost(f, h)
      /\ \A h \in Hosts \ touchedHosts(c) : findRoute(f, h) = findRoute(q, h)
      /\ f.wedged = q.wedged /\ (q.deny => f.deny)
  <2>1. ~ UnmarkedRemoval
    BY DEF ReadBackRefuses
  <2> QED
    BY <1>0, <2>1, FinalRoutes
<1>5. ~ q.wedged /\ q.deny
  BY <1>0 DEF PlannedFrom, ReadBackRefuses, DenyMissing
<1>6. op.host \in Hosts /\ AddedHosts(c) \subseteq Hosts /\ c.remove \subseteq Hosts
  BY <1>0 DEF TypeOK, Op, AddedHosts, PlanType, EdgeChange
<1>7. FileEdge(e) => \A h \in AddedHosts(c) : ~ c.add[h].tls
  BY <1>0 DEF ReadBackRefuses, UnrenderedTLS
<1>8. /\ FileEdge(e) /\ ~ AllowUnverified => e \in Probed
      /\ op.verb = "rename" => ~ (EdgeKind[e] = "nginx" /\ e \in Probed)
  BY <1>0 DEF ReadBackRefuses, UnprobedDaemon, RenameReadBack
<1>9. FileEdge(e) /\ e \in Probed => SelfLoading(e) /\ EdgeKind[e] \in {"nginx", "traefik"}
  BY <1>0, EdgeDriverAssumption DEF SelfLoading
<1> HIDE DEF c, q, s, f
<1>10. op.verb = "expose" => Reachable(s, op.host)
  <2>1. CASE HasHost(q, op.host)
    <3>1. op.host \notin AddedHosts(c) /\ (op.verb = "expose" => op.host \notin c.remove)
      BY <1>3, <2>1
    <3> QED
      BY <1>2, <1>4, <1>5, <1>6, <2>1, <3>1 DEF Reachable, HasHost, touchedHosts
  <2>2. CASE ~ HasHost(q, op.host)
    BY <1>2, <1>3, <1>4, <1>5, <2>2 DEF Reachable
  <2> QED
    BY <2>1, <2>2
<1>11. op.verb = "unexpose" => ~ HasHost(s, op.host)
  <2>1. CASE HasHost(q, op.host)
    BY <1>2, <1>3, <1>4, <2>1
  <2>2. CASE ~ HasHost(q, op.host)
    <3>1. op.verb = "unexpose" => op.host \notin AddedHosts(c)
      BY <1>3
    <3>2. CASE op.host \in c.remove
      BY <1>2, <1>4, <3>2
    <3>3. CASE op.host \notin c.remove /\ op.verb = "unexpose"
      BY <1>2, <1>4, <1>6, <2>2, <3>1, <3>3 DEF HasHost, touchedHosts
    <3> QED
      BY <3>2, <3>3
  <2> QED
    BY <2>1, <2>2
<1>12. op.verb = "rename" => verifyEdgeRename(s, c)
  BY <1>2, <1>4, <1>5 DEF verifyEdgeRename, Reachable
<1>13. verifyEdgeAuth(s, c)
  BY <1>2, <1>4 DEF verifyEdgeAuth
<1>14. verifyEdgeForwardTLS(s, c)
  BY <1>2, <1>4, <1>7 DEF verifyEdgeForwardTLS, FileEdge
<1>15. FileEdge(e) => VerifyRuntime(op, e, s, c) # "failed"
  <2>1. ASSUME FileEdge(e), e \in Probed, NEW h \in touchedHosts(c)
        PROVE  \/ op.verb = "expose" /\ h \in s.loaded
               \/ op.verb = "unexpose" /\ h \notin s.loaded
               \/ /\ op.verb = "rename"
                  /\ EdgeKind[e] = "traefik" \/ h \notin s.loaded
    <3>1. s.loaded = RoutedHosts(s) /\ h \in Hosts
      BY <1>1, <1>6, <1>9, <2>1 DEF touchedHosts
    <3>2. CASE op.verb = "expose"
      <4>1. h = op.host
        BY <1>3, <2>1, <3>2 DEF touchedHosts
      <4> QED
        BY <1>10, <3>1, <3>2, <4>1 DEF Reachable, RoutedHosts
    <3>3. CASE op.verb = "unexpose"
      <4>1. h = op.host
        BY <1>3, <2>1, <3>3 DEF touchedHosts, OldHost
      <4> QED
        BY <1>11, <3>1, <3>3, <4>1 DEF RoutedHosts
    <3>4. CASE op.verb = "rename"
      BY <1>8, <1>9, <2>1, <3>4
    <3> QED
      BY <1>0, <3>2, <3>3, <3>4
  <2>2. e \in Probed /\ FileEdge(e) => VerifyRuntime(op, e, s, c) = "confirmed"
    BY <2>1 DEF VerifyRuntime
  <2>3. e \notin Probed => VerifyRuntime(op, e, s, c) = "unavailable"
    BY DEF VerifyRuntime
  <2> QED
    BY <2>2, <2>3
<1>16. VerifyEdge(op, e, s, c)
  BY <1>0, <1>2, <1>4, <1>5, <1>10, <1>11, <1>12, <1>13, <1>14, <1>15
  DEF VerifyEdge, verifyEdgeHost
<1>17. AllowUnverified \/ ~ RuntimeUnconfirmed(op, e, s, c)
  <2>1. e \in Probed => VerifyRuntime(op, e, s, c) # "unavailable"
    BY DEF VerifyRuntime
  <2> QED
    BY <1>8, <2>1 DEF RuntimeUnconfirmed
<1> QED
  BY <1>16, <1>17 DEF c, s

\* A clean call of a planned change never finds a record in its way.
LEMMA NeverRefused ==
    ASSUME TypeOK, PlannedFrom, Drafted, NEW p \in Providers
    PROVE  ~ AddRefused(p, pre.zone[p][op.host], plan.dc[p])
<1> DEFINE r == pre.zone[p][op.host]
           c == plan.dc[p]
<1>1. c = IF op.verb = "rename" \/ PlanSkips(op, p) THEN NoDnsChange ELSE Diff(op, p, r)
  BY DEF PlannedFrom
<1>2. op.verb = "expose" /\ ~ PlanSkips(op, p) => ~ DiffRefuses(op, p, r)
  BY DEF PlannedFrom
<1>3. NoDnsChange.add = NoValue
  BY DEF NoDnsChange
<1>4. op.verb # "expose" => Diff(op, p, r).add = NoValue
  BY DEF Diff, NoDnsChange
<1>5. Diff(op, p, r).add = NoValue \/ Diff(op, p, r).remove = NoValue
  BY DEF Diff, NoDnsChange
<1> HIDE DEF r, c
<1>6. ~ AddRefused(p, r, c)
  BY <1>1, <1>2, <1>3, <1>4, <1>5 DEF AddRefused, DiffRefuses
<1> QED
  BY <1>6 DEF r, c

\* A provider passes Engine.verify unless one of the known causes applies.
LEMMA ProviderPasses ==
    ASSUME TypeOK, StepOrder, PlannedFrom, Landed, ~ ReadBackRefuses, NEW p \in Providers
    PROVE  VerifyProvider(op, p, zone[p][op.host])
<1> SUFFICES ASSUME scopeSelected(op, p), dnsCoversHost(op, p)
             PROVE  verifyDNS(op, p, zone[p][op.host])
  BY DEF VerifyProvider
<1> DEFINE r == pre.zone[p][op.host]
           c == plan.dc[p]
           z == zone[p][op.host]
<1>0. Drafted /\ op.verb \in {"expose", "unexpose", "rename"} /\ op.host \in Hosts
  BY DEF Drafted, Landed, TypeOK, Op
<1>1. ~ PlanSkips(op, p) /\ op.verb # "rename"
  BY DEF PlanSkips, ReadBackRefuses, InternalAtPublic, RenameReadBack
<1>2. c = Diff(op, p, r)
  BY <1>0, <1>1 DEF PlannedFrom
<1>3. op.verb = "unexpose" /\ DnsKind[p] = "split" => r.value \in {NoValue, Target[p]}
  BY <1>1 DEF ReadBackRefuses, OtherAnswer
<1>4. ~ AddRefused(p, r, c)
  BY <1>0, NeverRefused
<1>5. z = IF c # NoDnsChange THEN DnsNominal(p, r, c).r ELSE r
  <2>1. applied = Steps(plan) /\ todo = {} /\ ZoneImage(p) /\ pc = "apply"
    BY DEF Landed, StepOrder
  <2>2. p \in Steps(plan) <=> c # NoDnsChange
    BY TopologyAssumption DEF Steps
  <2>3. zone[p] = IF p \in Steps(plan) THEN Named(p) ELSE pre.zone[p]
    BY <2>1 DEF ZoneImage
  <2>4. pre.zone[p] \in [Hosts -> RecordOrNone]
    BY DEF TypeOK, World, Zone
  <2>5. Named(p)[op.host] = DnsNominal(p, r, c).r
    BY <1>0, <2>4 DEF Named
  <2> QED
    BY <2>2, <2>3, <2>5
<1>6. /\ DnsKind[p] \in {"split", "cloudflare", "dnscontrol"} /\ NoValue # Target[p]
  BY DnsDriverAssumption
<1>7. r \in RecordOrNone
  BY <1>0 DEF TypeOK, World, Zone
<1> HIDE DEF r, c, z
<1>8. CASE op.verb = "expose"
  <2>1. CASE LiveValue(p, r) = Target[p]
    <3>1. c = NoDnsChange
      BY <1>2, <1>8, <2>1 DEF Diff
    <3> QED
      BY <1>5, <1>8, <2>1, <3>1 DEF verifyDNS, z
  <2>2. CASE LiveValue(p, r) # Target[p]
    <3>1. c = [add |-> Target[p], remove |-> NoValue]
      BY <1>2, <1>8, <2>2 DEF Diff
    <3>2. c.add = Target[p] /\ c # NoDnsChange
      BY <1>6, <3>1 DEF NoDnsChange
    <3>3. z = [value |-> Target[p], ours |-> TRUE]
      BY <1>4, <1>5, <1>6, <3>2 DEF DnsNominal
    <3>4. LiveValue(p, z) = Target[p]
      BY <3>3 DEF LiveValue
    <3> QED
      BY <1>8, <3>4 DEF verifyDNS, z
  <2> QED
    BY <2>1, <2>2
<1>9. CASE op.verb = "unexpose"
  <2>1. CASE c = NoDnsChange
    <3>1. LiveValue(p, r) = NoValue
      BY <1>2, <1>3, <1>6, <1>9, <2>1 DEF Diff, LiveValue, NoDnsChange
    <3> QED
      BY <1>5, <1>9, <2>1, <3>1 DEF verifyDNS, z
  <2>2. CASE c # NoDnsChange
    <3>1. /\ LiveValue(p, r) # NoValue /\ ~ (DnsKind[p] = "split" /\ r.value # Target[p])
          /\ c = [add    |-> NoValue,
                  remove |-> IF DnsKind[p] = "cloudflare" THEN r.value ELSE Target[p]]
      BY <1>2, <1>9, <2>2 DEF Diff
    <3>2. c.add = NoValue /\ c.remove # NoValue /\ (DnsKind[p] = "split" => r.value = c.remove)
          /\ (DnsKind[p] = "cloudflare" => r.ours)
      BY <1>6, <3>1 DEF LiveValue
    <3>3. z = NoRecord
      BY <1>5, <2>2, <3>2 DEF DnsNominal, AfterRemove
    <3>4. LiveValue(p, z) = NoValue
      BY <3>3 DEF LiveValue, NoRecord
    <3> QED
      BY <1>9, <3>4 DEF verifyDNS, z
  <2> QED
    BY <2>1, <2>2
<1> QED
  BY <1>0, <1>1, <1>8, <1>9

-----------------------------------------------------------------------------
(***************************************************************************)
(* VerifiedGone and Excused.                                               *)
(***************************************************************************)
\* Verify lets nothing through that a change was to remove.
LEMMA VerifiedGoneStep ==
    ASSUME TypeOK, PersistQueue, StepOrder, Gated, PlannedFrom, Reported, VerifiedGone, [Next]_vars,
           \A e \in Edges \ Suspect : EdgeImage(e)
    PROVE  VerifiedGone'
<1> USE DEF Finish
<1>0. pc \in {"gate", "confirm", "snapshot", "apply", "rollback", "persist"} => outcome = "none"
  BY DEF StepOrder, Running
<1>1. CASE Begin \/ Resume \/ Plan
  <2>1. pc' # "persist" /\ outcome' # "applied"
    BY <1>1 DEF Begin, Resume, Start, Plan, StepOrder, Running
  <2> QED
    BY <2>1 DEF VerifiedGone
<1>2. CASE /\ UNCHANGED <<op, plan, pre>> /\ Suspect \subseteq Suspect'
           /\ pc' = "persist" \/ outcome' = "applied" => pc = "persist" \/ outcome = "applied"
  BY <1>2 DEF VerifiedGone, Wrote
<1>3. CASE Environment \/ UNCHANGED vars
  <2>1. /\ UNCHANGED <<op, plan, pre, rbErr>> /\ tainted \subseteq tainted'
        /\ UNCHANGED <<pc, outcome>> \/ (pc' = "crashed" /\ outcome' = "crashed")
    BY <1>3, EnvironmentQuiet DEF Quiet, KeepsWorld, txn, report
  <2> QED
    BY <1>2, <2>1 DEF Suspect
<1>4. CASE /\ UNCHANGED <<op, plan, pre>> /\ tainted \subseteq tainted'
           /\ Gate \/ Confirm \/ Snapshot \/ ApplyStep \/ ApplyFails \/ RollbackStep \/ PersistStep
  <2>1. rbErr \subseteq rbErr'
    BY <1>4 DEF Gate, Confirm, Snapshot, ApplyStep, ApplyFails, RollbackStep, PersistStep, report
  <2>2. pc' = "persist" \/ outcome' = "applied" => pc = "persist"
    BY <1>0, <1>4 DEF Gate, Confirm, Snapshot, ApplyStep, ApplyFails, StartRollback, RollbackStep,
                      PersistStep
  <2> QED
    BY <1>2, <1>4, <2>1, <2>2 DEF Suspect
<1>5. CASE Verify /\ UNCHANGED <<op, plan, pre>>
  <2>1. /\ UNCHANGED <<tainted, rbErr, edge>> /\ pc = "apply" /\ todo = {} /\ outcome' # "applied"
        /\ pc' = "persist" => ReadBackOK
    BY <1>0, <1>5 DEF Verify, StartRollback, world, history
  <2>2. SUFFICES ASSUME ReadBackOK, NEW e \in plan.part \ Suspect, NEW h \in plan.ec[e].remove
                 PROVE  ~ HasHost(Wrote(e), h)
    BY <1>5, <2>1 DEF VerifiedGone, Suspect, Wrote
  <2>3. e \in Edges /\ Drafted /\ VerifyEdge(op, e, edge[e], plan.ec[e])
    BY <2>1, <2>2 DEF ReadBackOK, TypeOK, PlanType, Drafted
  <2>4. ~ HasHost(edge[e], h)
    <3>1. h = OldHost /\ op.verb # "expose"
      BY <2>2, <2>3, PlannedEdge
    <3> QED
      BY <2>2, <2>3, <3>1 DEF VerifyEdge, verifyEdgeRename, verifyEdgeHost, OldHost
  <2>5. e \in Steps(plan)
    BY <2>2, <2>3 DEF Steps, EmptyEdgeChange, touchedHosts
  <2>6. Same(edge[e], Wrote(e))
    BY <2>1, <2>2, <2>3, <2>5 DEF EdgeImage, StepOrder
  <2> QED
    BY <2>4, <2>6, SameFind
<1> QED
  BY <1>1, <1>3, <1>4, <1>5, Stages

\* Nothing but the known causes turns an undisturbed transaction back.
LEMMA ExcusedStep ==
    ASSUME TypeOK, PersistQueue, StepOrder, Gated, PlannedFrom, Reported, Excused, [Next]_vars,
           \A e \in Edges \ Suspect : EdgeImage(e), \A p \in Providers \ Suspect : ZoneImage(p)
    PROVE  Excused'
<1> USE DEF Finish
<1>0. pc \in {"gate", "confirm", "snapshot", "apply", "rollback", "persist"} => outcome = "none"
  BY DEF StepOrder, Running
<1>1. CASE Begin \/ Resume \/ Plan
  <2>1. pc' # "rollback" /\ outcome' # "failed"
    BY <1>1 DEF Begin, Resume, Start, Plan, StepOrder, Running
  <2> QED
    BY <2>1 DEF Excused
<1>u. UNCHANGED <<op, plan, pre>> => (ReadBackRefuses' <=> ReadBackRefuses)
  BY DEF ReadBackRefuses, DenyMissing, UnmarkedRemoval, UnrenderedTLS, UnprobedDaemon, OtherAnswer,
         InternalAtPublic, RenameReadBack
<1>2. CASE /\ UNCHANGED <<op, plan, pre, unread>> /\ tainted \subseteq tainted'
           /\ pc' = "rollback" \/ outcome' = "failed" => pc = "rollback" \/ outcome = "failed"
  BY <1>2, <1>u DEF Excused
<1>3. CASE Environment \/ UNCHANGED vars
  <2>1. /\ UNCHANGED <<op, plan, pre, unread>> /\ tainted \subseteq tainted'
        /\ UNCHANGED <<pc, outcome>> \/ (pc' = "crashed" /\ outcome' = "crashed")
    BY <1>3, EnvironmentQuiet DEF Quiet, KeepsWorld, txn, report
  <2> QED
    BY <1>2, <2>1
<1>4. CASE /\ UNCHANGED <<op, plan, pre>> /\ tainted \subseteq tainted'
           /\ Gate \/ Confirm \/ ApplyStep \/ RollbackStep \/ PersistStep
  <2>1. /\ UNCHANGED unread
        /\ pc' = "rollback" \/ outcome' = "failed" => pc = "rollback"
    BY <1>0, <1>4 DEF Gate, Confirm, ApplyStep, RollbackStep, PersistStep, report
  <2> QED
    BY <1>2, <1>4, <2>1
<1>5. CASE /\ UNCHANGED <<op, plan, pre>> /\ tainted \subseteq tainted'
           /\ Snapshot \/ ApplyFails \/ Verify
  <2>0. pc \in {"snapshot", "apply"} /\ rbErr = {} /\ Drafted
    BY <1>0, <1>5 DEF Snapshot, ApplyFails, Verify, Reported, Drafted
  <2> SUFFICES ASSUME tainted' = {}, ~ unread', pc' = "rollback" \/ outcome' = "failed",
                      ~ ReadBackRefuses
               PROVE  FALSE
    BY <1>5, <1>u DEF Excused
  <2>1. /\ Suspect = {} /\ \A e \in Edges : EdgeImage(e) /\ \A p \in Providers : ZoneImage(p)
    BY <1>5, <2>0 DEF Suspect
  <2>2. \A e \in plan.part : e \in Edges /\ ~ pre.edge[e].wedged
    BY <2>0 DEF PlannedFrom, TypeOK, PlanType
  <2>3. CASE Snapshot
    <3>1. PICK e \in plan.part : edge[e].wedged
      BY <1>0, <2>3 DEF Snapshot
    <3>2. Same(edge[e], pre.edge[e])
      BY <2>1, <2>2, <2>3 DEF EdgeImage, Preparing, Snapshot
    <3> QED
      BY <2>2, <3>1, <3>2 DEF Same
  <2>4. CASE ApplyFails
    <3>1. PICK t \in todo : Do(t, TRUE)
      BY <2>4 DEF ApplyFails
    <3>2. pc = "apply" /\ t \in Steps(plan) \ applied /\ t \notin tainted'
      BY <2>4, <3>1 DEF ApplyFails, StepOrder
    <3>3. CASE t \in Edges
      <4>1. edge[t].wedged \/ CannotRender(t, plan.ec[t])
        BY <2>1, <3>1, <3>2, <3>3, DoEdgeImage
      <4>2. Same(edge[t], pre.edge[t])
        BY <2>1, <3>1, <3>2, <3>3 DEF EdgeImage
      <4>3. t \in plan.part
        BY <3>2, <3>3, TopologyAssumption DEF Gated, Steps
      <4>4. ~ edge[t].wedged
        BY <2>2, <4>2, <4>3 DEF Same
      <4>5. \A h \in AddedHosts(plan.ec[t]) : plan.ec[t].add[h].auth # "detected"
        BY <2>0, <4>3, PlannedEdge
      <4> QED
        BY <4>1, <4>4, <4>5 DEF CannotRender
    <3>4. CASE t \in Providers
      <4>1. zone[t] = pre.zone[t] /\ AddRefused(t, zone[t][op.host], plan.dc[t])
        BY <2>1, <3>1, <3>2, <3>4, DoZoneImage
      <4> QED
        BY <2>0, <3>4, <4>1, NeverRefused
    <3> QED
      BY <3>3, <3>4, <3>2, StepsType DEF Targets
  <2>5. CASE Verify
    <3>1. Landed
      BY <2>1, <2>5 DEF Landed, Verify
    <3>2. ReadBackOK /\ (AllowUnverified \/ RuntimeConfirmed)
      BY <3>1, EdgePasses, ProviderPasses DEF ReadBackOK, RuntimeConfirmed
    <3> QED
      BY <1>0, <2>5, <3>2 DEF Verify
  <2> QED
    BY <1>5, <2>3, <2>4, <2>5
<1> QED
  BY <1>1, <1>3, <1>4, <1>5, Stages

-----------------------------------------------------------------------------
\* The world is its own image before anything was planned.
LEMMA InitImage == Init => ImageInv
<1> SUFFICES ASSUME Init PROVE ImageInv
  OBVIOUS
<1>1. TransactionInv
  BY InitInv
<1>2. /\ pc = "idle" /\ outcome = "none" /\ pre = [edge |-> edge, zone |-> zone]
      /\ rbErr = {} /\ warned = {}
  BY DEF Init
<1>3. PlannedFrom /\ VerifiedGone /\ Excused
  BY <1>2 DEF PlannedFrom, Drafted, VerifiedGone, Excused
<1>4. Reported
  BY <1>2 DEF Reported, Preparing
<1>5. \A e \in Edges : EdgeImage(e)
  BY <1>2 DEF EdgeImage, Same
<1>6. \A p \in Providers : ZoneImage(p)
  BY <1>2 DEF ZoneImage
<1> QED
  BY <1>1, <1>3, <1>4, <1>5, <1>6 DEF ImageInv

\* Every step keeps the images.
LEMMA StepImage == ImageInv /\ [Next]_vars => ImageInv'
<1> SUFFICES ASSUME ImageInv, [Next]_vars PROVE ImageInv'
  OBVIOUS
<1>1. /\ TransactionInv /\ TypeOK /\ PersistQueue /\ StepOrder /\ Gated
      /\ PlannedFrom /\ Reported /\ VerifiedGone /\ Excused
      /\ \A e \in Edges \ Suspect : EdgeImage(e)
      /\ \A p \in Providers \ Suspect : ZoneImage(p)
  BY DEF ImageInv, TransactionInv
<1>2. TransactionInv'
  BY <1>1, StepInv
<1>3. PlannedFrom' /\ Reported'
  BY <1>1, PlannedStep, ReportedStep
<1>4. \A e \in Edges \ Suspect' : EdgeImage(e)'
  BY <1>1, EdgeImageStep
<1>5. \A p \in Providers \ Suspect' : ZoneImage(p)'
  BY <1>1, ZoneImageStep
<1>6. VerifiedGone'
  BY <1>1, VerifiedGoneStep
<1>7. Excused'
  BY <1>1, ExcusedStep
<1> QED
  BY <1>2, <1>3, <1>4, <1>5, <1>6, <1>7 DEF ImageInv

(***************************************************************************)
(* Every target that no fault touched is, at every moment of every         *)
(* behaviour, at the image of the planned-from world that the step the     *)
(* transaction has reached calls for.                                      *)
(***************************************************************************)
THEOREM ImagesHold == Spec => []ImageInv
  BY InitImage, StepImage, PTL DEF Spec

(***************************************************************************)
(* Plan and read-back agree, for every wiring: an undisturbed transaction  *)
(* is turned back only for one of the causes in ReadBackRefuses.           *)
(***************************************************************************)
THEOREM CleanRunsLand == Spec => []CleanRunLands
<1>1. ImageInv => CleanRunLands
  BY DEF ImageInv, Excused, CleanRunLands
<1> QED
  BY <1>1, ImagesHold, PTL

-----------------------------------------------------------------------------
(***************************************************************************)
(* What a rolled-back transaction leaves.                                  *)
(***************************************************************************)
\* invertEdge after its change: the same hosts are routed as before, through
\* marked routes where no unmarked one was removed.
LEMMA UndoneRoutes ==
    ASSUME TypeOK, PlannedFrom, Drafted, NEW e \in plan.part
    PROVE  /\ RoutedHosts(Undone(e)) = RoutedHosts(pre.edge[e])
           /\ RemovesUnmarked(e) \/ MarkedHostsOf(Undone(e)) = MarkedHostsOf(pre.edge[e])
<1> DEFINE c == plan.ec[e]
           q == pre.edge[e]
           w == Write(e, q, c)
           d == invertEdge(c, q)
           u == Write(e, w, d)
<1>1. e \in Edges /\ q \in EdgeState /\ c \in EdgeChange
  BY DEF TypeOK, PlanType, World
<1>2. w \in EdgeState /\ d \in EdgeChange
  BY <1>1, WriteType, InvertEdgeType
<1>3. u = Undone(e)
  BY DEF Undone, Wrote
<1>4. /\ \A h \in AddedHosts(c) : ~ HasHost(q, h)
      /\ \A h \in c.remove : h \notin AddedHosts(c) /\ HasHost(q, h)
  BY PlannedEdge
<1>5. /\ d.remove = AddedHosts(c)
      /\ \A h \in Hosts : d.add[h] = IF h \in c.remove THEN findRoute(q, h) ELSE NoRoute
  BY DEF invertEdge
<1>6. \A h \in Hosts : h \in AddedHosts(c) <=> c.add[h] # NoRoute
  BY DEF AddedHosts
<1>7. /\ w.first = q.first
      /\ \A h \in Hosts :
            /\ w.mine[h] = IF c.add[h] # NoRoute THEN Render(e, c.add[h])
                           ELSE IF h \in c.remove THEN NoRoute
                           ELSE q.mine[h]
            /\ w.other[h] \in {NoRoute, q.other[h]}
            /\ h \notin c.remove => w.other[h] = q.other[h]
  BY <1>1, WriteEffect
<1> HIDE DEF c, q, w, d
<1>8. /\ u.first = w.first
      /\ \A h \in Hosts :
            /\ u.mine[h] = IF d.add[h] # NoRoute THEN Render(e, d.add[h])
                           ELSE IF h \in d.remove THEN NoRoute
                           ELSE w.mine[h]
            /\ u.other[h] \in {NoRoute, w.other[h]}
            /\ h \notin d.remove => u.other[h] = w.other[h]
            /\ d.add[h] # NoRoute => u.mine[h] # NoRoute
  BY <1>1, <1>2, WriteEffect
<1> HIDE DEF u
<1>9. ASSUME NEW h \in Hosts
      PROVE  /\ HasHost(u, h) <=> HasHost(q, h)
             /\ RemovesUnmarked(e) \/ (u.mine[h] # NoRoute <=> q.mine[h] # NoRoute)
  <2>1. CASE h \in c.remove
    <3>1. HasHost(q, h) /\ d.add[h] # NoRoute /\ u.mine[h] # NoRoute
      BY <1>4, <1>5, <1>8, <2>1 DEF HasHost
    <3>2. HasHost(u, h)
      BY <3>1 DEF HasHost, findRoute, OrElse
    <3>3. q.other[h] # NoRoute => RemovesUnmarked(e)
      BY <2>1 DEF RemovesUnmarked, c, q
    <3>4. q.other[h] = NoRoute => q.mine[h] # NoRoute
      BY <3>1 DEF HasHost, findRoute, OrElse
    <3> QED
      BY <3>1, <3>2, <3>3, <3>4
  <2>2. CASE h \in AddedHosts(c)
    <3>1. ~ HasHost(q, h) /\ h \notin c.remove /\ h \in d.remove /\ d.add[h] = NoRoute
      BY <1>4, <1>5, <2>2
    <3>2. q.mine[h] = NoRoute /\ q.other[h] = NoRoute
      BY <3>1 DEF HasHost, findRoute, OrElse
    <3>3. u.mine[h] = NoRoute /\ u.other[h] = NoRoute
      BY <1>7, <1>8, <3>1, <3>2
    <3> QED
      BY <3>1, <3>2, <3>3 DEF HasHost, findRoute, OrElse
  <2>3. CASE h \notin c.remove /\ h \notin AddedHosts(c)
    <3>1. u.mine[h] = q.mine[h] /\ u.other[h] = q.other[h]
      BY <1>5, <1>6, <1>7, <1>8, <2>3
    <3> QED
      BY <1>7, <1>8, <3>1 DEF HasHost, findRoute, OrElse
  <2> QED
    BY <2>1, <2>2, <2>3
<1>10. RoutedHosts(u) = RoutedHosts(q)
  BY <1>9 DEF RoutedHosts
<1>11. RemovesUnmarked(e) \/ MarkedHostsOf(u) = MarkedHostsOf(q)
  BY <1>9 DEF MarkedHostsOf
<1> QED
  BY <1>3, <1>10, <1>11 DEF q

\* invertDNS after its change: the record that was there, unless the change
\* updated one of another value.
LEMMA UnnamedRecord ==
    ASSUME TypeOK, PlannedFrom, Drafted, NEW p \in Providers, plan.dc[p] # NoDnsChange,
           pre.zone[p][op.host].value \in {NoValue, Target[p]}
    PROVE  /\ Unnamed(p)[op.host].value = pre.zone[p][op.host].value
           /\ OwnsAllLiveRecords(p) => Unnamed(p)[op.host].ours = pre.zone[p][op.host].ours
           /\ \A h \in Hosts \ {op.host} : Unnamed(p)[h] = pre.zone[p][h]
<1> DEFINE r == pre.zone[p][op.host]
           c == plan.dc[p]
           n == DnsNominal(p, r, c).r
           u == DnsNominal(p, n, invertDNS(c)).r
<1>0. /\ op.host \in Hosts /\ pre.zone[p] \in [Hosts -> RecordOrNone] /\ r \in RecordOrNone
      /\ op.verb \in {"expose", "unexpose", "rename"}
  BY DEF TypeOK, Op, World, Zone
<1>1. Named(p) = [pre.zone[p] EXCEPT ![op.host] = n] /\ Named(p)[op.host] = n
  BY <1>0 DEF Named
<1>2. Unnamed(p)[op.host] = u /\ \A h \in Hosts \ {op.host} : Unnamed(p)[h] = pre.zone[p][h]
  BY <1>0, <1>1 DEF Unnamed
<1>3. op.verb # "rename" /\ ~ PlanSkips(op, p) /\ c = Diff(op, p, r)
  BY DEF PlannedFrom
<1>4. op.verb = "expose" => ~ DiffRefuses(op, p, r)
  BY <1>3 DEF PlannedFrom
<1>5. ~ AddRefused(p, r, c)
  BY NeverRefused
<1>6. /\ DnsKind[p] \in {"split", "cloudflare", "dnscontrol"} /\ NoValue # Target[p]
      /\ NoValue \notin Values
  BY DnsDriverAssumption
<1>7. c # NoDnsChange /\ r.value \in {NoValue, Target[p]}
  OBVIOUS
<1> HIDE DEF r, c
<1>8. CASE op.verb = "expose"
  <2>1. LiveValue(p, r) # Target[p] /\ c = [add |-> Target[p], remove |-> NoValue]
    BY <1>3, <1>7, <1>8 DEF Diff
  <2>2. r.value = NoValue
    BY <1>4, <1>6, <1>7, <1>8, <2>1 DEF LiveValue, DiffRefuses
  <2>3. r = NoRecord
    BY <1>0, <1>6, <2>2 DEF RecordOrNone
  <2>4. n = [value |-> Target[p], ours |-> TRUE]
    BY <1>5, <1>6, <2>1 DEF DnsNominal
  <2>5. invertDNS(c) = [add |-> NoValue, remove |-> Target[p]]
    BY <2>1 DEF invertDNS
  <2> HIDE DEF n
  <2>6. u = NoRecord
    BY <1>6, <2>4, <2>5 DEF DnsNominal, AfterRemove
  <2> HIDE DEF u
  <2> QED
    BY <1>2, <2>3, <2>6 DEF r
<1>9. CASE op.verb = "unexpose"
  <2>1. /\ LiveValue(p, r) # NoValue /\ ~ (DnsKind[p] = "split" /\ r.value # Target[p])
        /\ c = [add    |-> NoValue,
                remove |-> IF DnsKind[p] = "cloudflare" THEN r.value ELSE Target[p]]
    BY <1>3, <1>7, <1>9 DEF Diff
  <2>2. r.value = Target[p] /\ (DnsKind[p] = "cloudflare" => r.ours)
    BY <1>7, <2>1 DEF LiveValue
  <2>3. c.add = NoValue /\ c.remove = Target[p]
    BY <2>1, <2>2
  <2>4. n = NoRecord
    BY <1>6, <2>2, <2>3 DEF DnsNominal, AfterRemove
  <2>5. invertDNS(c) = [add |-> Target[p], remove |-> NoValue]
    BY <2>3 DEF invertDNS
  <2> HIDE DEF n
  <2>6. u = [value |-> Target[p], ours |-> TRUE]
    BY <1>6, <2>4, <2>5 DEF DnsNominal, AddRefused, NoRecord
  <2>7. DnsKind[p] = "cloudflare" => r.ours = TRUE
    BY <1>0, <2>2 DEF RecordOrNone, NoRecord
  <2> HIDE DEF u
  <2>8. u.value = r.value /\ (OwnsAllLiveRecords(p) => u.ours = r.ours)
    BY <2>2, <2>6, <2>7 DEF OwnsAllLiveRecords
  <2> QED
    BY <1>2, <2>8 DEF r
<1> QED
  BY <1>0, <1>3, <1>8, <1>9

(***************************************************************************)
(* All or nothing, for every wiring: a failed transaction leaves the       *)
(* targets that no fault touched with the hosts, the markers and the       *)
(* records they had (rollback, invertEdge, invertDNS).                     *)
(***************************************************************************)
THEOREM FailureRestores == Spec => []RollbackRestores
<1>1. ImageInv => RollbackRestores
  <2> SUFFICES ASSUME ImageInv, pc = "done", outcome = "failed", Rollback
               PROVE  /\ \A e \in Edges \ Suspect :
                        /\ RoutedHosts(edge[e]) = RoutedHosts(pre.edge[e])
                        /\ RemovesUnmarked(e) \/ MarkedHostsOf(edge[e]) = MarkedHostsOf(pre.edge[e])
                      /\ \A p \in Providers \ Suspect :
                        pre.zone[p][op.host].value \in {NoValue, Target[p]} =>
                            \A h \in Hosts :
                                /\ zone[p][h].value = pre.zone[p][h].value
                                /\ OwnsAllLiveRecords(p) => zone[p][h].ours = pre.zone[p][h].ours
    BY DEF RollbackRestores
  <2>0. TypeOK /\ PlannedFrom /\ Drafted /\ Gated
    BY DEF ImageInv, TransactionInv, Drafted
  <2>1. ASSUME NEW e \in Edges \ Suspect
        PROVE  /\ RoutedHosts(edge[e]) = RoutedHosts(pre.edge[e])
               /\ RemovesUnmarked(e) \/ MarkedHostsOf(edge[e]) = MarkedHostsOf(pre.edge[e])
    <3>1. \/ Same(edge[e], pre.edge[e])
          \/ e \in Steps(plan) /\ Same(edge[e], Undone(e))
      BY <2>1 DEF ImageInv, EdgeImage
    <3>2. \A s : Same(edge[e], s) =>
            RoutedHosts(edge[e]) = RoutedHosts(s) /\ MarkedHostsOf(edge[e]) = MarkedHostsOf(s)
      BY SameFind DEF Same, MarkedHostsOf
    <3>3. e \in Steps(plan) => e \in plan.part
      BY <2>0, <2>1, TopologyAssumption DEF Gated, Steps
    <3>4. e \in Steps(plan) =>
            /\ RoutedHosts(Undone(e)) = RoutedHosts(pre.edge[e])
            /\ RemovesUnmarked(e) \/ MarkedHostsOf(Undone(e)) = MarkedHostsOf(pre.edge[e])
      BY <2>0, <3>3, UndoneRoutes
    <3> QED
      BY <3>1, <3>2, <3>4
  <2>2. ASSUME NEW p \in Providers \ Suspect, pre.zone[p][op.host].value \in {NoValue, Target[p]},
               NEW h \in Hosts
        PROVE  /\ zone[p][h].value = pre.zone[p][h].value
               /\ OwnsAllLiveRecords(p) => zone[p][h].ours = pre.zone[p][h].ours
    <3>1. zone[p] = pre.zone[p] \/ (p \in Steps(plan) /\ zone[p] = Unnamed(p))
      BY <2>2 DEF ImageInv, ZoneImage
    <3>2. p \in Steps(plan) => plan.dc[p] # NoDnsChange
      BY <2>2, TopologyAssumption DEF Steps
    <3>3. CASE zone[p] = Unnamed(p) /\ p \in Steps(plan)
      <4>1. CASE h = op.host
        BY <2>0, <2>2, <3>2, <3>3, <4>1, UnnamedRecord
      <4>2. CASE h # op.host
        BY <2>0, <2>2, <3>2, <3>3, <4>2, UnnamedRecord
      <4> QED
        BY <4>1, <4>2
    <3> QED
      BY <3>1, <3>3
  <2> QED
    BY <2>1, <2>2
<1> QED
  BY <1>1, ImagesHold, PTL

-----------------------------------------------------------------------------
(***************************************************************************)
(* What a verified transaction leaves.                                     *)
(***************************************************************************)
\* What the boot config routes after Persist: the hosts of the managed region
\* and what the operator's own part declares.
LEMMA BootRoutes ==
    ASSUME NEW f \in EdgeState, NEW s \in EdgeState, Same(s, Boot(mergeManagedRegion(f))), NEW h \in Hosts
    PROVE  findRoute(Boot(s), h) = IF h \in PersistHosts(f) THEN FileRoute(findRoute(f, h))
                                   ELSE IF h \in f.region THEN NoRoute
                                   ELSE f.disk[h]
<1> DEFINE m == mergeManagedRegion(f)
<1>1. m \in EdgeState
  BY MergeType
<1>2. m.disk[h] = IF h \in PersistHosts(f) THEN FileRoute(findRoute(f, h))
                  ELSE IF h \in f.region THEN NoRoute
                  ELSE f.disk[h]
  BY DEF mergeManagedRegion, EdgeState
<1> HIDE DEF m
<1>3. Boot(m).disk = m.disk /\ Boot(m) \in EdgeState
  BY <1>1, BootType DEF Boot, EdgeState
<1>4. s.disk = m.disk
  BY <1>3 DEF Same, m
<1>5. findRoute(Boot(s), h) = s.disk[h]
  <2>1. Boot(s).mine = NoRoutes /\ Boot(s).other = s.disk
    BY DEF Boot, EdgeState
  <2> QED
    BY <2>1 DEF findRoute, OrElse, NoRoutes
<1> QED
  BY <1>2, <1>4, <1>5

(***************************************************************************)
(* Durable or warned, for every wiring and every boot config: an applied   *)
(* change that drew no persist warning is what the edge boots with         *)
(* (persistEdges, Persist, mergeManagedRegion).                            *)
(***************************************************************************)
THEOREM AppliedIsDurable == Spec => []DurableOrWarned
<1>1. ImageInv => DurableOrWarned
  <2> SUFFICES ASSUME ImageInv, pc = "done", outcome = "applied",
                      NEW e \in plan.part \ (tainted \cup warned), NEW h \in Hosts,
                      AdminEdge(e), ~ EmptyEdgeChange(plan.ec[e])
               PROVE  LET boot == Boot(edge[e])
                          c    == plan.ec[e]
                          was  == pre.edge[e]
                      IN  /\ h \in AddedHosts(c) =>
                                /\ HasHost(boot, h)
                                /\ c.add[h].auth = "named" => findRoute(boot, h).auth # "none"
                          /\ /\ HasHost(was, h) /\ h \notin c.remove
                             /\ was.mine[h] # NoRoute \/ was.disk[h] # NoRoute
                             => HasHost(boot, h)
                          /\ HasHost(boot, h) =>
                                \/ h \in AddedHosts(c)
                                \/ OperatorDeclared(was, h)
                                \/ HasHost(was, h) /\ h \notin c.remove
    BY DEF DurableOrWarned
  <2> DEFINE boot == Boot(edge[e])
             c    == plan.ec[e]
             q    == pre.edge[e]
             f    == Final(e)
  <2>0. TypeOK /\ PlannedFrom /\ Drafted /\ Reported /\ VerifiedGone
    BY DEF ImageInv, TransactionInv, Drafted
  <2>1. /\ e \in Edges /\ e \in Steps(plan) /\ q \in EdgeState /\ c \in EdgeChange
        /\ edge[e] \in EdgeState
    BY <2>0 DEF TypeOK, PlanType, World, Steps
  <2>2. rbErr = {} /\ EdgeKind[e] # "caddy"
    BY <2>0, <2>1 DEF Reported
  <2>3. EdgeKind[e] = "caddy_durable"
    BY <2>2 DEF AdminEdge
  <2>4. e \notin Suspect /\ Booted(e)
    BY <2>2, <2>3 DEF Suspect, Booted
  <2>5. Same(edge[e], Boot(mergeManagedRegion(f)))
    BY <2>1, <2>4 DEF ImageInv, EdgeImage
  <2>6. /\ f \in EdgeState
        /\ \A g \in AddedHosts(c) : HasHost(f, g) /\ findRoute(f, g).auth = c.add[g].auth
        /\ \A g \in Hosts \ touchedHosts(c) : findRoute(f, g) = findRoute(q, g)
    BY <2>0, FinalRoutes
  <2>7. f = Write(e, q, c)
    BY <2>1 DEF Final, Wrote
  <2>8. /\ f.disk = q.disk /\ f.region = q.region
        /\ h \in AddedHosts(c) => f.mine[h] # NoRoute
        /\ h \notin touchedHosts(c) => f.mine[h] = q.mine[h]
    BY <2>1, <2>7, WriteEffect DEF AddedHosts, touchedHosts
  <2>9. findRoute(boot, h) = IF h \in PersistHosts(f) THEN FileRoute(findRoute(f, h))
                             ELSE IF h \in f.region THEN NoRoute
                             ELSE f.disk[h]
    <3> HIDE DEF f
    <3> QED
      BY <2>1, <2>5, <2>6, BootRoutes
  <2>10. h \in c.remove => ~ HasHost(f, h)
    BY <2>0, <2>1, <2>4, <2>7 DEF VerifiedGone, Wrote
  <2>11. \A g \in AddedHosts(c) : ~ HasHost(q, g)
    BY <2>0, PlannedEdge
  <2> HIDE DEF boot, c, q, f
  <2>12. HasHost(f, h) => /\ FileRoute(findRoute(f, h)) # NoRoute
                          /\ FileRoute(findRoute(f, h)).auth =
                                IF findRoute(f, h).auth = "none" THEN "none" ELSE "detected"
    <3>1. HasHost(f, h) => findRoute(f, h) \in Route
      BY <2>6, FindRouteType DEF HasHost
    <3>2. HasHost(f, h) => FileRoute(findRoute(f, h)) \in Route
      BY <3>1 DEF FileRoute, Route
    <3> QED
      BY <3>1, <3>2, EdgeDriverAssumption DEF FileRoute, Route
  <2>13. h \in PersistHosts(f) <=> HasHost(f, h) /\ (f.mine[h] # NoRoute \/ h \in f.region)
    BY DEF PersistHosts
  <2>14. h \in AddedHosts(c) =>
            /\ HasHost(boot, h)
            /\ c.add[h].auth = "named" => findRoute(boot, h).auth # "none"
    <3> SUFFICES ASSUME h \in AddedHosts(c)
                 PROVE  /\ HasHost(boot, h)
                        /\ c.add[h].auth = "named" => findRoute(boot, h).auth # "none"
      OBVIOUS
    <3>1. HasHost(f, h) /\ findRoute(f, h).auth = c.add[h].auth
      BY <2>6
    <3>2. h \in PersistHosts(f)
      BY <2>8, <2>13, <3>1
    <3>3. findRoute(boot, h) = FileRoute(findRoute(f, h))
      BY <2>9, <3>2
    <3> QED
      BY <2>12, <3>1, <3>3 DEF HasHost
  <2>15. ASSUME HasHost(q, h), h \notin c.remove, q.mine[h] # NoRoute \/ q.disk[h] # NoRoute
         PROVE  HasHost(boot, h)
    <3>1. h \notin touchedHosts(c)
      BY <2>11, <2>15 DEF touchedHosts
    <3>2. HasHost(f, h) /\ f.mine[h] = q.mine[h]
      BY <2>6, <2>8, <2>15, <3>1 DEF HasHost
    <3> QED
      BY <2>8, <2>9, <2>12, <2>13, <2>15, <3>2 DEF HasHost
  <2>16. ASSUME HasHost(boot, h)
         PROVE  \/ h \in AddedHosts(c)
                \/ OperatorDeclared(q, h)
                \/ HasHost(q, h) /\ h \notin c.remove
    <3>1. CASE h \in PersistHosts(f)
      <4>1. HasHost(f, h) /\ h \notin c.remove
        BY <2>10, <2>13, <3>1
      <4>2. h \notin AddedHosts(c) => HasHost(q, h)
        BY <2>6, <4>1 DEF HasHost, touchedHosts
      <4> QED
        BY <4>1, <4>2
    <3>2. CASE h \notin PersistHosts(f)
      BY <2>8, <2>9, <2>16, <3>2 DEF HasHost, OperatorDeclared
    <3> QED
      BY <3>1, <3>2
  <2> QED
    BY <2>14, <2>15, <2>16 DEF boot, c, q
<1> QED
  BY <1>1, ImagesHold, PTL

(***************************************************************************)
(* No host becomes public unseen, for every wiring: what an undisturbed    *)
(* transaction makes publicly reachable was in the preview the operator    *)
(* confirmed, or was announced before it (computeNewPublic).               *)
(***************************************************************************)
THEOREM NewPublicIsConfirmed == Spec => []GoingPublicIsPreviewed
<1>1. ImageInv => GoingPublicIsPreviewed
  <2> SUFFICES ASSUME ImageInv, outcome = "applied", tainted = {}, NEW h \in Hosts,
                      HasPublicName(zone, h), ~ HasPublicName(pre.zone, h)
               PROVE  h \in computeNewPublic(op, plan)
    BY DEF GoingPublicIsPreviewed, Public
  <2>0. TypeOK /\ PlannedFrom /\ Drafted /\ Reported
    BY DEF ImageInv, TransactionInv, Drafted
  <2>1. Suspect = {}
    <3>1. pc # "rollback"
      BY DEF ImageInv, TransactionInv, StepOrder, Running
    <3> QED
      BY <2>0, <3>1 DEF Reported, Suspect
  <2>2. PICK p \in Providers : Scope[p] = "public" /\ zone[p][h].value # NoValue
    BY DEF HasPublicName
  <2>3. pre.zone[p][h].value = NoValue
    BY <2>2 DEF HasPublicName
  <2>4. zone[p] = IF p \in Steps(plan) THEN Named(p) ELSE pre.zone[p]
    BY <2>1 DEF ImageInv, ZoneImage
  <2>5. p \in Steps(plan) /\ zone[p] = Named(p)
    BY <2>2, <2>3, <2>4
  <2>6. pre.zone[p] \in [Hosts -> RecordOrNone] /\ op.host \in Hosts
    BY <2>0 DEF TypeOK, World, Zone, Op
  <2>7. h = op.host /\ zone[p][h] = DnsNominal(p, pre.zone[p][h], plan.dc[p]).r
    BY <2>2, <2>3, <2>5, <2>6 DEF Named
  <2>8. plan.dc[p].add # NoValue
    BY <2>2, <2>3, <2>7 DEF DnsNominal, AfterRemove, NoRecord
  <2>9. op.verb = "expose"
    <3>1. plan.dc[p] = IF op.verb = "rename" \/ PlanSkips(op, p) THEN NoDnsChange
                       ELSE Diff(op, p, pre.zone[p][op.host])
      BY <2>0 DEF PlannedFrom
    <3>2. \A r : op.verb # "expose" => Diff(op, p, r).add = NoValue
      BY DEF Diff, NoDnsChange
    <3>3. NoDnsChange.add = NoValue
      BY DEF NoDnsChange
    <3> QED
      BY <2>8, <3>1, <3>2, <3>3
  <2> QED
    BY <2>2, <2>7, <2>8, <2>9 DEF computeNewPublic
<1> QED
  BY <1>1, ImagesHold, PTL

\* The step from apply to persist is a Verify whose read-back passed.
LEMMA VerifyStep ==
    ASSUME TypeOK, StepOrder, [Next]_vars, pc = "apply", pc' = "persist"
    PROVE  ReadBackOK
<1> USE DEF Finish
<1>1. CASE Environment \/ UNCHANGED vars
  BY <1>1, EnvironmentQuiet DEF Quiet
<1>2. CASE Begin \/ Resume \/ Plan
  BY <1>2 DEF Begin, Resume, Start, Plan
<1>3. CASE Verify
  BY <1>3 DEF Verify, StartRollback
<1> QED
  BY <1>1, <1>2, <1>3, Stages

(***************************************************************************)
(* Read-back means gone, for every wiring and under every fault: when the  *)
(* read-back of an unexpose or rename passes, the old name is routed and,  *)
(* where crenel can probe, served on no participating edge (verifyEdgeHost, *)
(* verifyEdgeRename, VerifyRuntime).                                       *)
(***************************************************************************)
THEOREM RemovalIsGone == Spec => VerifiedRemovalIsGone
<1> DEFINE A == pc = "apply" /\ pc' = "persist" /\ op.verb # "expose" =>
                \A e \in plan.part :
                    /\ ~ HasHost(edge[e], OldHost)
                    /\ op.verb = "unexpose" /\ e \in Probed /\ OldHost \in plan.ec[e].remove
                          => OldHost \notin edge[e].loaded
<1>1. ImageInv /\ [Next]_vars => [A]_vars
  <2> SUFFICES ASSUME ImageInv, [Next]_vars, pc = "apply", pc' = "persist", op.verb # "expose",
                      NEW e \in plan.part
               PROVE  /\ ~ HasHost(edge[e], OldHost)
                      /\ op.verb = "unexpose" /\ e \in Probed /\ OldHost \in plan.ec[e].remove
                            => OldHost \notin edge[e].loaded
    OBVIOUS
  <2>0. TypeOK /\ StepOrder /\ PlannedFrom /\ Drafted /\ op.verb \in {"expose", "unexpose", "rename"}
    BY DEF ImageInv, TransactionInv, Drafted, TypeOK, Op
  <2>1. VerifyEdge(op, e, edge[e], plan.ec[e])
    BY <2>0, VerifyStep DEF ReadBackOK
  <2>2. ~ HasHost(edge[e], OldHost)
    <3>1. CASE op.verb = "rename"
      <4>1. op.old \in plan.ec[e].remove
        BY <2>0, <3>1, PlannedEdge
      <4> QED
        BY <2>1, <3>1, <4>1 DEF VerifyEdge, verifyEdgeRename, OldHost
    <3>2. CASE op.verb = "unexpose"
      BY <2>1, <3>2 DEF VerifyEdge, verifyEdgeHost, OldHost
    <3> QED
      BY <2>0, <3>1, <3>2
  <2>3. op.verb = "unexpose" /\ e \in Probed /\ OldHost \in plan.ec[e].remove
            => OldHost \notin edge[e].loaded
    <3> SUFFICES ASSUME op.verb = "unexpose", e \in Probed, OldHost \in plan.ec[e].remove
                 PROVE  OldHost \notin edge[e].loaded
      OBVIOUS
    <3>1. FileEdge(e)
      BY EdgeDriverAssumption DEF FileEdge, AdminEdge
    <3>2. VerifyRuntime(op, e, edge[e], plan.ec[e]) # "failed"
      BY <2>1, <3>1 DEF VerifyEdge
    <3> QED
      BY <3>2 DEF VerifyRuntime, touchedHosts
  <2> QED
    BY <2>2, <2>3
<1>2. VerifiedRemovalIsGone <=> [][A]_vars
  BY DEF VerifiedRemovalIsGone
<1> HIDE DEF A
<1> QED
  BY <1>1, <1>2, ImagesHold, PTL DEF Spec

-----------------------------------------------------------------------------
(***************************************************************************)
(* Read-back means end to end, for every wiring of fronts and downstreams  *)
(* and under every fault: when the read-back of an expose passes, the host *)
(* is routed, gated, served and named all the way (Engine.verify).         *)
(***************************************************************************)
THEOREM ExposeIsEndToEnd == Spec => VerifiedExposeIsEndToEnd
<1> DEFINE A == pc = "apply" /\ pc' = "persist" /\ op.verb = "expose" => EndToEnd
<1>1. ImageInv /\ [Next]_vars => [A]_vars
  <2> SUFFICES ASSUME ImageInv, [Next]_vars, pc = "apply", pc' = "persist", op.verb = "expose"
               PROVE  EndToEnd
    OBVIOUS
  <2>0. TypeOK /\ StepOrder /\ PlannedFrom /\ Drafted /\ ReadBackOK
    BY VerifyStep DEF ImageInv, TransactionInv, Drafted
  <2>1. plan.part = {e \in Edges : edgeSelected(op, e) /\ roleFor(e, op.service) # "none"}
    BY <2>0 DEF PlannedFrom
  <2>2. ASSUME NEW e \in plan.part
        PROVE  /\ Reachable(edge[e], op.host)
               /\ verifyEdgeAuth(edge[e], plan.ec[e])
               /\ e \in Probed /\ op.host \in AddedHosts(plan.ec[e]) =>
                    op.host \in Served(e, edge[e])
    <3>1. VerifyEdge(op, e, edge[e], plan.ec[e])
      BY <2>0, <2>2 DEF ReadBackOK
    <3>2. e \in Probed => FileEdge(e)
      BY EdgeDriverAssumption DEF FileEdge, AdminEdge
    <3>3. e \in Probed => VerifyRuntime(op, e, edge[e], plan.ec[e]) # "failed"
      BY <3>1, <3>2 DEF VerifyEdge
    <3>4. e \in Probed => \A h \in touchedHosts(plan.ec[e]) : h \in edge[e].loaded
      BY <3>3 DEF VerifyRuntime
    <3>5. Reachable(edge[e], op.host) /\ verifyEdgeAuth(edge[e], plan.ec[e])
      BY <3>1 DEF VerifyEdge, verifyEdgeHost
    <3> QED
      BY <3>2, <3>4, <3>5 DEF Served, touchedHosts
  <2>3. ASSUME op.edges = {}, NEW e \in plan.part
        PROVE  PathServed(e)
    <3>0. N \in Nat /\ e \in Edges /\ roleFor(e, op.service) # "none"
      BY <2>1, <2>3, EdgesCounted
    <3>1. PICK k \in 0..N : /\ Hop[k][e] # NoEdge /\ op.service \in Fronts[Hop[k][e]]
                            /\ k # 0 => ~ internalScoped(op.service)
      <4>1. CASE op.service \in Fronts[e]
        <5>1. 0 \in 0..N /\ Hop[0][e] = e
          BY <3>0, HopZero
        <5> QED
          BY <3>0, <4>1, <5>1, TopologyAssumption
      <4>2. CASE op.service \notin Fronts[e]
        <5>1. ~ internalScoped(op.service) /\ downstreamParticipates(e, op.service)
          BY <3>0, <4>2 DEF roleFor
        <5>2. PICK k \in 1..N : Hop[k][e] # NoEdge /\ op.service \in Fronts[Hop[k][e]]
          BY <5>1 DEF downstreamParticipates
        <5>3. k \in 0..N
          BY <3>0, <5>2
        <5> QED
          BY <5>1, <5>2, <5>3
      <4> QED
        BY <4>1, <4>2
    <3>2. \A j \in 0..k : Hop[j][e] \in Edges /\ roleFor(Hop[j][e], op.service) # "none"
      BY <3>0, <3>1, ChainParticipates
    <3>3. \A j \in 0..k : Hop[j][e] \in plan.part
      BY <2>1, <2>3, <3>2 DEF edgeSelected
    <3>4. \A j \in 0..k : Reachable(edge[Hop[j][e]], op.host)
      BY <2>2, <3>3
    <3>5. \A j \in 0..k : LET b == Hop[j][e] IN
            b \in Probed /\ op.host \in AddedHosts(plan.ec[b]) => op.host \in Served(b, edge[b])
      BY <2>2, <3>3
    <3> QED
      BY <3>1, <3>4, <3>5 DEF PathServed
  <2>4. ASSUME NEW e \in plan.part, NEW h \in AddedHosts(plan.ec[e]),
               plan.ec[e].add[h].auth = "named"
        PROVE  findRoute(edge[e], h).auth = "named"
    BY <2>2, <2>4 DEF verifyEdgeAuth
  <2>5. ASSUME NEW p \in Providers, ~ PlanSkips(op, p)
        PROVE  LiveValue(p, zone[p][op.host]) = Target[p]
    <3>1. VerifyProvider(op, p, zone[p][op.host])
      BY <2>0 DEF ReadBackOK
    <3> QED
      BY <2>5, <3>1 DEF VerifyProvider, verifyDNS, PlanSkips
  <2> QED
    BY <2>3, <2>4, <2>5 DEF EndToEnd
<1>2. VerifiedExposeIsEndToEnd <=> [][A]_vars
  BY DEF VerifiedExposeIsEndToEnd
<1> HIDE DEF A
<1> QED
  BY <1>1, <1>2, ImagesHold, PTL DEF Spec

=============================================================================
