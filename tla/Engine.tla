-------------------------------- MODULE Engine --------------------------------
(***************************************************************************)
(* The mutating flow of crenel's core: Engine.Apply, Engine.Rename and     *)
(* Engine.Resume (internal/core/{engine,apply,gate,rename,resume}.go).     *)
(*                                                                         *)
(*   plan -> gate -> confirm -> snapshot -> apply each provider in order   *)
(*        -> read-back-verify -> persist            (or rollback)          *)
(*                                                                         *)
(* crenel keeps no state of its own.  What it works on is the live state   *)
(* of the edges (edge) and of the DNS providers (zone), which it reads and *)
(* writes one provider call at a time.  Between two calls the process can  *)
(* be killed, an edge's admin API can wedge, and other tools can edit the  *)
(* same providers; a call can fail before or after it took effect, or be   *)
(* acknowledged without effect.  Each such event costs one of MaxFaults    *)
(* credits and has to be of a kind in FaultKinds.                          *)
(***************************************************************************)
EXTENDS EdgeDrivers, DnsDrivers

CONSTANTS
    Rollback,           \* Engine.Rollback
    AllowUnverified,    \* Engine.AllowUnverified
    Yes,                \* --yes: the confirm callback never declines
    Ops,                \* the operations an operator may ask for
    MaxOps,             \* bound on the operations of one behaviour
    FaultKinds,         \* the kinds of faults that may happen
    MaxFaults,          \* bound on the faults of one behaviour
    InitWorlds          \* initial live states

World == [edge : [Edges -> EdgeState], zone : [Providers -> Zone]]

ASSUME EngineAssumption ==
    /\ Rollback \in BOOLEAN /\ AllowUnverified \in BOOLEAN
    /\ Yes \in BOOLEAN
    /\ Ops \subseteq Op
    /\ MaxOps \in Nat /\ MaxFaults \in Nat
    /\ InitWorlds \subseteq World

VARIABLES
    edge,       \* live state of every edge
    zone,       \* live records of every DNS provider
    pc,         \* where the running invocation is
    op,         \* its operation
    plan,       \* its ChangeSet
    snap,       \* edge states read before the first write
    todo,       \* steps not yet run; edges not yet persisted
    applied,    \* steps whose compensator is pending
    outcome,    \* how the last invocation ended
    rbErr,      \* targets named in RollbackErrors
    warned,     \* edges named in PersistWarnings
    unread,     \* a provider could not be read after the plan was confirmed
    opsLeft, credit,
    pre,        \* history: the world the plan was computed from
    tainted     \* history: targets changed since by anything but a sound call

env == <<opsLeft, credit>>
world == <<edge, zone>>
report == <<rbErr, warned, unread>>
history == <<pre, tainted>>
vars == <<world, pc, op, plan, snap, todo, applied, outcome, report, env, history>>

-----------------------------------------------------------------------------
(***************************************************************************)
(* The plan.                                                               *)
(***************************************************************************)
Participants(o) ==
    IF o.verb = "rename"
    THEN {e \in Edges : HasHost(edge[e], o.old)}
    ELSE {e \in Edges : edgeSelected(o, e) /\ roleFor(e, o.service) # "none"}

\* cs.Edges and cs.DNS of Engine.Plan; PlanRename plans no DNS at all.
Changes(o) ==
    [part |-> Participants(o),
     ec   |-> [e \in Edges |->
                IF e \notin Participants(o) THEN NoEdgeChange
                ELSE IF o.verb = "rename" THEN RenamePlan(o, edge[e])
                ELSE EdgePlan(o, e, edge[e])],
     dc   |-> [p \in Providers |->
                IF o.verb = "rename" \/ PlanSkips(o, p) THEN NoDnsChange
                ELSE Diff(o, p, zone[p][o.host])]]

PlanType == [part : SUBSET Edges, ec : [Edges -> EdgeChange], dc : [Providers -> DnsChange]]

NoPlan == [part |-> {}, ec |-> [e \in Edges |-> NoEdgeChange],
           dc |-> [p \in Providers |-> NoDnsChange]]

\* The steps of a plan: the targets with a non-empty change.
Steps(pl) == {e \in Edges : ~ EmptyEdgeChange(pl.ec[e])}
             \cup {p \in Providers : pl.dc[p] # NoDnsChange}

\* Engine.Plan and PlanRename return an error.
PlanRefuses(o) ==
    IF o.verb = "rename"
    THEN \/ o.old = o.host
         \/ \E e \in Edges : edge[e].wedged
         \/ Participants(o) = {}
         \/ \E e \in Participants(o) : \/ HasHost(edge[e], o.host)
                                       \/ findRoute(edge[e], o.old).auth = "detected"
    ELSE \/ internalScoped(o.service) /\ "public" \in o.scopes
         \/ \E e \in Participants(o) : edge[e].wedged \/ EdgePlanError(o, e, edge[e])
         \/ o.verb = "expose" /\ Participants(o) = {}
         \/ \E p \in Providers : ~ PlanSkips(o, p) /\ DiffRefuses(o, p, zone[p][o.host])

\* Mutant of computeNewPublic: only hosts that get a new route are named.
NewRoutesOnly(o, pl) ==
    IF o.verb = "expose" THEN UNION {AddedHosts(pl.ec[e]) : e \in pl.part} ELSE {}

\* The "about to go public" view the operator confirms.
computeNewPublic(o, pl) ==
    IF o.verb = "rename" THEN {o.host}
    ELSE IF o.verb # "expose" THEN {}
    ELSE IF \E p \in Providers : Scope[p] = "public"
    THEN {h \in {o.host} :
            \E p \in Providers : Scope[p] = "public" /\ pl.dc[p].add # NoValue}
    ELSE UNION {AddedHosts(pl.ec[e]) : e \in pl.part}

-----------------------------------------------------------------------------
(***************************************************************************)
(* The refuse-to-manage gate, evaluated on a fresh read.                   *)
(***************************************************************************)
gateChainOwnership(o) ==
    /\ \E e \in Edges : roleFor(e, o.service) = "forward"
    /\ \E e \in Edges :
        /\ roleFor(e, o.service) # "none"
        /\ edge[e].wedged \/ e \in Generated \/ OwnerRefuses(findRoute(edge[e], o.host))

\* Mutant of gateOwnership: a host's owner is not looked up.
GateWholeEdgesOnly(o, pl) ==
    \E e \in pl.part : ~ EmptyEdgeChange(pl.ec[e]) /\ (edge[e].wedged \/ e \in Generated)

gateOwnership(o, pl) ==
    \/ gateChainOwnership(o)
    \/ \E e \in pl.part :
        /\ ~ EmptyEdgeChange(pl.ec[e])
        /\ \/ edge[e].wedged
           \/ e \in Generated
           \/ \E h \in touchedHosts(pl.ec[e]) : OwnerRefuses(ownershipByHost(edge[e], h))

-----------------------------------------------------------------------------
Init ==
    /\ \E w \in InitWorlds : edge = w.edge /\ zone = w.zone
    /\ pc = "idle"
    /\ op \in Ops
    /\ plan = NoPlan
    /\ snap = edge
    /\ todo = {} /\ applied = {}
    /\ outcome = "none"
    /\ rbErr = {} /\ warned = {} /\ unread = FALSE
    /\ opsLeft = MaxOps /\ credit = MaxFaults
    /\ pre = [edge |-> edge, zone |-> zone]
    /\ tainted = {}

\* An event the code has to live with happens.
Fault(kind) == kind \in FaultKinds /\ credit > 0 /\ credit' = credit - 1

\* A live-state read returns an error (transport, API or parse).
ReadFails == Fault("read")

\* The invocation returns.
Finish(out) ==
    /\ pc' = "done"
    /\ outcome' = out

Start(o) ==
    /\ pc' = "plan"
    /\ op' = o
    /\ plan' = NoPlan
    /\ todo' = {} /\ applied' = {}
    /\ outcome' = "none"
    /\ rbErr' = {} /\ warned' = {} /\ unread' = FALSE
    /\ snap' = edge
    /\ pre' = [edge |-> edge, zone |-> zone]
    /\ tainted' = {}
    /\ UNCHANGED world

\* The operator runs a verb.
Begin ==
    /\ pc \in {"idle", "done", "crashed"}
    /\ opsLeft > 0
    /\ \E o \in Ops : Start(o)
    /\ opsLeft' = opsLeft - 1
    /\ UNCHANGED credit

\* crenel resume: an operation that did not go through is planned again from
\* live state.
Resume ==
    /\ pc \in {"done", "crashed"}
    /\ outcome \in {"refused", "declined", "failed", "crashed"}
    /\ op.verb # "rename"
    /\ Start(op)
    /\ UNCHANGED env

Plan ==
    /\ pc = "plan"
    /\ \/ PlanRefuses(op) /\ Finish("refused") /\ UNCHANGED <<plan, credit>>
       \/ ReadFails /\ Finish("refused") /\ UNCHANGED plan
       \/ /\ ~ PlanRefuses(op)
          /\ plan' = Changes(op)
          /\ pc' = "gate"
          /\ UNCHANGED <<outcome, credit>>
    /\ pre' = [edge |-> edge, zone |-> zone]
    /\ tainted' = {}
    /\ UNCHANGED <<world, op, snap, todo, applied, report, opsLeft>>

Gate ==
    /\ pc = "gate"
    /\ \/ Steps(plan) = {} /\ Finish("noop") /\ UNCHANGED credit
       \/ Steps(plan) # {} /\ gateOwnership(op, plan) /\ Finish("refused") /\ UNCHANGED credit
       \/ Steps(plan) # {} /\ ReadFails /\ Finish("refused")
       \/ /\ Steps(plan) # {} /\ ~ gateOwnership(op, plan)
          /\ pc' = "confirm"
          /\ UNCHANGED <<outcome, credit>>
    /\ UNCHANGED <<world, op, plan, snap, todo, applied, report, opsLeft, history>>

Confirm ==
    /\ pc = "confirm"
    /\ \/ pc' = "snapshot" /\ UNCHANGED outcome
       \/ ~ Yes /\ Finish("declined")
    /\ UNCHANGED <<world, op, plan, snap, todo, applied, report, env, history>>

Snapshot ==
    /\ pc = "snapshot"
    /\ \/ /\ \E e \in plan.part : edge[e].wedged
          /\ Finish("failed")
          /\ UNCHANGED <<snap, todo, unread, credit>>
       \/ /\ plan.part # {} /\ ReadFails
          /\ Finish("failed")
          /\ unread' = TRUE
          /\ UNCHANGED <<snap, todo>>
       \/ /\ \A e \in plan.part : ~ edge[e].wedged
          /\ snap' = edge
          /\ todo' = Steps(plan)
          /\ pc' = "apply"
          /\ UNCHANGED <<outcome, unread, credit>>
    /\ UNCHANGED <<world, op, plan, applied, rbErr, warned, opsLeft, history>>

-----------------------------------------------------------------------------
(***************************************************************************)
(* Provider calls.  A call with a fault costs a credit and taints its      *)
(* target.                                                                 *)
(***************************************************************************)
CallEdge(e, c, failed) ==
    \/ LET n == Nominal(e, edge[e], c) IN
       /\ edge' = [edge EXCEPT ![e] = n.s]
       /\ failed = n.err
       /\ UNCHANGED <<zone, credit, tainted>>
    \/ /\ credit > 0
       /\ \E f \in Faulty(e, edge[e], c, FaultKinds) :
            edge' = [edge EXCEPT ![e] = f.s] /\ failed = f.err
       /\ credit' = credit - 1
       /\ tainted' = tainted \cup {e}
       /\ UNCHANGED zone

CallProvider(p, c, failed) ==
    \/ LET n == DnsNominal(p, zone[p][op.host], c) IN
       /\ zone' = [zone EXCEPT ![p] = [@ EXCEPT ![op.host] = n.r]]
       /\ failed = n.err
       /\ UNCHANGED <<edge, credit, tainted>>
    \/ /\ credit > 0
       /\ \E f \in DnsFaulty(p, zone[p][op.host], c, FaultKinds) :
            zone' = [zone EXCEPT ![p] = [@ EXCEPT ![op.host] = f.r]] /\ failed = f.err
       /\ credit' = credit - 1
       /\ tainted' = tainted \cup {p}
       /\ UNCHANGED edge

Do(t, failed) == \/ t \in Edges /\ CallEdge(t, plan.ec[t], failed)
                 \/ t \in Providers /\ CallProvider(t, plan.dc[t], failed)

Undo(t, failed) ==
    \/ t \in Edges /\ CallEdge(t, invertEdge(plan.ec[t], snap[t]), failed)
    \/ t \in Providers /\ CallProvider(t, invertDNS(plan.dc[t]), failed)

\* Mutant of StartRollback: a failure is retried without bound.
RetryForever == UNCHANGED <<pc, outcome>>

\* rollback() is a no-op when it is disabled or nothing was applied.
StartRollback ==
    \/ Rollback /\ applied # {} /\ pc' = "rollback" /\ UNCHANGED outcome
    \/ (~ Rollback \/ applied = {}) /\ Finish("failed")

\* The next step succeeds: its compensator is remembered.
ApplyStep ==
    /\ pc = "apply"
    /\ \E t \in todo :
        /\ First(op.verb, t, todo)
        /\ Do(t, FALSE)
        /\ todo' = todo \ {t}
        /\ applied' = applied \cup {t}
    /\ UNCHANGED <<pc, op, plan, snap, outcome, report, opsLeft, pre>>

\* The next step fails: the steps before it are rolled back, it is not.
ApplyFails ==
    /\ pc = "apply"
    /\ \E t \in todo : First(op.verb, t, todo) /\ Do(t, TRUE)
    /\ StartRollback
    /\ UNCHANGED <<op, plan, snap, todo, applied, report, opsLeft, pre>>

\* Mutant of ReadBackOK: only what was changed is read back.
ReadBackChanged ==
    /\ \A e \in plan.part \cap Steps(plan) : VerifyEdge(op, e, edge[e], plan.ec[e])
    /\ \A p \in Providers \cap Steps(plan) : VerifyProvider(op, p, zone[p][op.host])

ReadBackOK ==
    /\ \A e \in plan.part : VerifyEdge(op, e, edge[e], plan.ec[e])
    /\ \A p \in Providers : VerifyProvider(op, p, zone[p][op.host])

RuntimeConfirmed ==
    \A e \in plan.part : ~ RuntimeUnconfirmed(op, e, edge[e], plan.ec[e])

\* Every step returned: read back, then gateRuntimeVerify.
Verify ==
    /\ pc = "apply" /\ todo = {}
    /\ \/ /\ ReadBackOK /\ (AllowUnverified \/ RuntimeConfirmed)
          /\ pc' = "persist"
          /\ todo' = plan.part
          /\ UNCHANGED <<outcome, unread, credit>>
       \/ /\ ~ (ReadBackOK /\ (AllowUnverified \/ RuntimeConfirmed))
          /\ StartRollback
          /\ UNCHANGED <<todo, unread, credit>>
       \/ /\ ReadFails
          /\ unread' = TRUE
          /\ StartRollback
          /\ UNCHANGED todo
    /\ UNCHANGED <<world, op, plan, snap, applied, rbErr, warned, opsLeft, history>>

\* Compensators run in reverse; one failing never stops the others.
RollbackStep ==
    /\ pc = "rollback"
    /\ \E t \in applied :
        /\ Last(op.verb, t, applied)
        /\ applied' = applied \ {t}
        /\ \/ /\ t \in Edges /\ AdminEdge(t) /\ edge[t].wedged
              /\ rbErr' = rbErr \cup {t}
              /\ UNCHANGED <<world, credit, tainted>>
           \/ /\ ~ (t \in Edges /\ AdminEdge(t) /\ edge[t].wedged)
              /\ \/ Undo(t, TRUE) /\ rbErr' = rbErr \cup {t}
                 \/ Undo(t, FALSE) /\ UNCHANGED rbErr
    /\ IF applied' = {} THEN Finish("failed") ELSE UNCHANGED <<pc, outcome>>
    /\ UNCHANGED <<op, plan, snap, todo, warned, unread, opsLeft, pre>>

\* persistEdges, one participating edge: best effort, a failure is a warning.
Persist(e) ==
    \/ /\ EdgeKind[e] # "caddy_durable"
       /\ warned' = IF EdgeKind[e] = "caddy" /\ ~ EmptyEdgeChange(plan.ec[e])
                    THEN warned \cup {e} ELSE warned
       /\ UNCHANGED <<edge, credit, tainted>>
    \/ /\ EdgeKind[e] = "caddy_durable" /\ PersistBlocked(edge[e])
       /\ warned' = warned \cup {e}
       /\ UNCHANGED <<edge, credit, tainted>>
    \/ /\ EdgeKind[e] = "caddy_durable" /\ ~ PersistBlocked(edge[e])
       /\ edge' = [edge EXCEPT ![e] = Boot(mergeManagedRegion(@))]
       /\ UNCHANGED <<warned, credit, tainted>>
    \/ \* the candidate is rejected, or the file is replaced and the reload fails
       /\ EdgeKind[e] = "caddy_durable" /\ ~ PersistBlocked(edge[e])
       /\ Fault("persist")
       /\ \E s \in {edge[e], mergeManagedRegion(edge[e])} :
            edge' = [edge EXCEPT ![e] = s]
       /\ warned' = warned \cup {e}
       /\ tainted' = tainted \cup {e}

PersistStep ==
    /\ pc = "persist"
    /\ \/ /\ \E e \in todo :
                /\ \A f \in todo \ {e} : WirePos[e] < WirePos[f]
                /\ Persist(e)
                /\ todo' = todo \ {e}
          /\ UNCHANGED <<pc, outcome>>
       \/ /\ todo = {} /\ Finish("applied")
          /\ UNCHANGED <<edge, todo, warned, credit, tainted>>
    /\ UNCHANGED <<zone, op, plan, snap, applied, rbErr, unread, opsLeft, pre>>

-----------------------------------------------------------------------------
(***************************************************************************)
(* The environment.                                                        *)
(***************************************************************************)
Running == pc \notin {"idle", "done", "crashed"}

txn == <<op, plan, snap, todo, applied, report, opsLeft, pre>>

\* The process is killed between two provider calls.  Nothing is journalled.
Crash ==
    /\ Running
    /\ Fault("crash")
    /\ pc' = "crashed"
    /\ outcome' = "crashed"
    /\ UNCHANGED <<world, txn, tainted>>

\* A Caddy admin API hangs on a reload.
Wedge ==
    /\ Fault("wedge")
    /\ \E e \in Edges :
        /\ AdminEdge(e) /\ ~ edge[e].wedged
        /\ edge' = [edge EXCEPT ![e].wedged = TRUE]
        /\ tainted' = tainted \cup {e}
    /\ UNCHANGED <<zone, pc, outcome, txn>>

\* A Caddy process restarts and boots from its on-disk config.
Reboot(e) ==
    /\ edge' = [edge EXCEPT ![e] = Boot(@)]
    /\ tainted' = tainted \cup {e}
    /\ UNCHANGED <<zone, pc, outcome, txn>>

Restart ==
    /\ Fault("restart")
    /\ \E e \in Edges : AdminEdge(e) /\ ~ edge[e].wedged /\ Reboot(e)

\* The operator follows the recovery hint and restarts a wedged edge.
Recover ==
    /\ \E e \in Edges : edge[e].wedged /\ Reboot(e)
    /\ UNCHANGED credit

\* The daemon of a file edge is reloaded by someone else.
DaemonReload ==
    /\ \E e \in Edges :
        /\ FileEdge(e) /\ Load(e, edge[e]) # edge[e]
        /\ edge' = [edge EXCEPT ![e] = Load(e, @)]
    /\ UNCHANGED <<zone, pc, outcome, credit, tainted, txn>>

OthersRoute(w) ==
    [mode |-> "http", dial |-> "elsewhere", auth |-> "none", tls |-> FALSE, owner |-> w]

\* Another tool edits an edge's config: it deletes a route, puts up one of its
\* own, strips the auth of one of crenel's, or drops the deny.
EdgeEdits(s) ==
    {[s EXCEPT !.mine[h] = NoRoute] : h \in Hosts}
    \cup {[s EXCEPT !.other[h] = NoRoute] : h \in Hosts}
    \cup {[s EXCEPT !.other[h] = OthersRoute(w)] : h \in Hosts, w \in {"unmanaged", "foreign"}}
    \cup {[s EXCEPT !.mine[h].auth = "none"] : h \in {g \in Hosts : s.mine[g] # NoRoute}}
    \cup {[s EXCEPT !.deny = FALSE]}

OutOfBandEdge ==
    /\ Fault("outofband")
    /\ \E e \in Edges : \E s \in EdgeEdits(edge[e]) \ {edge[e]} :
        /\ edge' = [edge EXCEPT ![e] = s]
        /\ tainted' = tainted \cup {e}
    /\ UNCHANGED <<zone, pc, outcome, txn>>

\* Another tool edits a DNS zone.
OutOfBandZone ==
    /\ Fault("outofband")
    /\ \E p \in Providers, h \in Hosts :
        \E r \in ({NoRecord} \cup [value : Values, ours : {FALSE}]) \ {zone[p][h]} :
            /\ zone' = [zone EXCEPT ![p] = [@ EXCEPT ![h] = r]]
            /\ tainted' = tainted \cup {p}
    /\ UNCHANGED <<edge, pc, outcome, txn>>

-----------------------------------------------------------------------------
Crenel == \/ Plan \/ Gate \/ Confirm \/ Snapshot
          \/ ApplyStep \/ ApplyFails \/ Verify \/ RollbackStep \/ PersistStep

Environment == \/ Crash \/ Wedge \/ Restart \/ Recover \/ DaemonReload
               \/ OutOfBandEdge \/ OutOfBandZone

Next == Begin \/ Resume \/ Crenel \/ Environment

Spec == Init /\ [][Next]_vars

\* A started invocation keeps running: every provider call is bounded by a
\* timeout, so each step returns.
FairSpec == Spec /\ WF_vars(Crenel)

\* In addition the operator follows up: wedged edges are restarted and an
\* invocation that failed or was killed is resumed.
ResumingSpec == FairSpec /\ WF_vars(Recover) /\ WF_vars(Resume)
=============================================================================
