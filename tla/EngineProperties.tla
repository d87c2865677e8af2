--------------------------- MODULE EngineProperties ---------------------------
(***************************************************************************)
(* What the transaction of module Engine promises.                         *)
(*                                                                         *)
(* tainted holds the targets that, since the plan was computed, saw a      *)
(* failed or unsound call or somebody else's hand; the properties that     *)
(* speak about the work of crenel alone leave those targets out.           *)
(***************************************************************************)
EXTENDS Engine

(***************************************************************************)
(* Type correctness of the state of module Engine.                         *)
(***************************************************************************)
TypeOK ==
    /\ edge \in [Edges -> EdgeState]
    /\ zone \in [Providers -> Zone]
    /\ pc \in {"idle", "plan", "gate", "confirm", "snapshot", "apply",
               "rollback", "persist", "done", "crashed"}
    /\ op \in Op
    /\ plan \in PlanType
    /\ snap \in [Edges -> EdgeState]
    /\ todo \subseteq Targets
    /\ applied \subseteq Targets
    /\ outcome \in {"none", "refused", "noop", "declined", "failed", "applied", "crashed"}
    /\ rbErr \subseteq Targets
    /\ warned \subseteq Edges
    /\ unread \in BOOLEAN
    /\ opsLeft \in Nat
    /\ credit \in Nat
    /\ pre \in World
    /\ tainted \subseteq Targets

Suspect == tainted \cup rbErr

-----------------------------------------------------------------------------
\* Target t answers for the operation's host.
Up(t) == \/ t \in Edges /\ HasHost(edge[t], op.host)
         \/ t \in Providers /\ zone[t][op.host].value # NoValue

WasUp(t) == \/ t \in Edges /\ HasHost(pre.edge[t], op.host)
            \/ t \in Providers /\ pre.zone[t][op.host].value # NoValue

\* s lies behind t on the way from a client to the origin.
Behind(s, t) == \/ rank(s) < rank(t)
                \/ rank(s) = rank(t) /\ depth(s) > depth(t)

(***************************************************************************)
(* Announce last, withdraw first: at no moment of an expose or unexpose -  *)
(* half applied, half rolled back, or killed in between - is a leg up      *)
(* while a leg behind it is down.  A name is never announced over missing  *)
(* routes and a front never forwards to a downstream without the route     *)
(* (buildSteps, the apply loop and rollback in apply.go).  A leg that an   *)
(* unexpose cannot take down - its route is not marked as crenel's - or    *)
(* that was up before an expose is not held to it.                         *)
(***************************************************************************)
Removable(t) ==
    t \in Edges => LET s == pre.edge[t] IN
        /\ s.mine[op.host] # NoRoute /\ s.other[op.host] = NoRoute
        /\ s.disk[op.host] = NoRoute \/ op.host \in s.region

ExposureOrdered ==
    op.verb # "rename" =>
        \A s, t \in Steps(plan) \ Suspect :
            /\ Behind(s, t)
            /\ Up(t)
            /\ IF op.verb = "expose" THEN ~ WasUp(t) ELSE Removable(t)
            => Up(s)

(***************************************************************************)
(* All or nothing: when a transaction ends in failure, every target that   *)
(* no fault touched and no rollback error names exposes what it exposed    *)
(* before, through crenel's own routes where it did so before, and answers *)
(* with the same records, still marked where markers exist (rollback,      *)
(* invertEdge, invertDNS).  Left out are two things the compensators get   *)
(* wrong.  The removal of an unmarked route may have deleted nothing, and  *)
(* invertEdge puts up a marked copy all the same.  An update of a record   *)
(* travels as an add, and invertDNS deletes the record.                    *)
(***************************************************************************)
MarkedHostsOf(s) == {h \in Hosts : s.mine[h] # NoRoute}

RemovesUnmarked(e) == \E h \in plan.ec[e].remove : pre.edge[e].other[h] # NoRoute

RollbackRestores ==
    pc = "done" /\ outcome = "failed" /\ Rollback =>
        /\ \A e \in Edges \ Suspect :
            /\ RoutedHosts(edge[e]) = RoutedHosts(pre.edge[e])
            /\ RemovesUnmarked(e) \/ MarkedHostsOf(edge[e]) = MarkedHostsOf(pre.edge[e])
        /\ \A p \in Providers \ Suspect :
            pre.zone[p][op.host].value \in {NoValue, Target[p]} =>
                \A h \in Hosts :
                    /\ zone[p][h].value = pre.zone[p][h].value
                    /\ OwnsAllLiveRecords(p) => zone[p][h].ours = pre.zone[p][h].ours

(***************************************************************************)
(* Refuse to manage: no apply or rollback step, of a whole or a killed     *)
(* transaction, changes the route that answers for a host while its owner, *)
(* as the gate reads it, is foreign or unknown (without --force), or the   *)
(* whole edge is generated (gate.go).  Left out is a durable Caddy edge    *)
(* from the moment Persist reloads it: that puts its boot config in the    *)
(* place of every live route.                                              *)
(***************************************************************************)
Reloaded(e) ==
    EdgeKind[e] = "caddy_durable" /\ (pc = "persist" \/ outcome \in {"applied", "crashed"})

OthersUntouched ==
    \A e \in Edges \ tainted : \A h \in Hosts :
        /\ ~ Reloaded(e)
        /\ (e \in Generated \/ OwnerRefuses(ownershipByHost(pre.edge[e], h)))
        => findRoute(edge[e], h) = findRoute(pre.edge[e], h)

(***************************************************************************)
(* Read-back means end to end: when the read-back of an expose that no     *)
(* --edge narrowed passes, every participating edge reaches an edge that   *)
(* serves the host with every hop present, TLS where the hop needs it and  *)
(* the deny in place, the daemons crenel can probe serve what was changed, *)
(* and every provider that was asked answers with the desired value.       *)
(***************************************************************************)
PathServed(e) ==
    \E k \in 0..N :
        /\ Hop[k][e] # NoEdge
        /\ op.service \in Fronts[Hop[k][e]]
        /\ \A j \in 0..k : Reachable(edge[Hop[j][e]], op.host)
        /\ \A j \in 0..k : LET b == Hop[j][e] IN
             b \in Probed /\ op.host \in AddedHosts(plan.ec[b]) => op.host \in Served(b, edge[b])

EndToEnd ==
    /\ op.edges = {} => \A e \in plan.part : PathServed(e)
    /\ \A e \in plan.part : \A h \in AddedHosts(plan.ec[e]) :
        plan.ec[e].add[h].auth = "named" => findRoute(edge[e], h).auth = "named"
    /\ \A p \in Providers :
        ~ PlanSkips(op, p) => LiveValue(p, zone[p][op.host]) = Target[p]

VerifiedExposeIsEndToEnd ==
    [][pc = "apply" /\ pc' = "persist" /\ op.verb = "expose" => EndToEnd]_vars

(***************************************************************************)
(* Read-back means gone: when the read-back of an unexpose or rename       *)
(* passes, the old name is routed on no participating edge, and a probed   *)
(* daemon whose route was removed no longer serves it.                     *)
(***************************************************************************)
OldHost == IF op.verb = "rename" THEN op.old ELSE op.host

VerifiedRemovalIsGone ==
    [][pc = "apply" /\ pc' = "persist" /\ op.verb # "expose" =>
        \A e \in plan.part :
            /\ ~ HasHost(edge[e], OldHost)
            /\ op.verb = "unexpose" /\ e \in Probed /\ OldHost \in plan.ec[e].remove
                  => OldHost \notin edge[e].loaded]_vars

(***************************************************************************)
(* A verified change survives a restart of the control plane, or the       *)
(* operator was warned: booted from its on-disk config, an edge whose      *)
(* Persist reported no problem routes every added host, still gated where  *)
(* a policy was asked for, loses no host the change left alone, and routes *)
(* nothing it did not route before (persistEdges in apply.go, Persist and  *)
(* mergeManagedRegion in caddy).  Left out are a host the operator's own   *)
(* part of the boot config declares, the TLS hop of a route, which the     *)
(* flat form of the managed region cannot say, and an unmarked live route  *)
(* that is not in the boot config: the reload of Persist drops it.         *)
(***************************************************************************)
OperatorDeclared(s, h) == s.disk[h] # NoRoute /\ h \notin s.region

DurableOrWarned ==
    pc = "done" /\ outcome = "applied" =>
        \A e \in plan.part \ (tainted \cup warned) : \A h \in Hosts :
            LET boot == Boot(edge[e])
                c    == plan.ec[e]
                was  == pre.edge[e]
            IN  AdminEdge(e) /\ ~ EmptyEdgeChange(c) =>
                /\ h \in AddedHosts(c) =>
                        HasHost(boot, h) /\ (c.add[h].auth = "named" => findRoute(boot, h).auth # "none")
                /\ /\ HasHost(was, h) /\ h \notin c.remove
                   /\ was.mine[h] # NoRoute \/ was.disk[h] # NoRoute
                   => HasHost(boot, h)
                /\ HasHost(boot, h) =>
                        \/ h \in AddedHosts(c)
                        \/ OperatorDeclared(was, h)
                        \/ HasHost(was, h) /\ h \notin c.remove

\* Host h has a public record, and also a route.
HasPublicName(zn, h) == \E p \in Providers : Scope[p] = "public" /\ zn[p][h].value # NoValue
Public(ed, zn, h) == HasPublicName(zn, h) /\ \E e \in Edges : HasHost(ed[e], h)

(***************************************************************************)
(* A host that becomes publicly reachable was named in the preview the     *)
(* operator confirmed (computeNewPublic in engine.go).  Left out is a host *)
(* whose public record was there before its route: with a public provider  *)
(* wired, computeNewPublic looks at added records only and is silent.      *)
(***************************************************************************)
GoingPublicIsPreviewed ==
    outcome = "applied" /\ tainted = {} =>
        \A h \in Hosts :
            Public(edge, zone, h) /\ ~ Public(pre.edge, pre.zone, h)
            => HasPublicName(pre.zone, h) \/ h \in computeNewPublic(op, plan)

-----------------------------------------------------------------------------
(***************************************************************************)
(* Why a transaction that nothing disturbed may still fail its read-back.  *)
(***************************************************************************)
\* A participating edge had no default-deny to begin with.
DenyMissing == \E e \in plan.part : ~ pre.edge[e].deny

\* A removed route carries no marker and the driver deletes only marked ones.
UnmarkedRemoval ==
    \E e \in plan.part : \E h \in plan.ec[e].remove :
        /\ pre.edge[e].other[h] # NoRoute
        /\ EdgeKind[e] = "caddy_durable" => pre.edge[e].mine[h] # NoRoute

\* The driver has no rendering for a TLS hop.
UnrenderedTLS ==
    \E e \in plan.part : FileEdge(e) /\ \E h \in AddedHosts(plan.ec[e]) : plan.ec[e].add[h].tls

\* A daemon cannot be probed and --allow-unverified was not given.
UnprobedDaemon == ~ AllowUnverified /\ \E e \in plan.part : FileEdge(e) /\ e \notin Probed

\* The name answers at a split-horizon provider with a value that is not ours.
OtherAnswer ==
    op.verb = "unexpose" /\ \E p \in Providers :
        ~ PlanSkips(op, p) /\ DnsKind[p] = "split"
        /\ pre.zone[p][op.host].value \notin {NoValue, Target[p]}

\* An internal-scope service at a public provider: Plan skips the provider and
\* verify asks it for the record all the same.
InternalAtPublic ==
    internalScoped(op.service) /\ \E p \in Providers : Scope[p] = "public"

\* A rename is read back at a provider or daemon that knows no such verb, see
\* RenameLands.
RenameReadBack ==
    op.verb = "rename" /\ \/ \E p \in Providers : dnsCoversHost(op, p)
                          \/ \E e \in plan.part : EdgeKind[e] = "nginx" /\ e \in Probed

ReadBackRefuses ==
    \/ DenyMissing \/ UnmarkedRemoval \/ UnrenderedTLS \/ UnprobedDaemon
    \/ OtherAnswer \/ InternalAtPublic \/ RenameReadBack

(***************************************************************************)
(* Plan and read-back agree: a transaction in which every call worked and  *)
(* nobody interfered is never rolled back, except for the causes above.    *)
(***************************************************************************)
CleanRunLands == outcome = "failed" /\ tainted = {} /\ ~ unread => ReadBackRefuses

-----------------------------------------------------------------------------
(***************************************************************************)
(* Every invocation ends: no combination of faults leaves it waiting.      *)
(***************************************************************************)
Terminates == Running ~> ~ Running

(***************************************************************************)
(* Resume converges: an expose or unexpose that failed or was killed, when *)
(* the operator keeps resuming it, ends up applied (or found to be so).    *)
(***************************************************************************)
ResumeConverges ==
    outcome \in {"failed", "crashed"} ~> (pc = "done" /\ outcome \in {"applied", "noop"})

-----------------------------------------------------------------------------
(***************************************************************************)
(* The inductive invariant behind TypeOK, OthersUntouched and              *)
(* ExposureOrdered (modules Engine*Proofs), in named parts.                *)
(***************************************************************************)
\* Before the first write, and while writes can still be undone.
Preparing == pc \in {"plan", "gate", "confirm", "snapshot"}
Undoable == Preparing \/ pc \in {"apply", "rollback"}

\* Only participating edges are persisted.
PersistQueue == pc = "persist" => todo \subseteq plan.part

\* The applied steps are a prefix of the ordered steps, whether the
\* transaction runs forward or is being rolled back.
StepOrder ==
    /\ Running => outcome = "none"
    /\ Preparing => applied = {}
    /\ applied \subseteq Steps(plan)
    /\ pc = "apply" => todo = Steps(plan) \ applied
    /\ pc = "persist" => applied = Steps(plan)
    /\ \A s \in applied, t \in Steps(plan) \ applied : Before(op.verb, s, t)

\* Past the gate, no change touches a host that is not crenel's to touch.
Gated ==
    /\ \A e \in Edges \ plan.part : EmptyEdgeChange(plan.ec[e])
    /\ pc \in {"plan", "gate"} =>
        \A e \in Edges \ tainted : \A h \in Hosts :
            ownershipByHost(edge[e], h) = ownershipByHost(pre.edge[e], h)
    /\ pc \in {"confirm", "snapshot", "apply", "rollback"} =>
        \A e \in Edges \ tainted : \A h \in touchedHosts(plan.ec[e]) :
            e \notin Generated /\ ~ OwnerRefuses(ownershipByHost(pre.edge[e], h))

\* What the changes of an expose and of an unexpose look like.
PlanShape ==
    /\ pc = "plan" => plan = NoPlan
    /\ op.verb = "expose" =>
        /\ \A e \in Edges : plan.ec[e].remove = {} /\ AddedHosts(plan.ec[e]) \subseteq {op.host}
        /\ \A p \in Providers : plan.dc[p].remove = NoValue
    /\ op.verb = "unexpose" =>
        /\ \A e \in Edges : plan.ec[e].remove \subseteq {op.host} /\ AddedHosts(plan.ec[e]) = {}
        /\ \A p \in Providers :
            /\ plan.dc[p].add = NoValue
            /\ plan.dc[p].remove # NoValue =>
                /\ DnsKind[p] = "split" => pre.zone[p][op.host].value = plan.dc[p].remove
                /\ DnsKind[p] = "cloudflare" => pre.zone[p][op.host].ours

\* Where the legs of an expose stand.
ExposedEdge(e) == LET s == edge[e] IN
    /\ e \in applied => \/ s.mine[op.host] # NoRoute
                        \/ op.host \in s.region /\ s.other[op.host] # NoRoute
    /\ e \notin applied => ~ HasHost(s, op.host)
    /\ Undoable => s.other[op.host] = NoRoute

ExposedRecord(p) == LET r == zone[p][op.host] IN
    /\ p \in applied => r.value = plan.dc[p].add /\ r.ours
    /\ p \notin applied /\ pre.zone[p][op.host].value = NoValue => r.value = NoValue

ExposeLegs ==
    op.verb = "expose" =>
        /\ \A e \in (Edges \cap Steps(plan)) \ Suspect : ExposedEdge(e)
        /\ \A p \in (Providers \cap Steps(plan)) \ Suspect : ExposedRecord(p)

\* Where the legs of an unexpose stand.
UnexposedEdge(e) == LET s == edge[e] IN
    /\ e \notin applied => HasHost(s, op.host)
    /\ pc \in {"apply", "rollback"} => HasHost(snap[e], op.host)
    /\ Removable(e) =>
        /\ e \in applied => ~ HasHost(s, op.host)
        /\ Undoable => s.other[op.host] = NoRoute
        /\ s.disk[op.host] = NoRoute \/ op.host \in s.region

UnexposedRecord(p) == LET r == zone[p][op.host] IN
    /\ p \in applied => r.value = NoValue
    /\ p \notin applied => r.value # NoValue
    /\ p \notin applied /\ (Preparing \/ pc = "apply") => r = pre.zone[p][op.host]

UnexposeLegs ==
    op.verb = "unexpose" =>
        /\ \A e \in (Edges \cap Steps(plan)) \ Suspect : UnexposedEdge(e)
        /\ \A p \in (Providers \cap Steps(plan)) \ Suspect : UnexposedRecord(p)

TransactionInv ==
    /\ TypeOK /\ PersistQueue /\ StepOrder /\ Gated /\ OthersUntouched
    /\ PlanShape /\ ExposeLegs /\ UnexposeLegs

-----------------------------------------------------------------------------

(***************************************************************************)
(* A rename that nothing disturbs lands. Not so: verifyDNS answers a       *)
(* rename with 'unknown verb', and the nginx probe expects the new name    *)
(* not to be served.                                                       *)
(***************************************************************************)
RenameLands == op.verb = "rename" /\ outcome = "failed" => tainted # {}
=============================================================================
