-------------------------------- MODULE Audit --------------------------------
(***************************************************************************)
(* The read side of the engine: audit, status and export                   *)
(* (internal/core/{audit,chain,ingress,status,export,report}.go).          *)
(*                                                                         *)
(* Each of the three reads every edge in wiring order, then every DNS      *)
(* provider, one call at a time, while the world goes on changing: other   *)
(* administrators edit routes, records and tunnel configs, targets stop    *)
(* answering, and a crenel transaction may be half-way.  What is modelled  *)
(* of a report is the set of its findings (severity, code, subject); an    *)
(* aggregated finding is one element per host it lists.                    *)
(*                                                                         *)
(* Hosts contains the wildcard patterns as well (the set Wild): a name has *)
(* a zone, and *.zone covers every name under it, itself included.         *)
(***************************************************************************)
EXTENDS DnsDrivers

CONSTANTS
    NoRoute,
    NotRead,        \* a target no call has read yet
    Failed,         \* a read that returned an error
    Wild,           \* the names that are patterns
    ZoneOf,         \* name -> its zone
    ManagedZone,    \* provider -> its declared zone, "" when it declares none
    AssertsAuth,    \* edges with the auth_downstream flag
    Evidence,       \* edge -> declared read evidence
    IngressPath,    \* edges with an ingress config file
    Healthy,        \* worlds a deployment starts from
    Settings,       \* [dns, internal, readonly, ingress]: what the operator declares
    Edits,          \* routes another administrator leaves behind
    RecordEdits,    \* records another administrator leaves behind
    EdgeEdits,      \* the other traits of a live edge after an edit
    Files,          \* contents of an ingress config file
    MaxDrift        \* bound on changes from outside

VARIABLES
    settings,   \* the engine's configuration
    edges,      \* edge -> live state
    zone,       \* provider -> live records
    file,       \* edge -> its ingress config file
    down,       \* the targets that do not answer
    drift,      \* changes made from outside so far
    op,         \* the crenel transaction that is under way
    job,        \* the report being made
    reads,      \* the settings it is made with and what it has read
    out         \* the last report

world == <<edges, zone, file, down>>
vars == <<settings, world, drift, op, job, reads, out>>

Route == [mode  : {"http", "mesh"},
          dial  : {"origin", "downstream"},
          auth  : {"none", "named"},
          sni   : {"host", "other"},
          owner : {"crenel", "unmanaged", "foreign", "unknown"}]

\* How an edge is reached from outside.  A declaration is free text, of which
\* "other" stands for every word that is not a kind.
IngressKinds == {"", "public-listener", "tunnel", "overlay", "unknown", "other"}

\* ingress is what the driver reports; none in this repository reports one.
LiveEdge == [routes    : [Hosts -> Route \cup {NoRoute}],
             deny      : BOOLEAN,
             unparsed  : SUBSET {"unknown", "acknowledged"},
             generator : {"none", "npm", "pangolin"},
             ingress   : IngressKinds,
             ephemeral : BOOLEAN]

File == [kind  : {"absent", "cloudflared", "tailscale", "malformed", "other"},
         exact : SUBSET Hosts,
         wild  : SUBSET Wild]

ReadsType == [conf  : Settings,
              edge  : [Edges -> LiveEdge \cup {NotRead, Failed}],
              file  : [Edges -> File] \cup {NotRead},
              zone  : [Providers -> Zone \cup {NotRead}],
              cover : [Providers -> Zone \cup {NotRead}]]

World == [edges : [Edges -> LiveEdge], zone : [Providers -> Zone], file : [Edges -> File]]

ASSUME AuditAssumption ==
    /\ NotRead # Failed /\ {NotRead, Failed} \cap LiveEdge = {}
    /\ Wild \subseteq Hosts
    /\ DOMAIN ZoneOf = Hosts
    /\ \A v, w \in Wild : ZoneOf[v] = ZoneOf[w] => v = w
    /\ DOMAIN ManagedZone = Providers
    /\ \A p \in Providers :
          Covers[p] = {h \in Hosts : ManagedZone[p] \in {"", ZoneOf[h]}}
    /\ AssertsAuth \subseteq Edges
    /\ IngressPath \subseteq Edges
    /\ Evidence \in [Edges -> {"runtime", "config", "unreported"}]
    /\ \A w \in Healthy : w \in World
    /\ \A s \in Settings : s \in [dns : SUBSET Providers, internal : BOOLEAN, readonly : BOOLEAN,
                                  ingress : [Edges -> IngressKinds]]
    /\ Edits \subseteq Route \cup {NoRoute}
    /\ RecordEdits \subseteq RecordOrNone
    /\ EdgeEdits \subseteq [deny      : BOOLEAN,
                          unparsed  : SUBSET {"unknown", "acknowledged"},
                          generator : {"none", "npm", "pangolin"},
                          ephemeral : BOOLEAN]
    /\ Files \subseteq File
    /\ MaxDrift \in Nat

-----------------------------------------------------------------------------
(***************************************************************************)
(* The wildcard rule and the chain context.                                *)
(***************************************************************************)
wildcardPatternCovers(p, h) == p \in Wild /\ ZoneOf[p] = ZoneOf[h]

chainTargets == {Downstream[e] : e \in Edges} \ {NoEdge}

isChainFront(e) == Downstream[e] # NoEdge

chainForward(e, r) ==
    /\ isChainFront(e) /\ r.mode # "mesh"
    /\ e \notin DownstreamAddress \/ r.dial = "downstream"

\* The edges whose reads succeeded, and the routes they returned.
Readable(rd) == {e \in Edges : rd.edge[e] # Failed}
Routes(rd, e) == {h \in Hosts : rd.edge[e].routes[h] # NoRoute}
RouteAt(rd, e, h) == rd.edge[e].routes[h]

wildcardRouteCovering(rd, e, h) == {p \in Routes(rd, e) : wildcardPatternCovers(p, h)}

\* Mutant of wildcardForwardCoverage: a relay is looked up like a host.
CoversNothing(rd, e, h) == {}

wildcardForwardCoverage(rd, e, h) ==
    IF /\ h \in Wild /\ chainForward(e, RouteAt(rd, e, h))
       /\ Downstream[e] \in Readable(rd)
    THEN {g \in Routes(rd, Downstream[e]) : wildcardPatternCovers(h, g)}
    ELSE {}

\* The chain link of the route for h on e: no link when it is no forward.
resolveChain(rd, e, h) ==
    LET d == Downstream[e]
        found == d \in Readable(rd) /\ h \in Routes(rd, d)
    IN  IF ~ chainForward(e, RouteAt(rd, e, h))
        THEN [link |-> FALSE, resolved |-> FALSE, auth |-> "none"]
        ELSE [link     |-> TRUE,
              resolved |-> found,
              auth     |-> IF found THEN RouteAt(rd, d, h).auth ELSE "none"]


effectiveAuth(rd, e, h) ==
    LET r == RouteAt(rd, e, h)
        l == resolveChain(rd, e, h)
    IN  IF r.auth # "none" THEN r.auth
        ELSE IF r.mode = "mesh" THEN "none"
        ELSE IF l.link THEN (IF l.resolved THEN l.auth ELSE "downstream")
        ELSE IF e \in AssertsAuth THEN "downstream"
        ELSE "none"

-----------------------------------------------------------------------------
(***************************************************************************)
(* Off-edge ingress.  A recognized file recovers the published names; a    *)
(* Tailscale file that is not valid JSON recovers none and still counts as *)
(* parsed.                                                                 *)
(***************************************************************************)
Recognized(f) == f.kind \in {"cloudflared", "tailscale", "malformed"}

detectIngressFile(f) ==
    CASE f.kind = "absent" -> ""
      [] f.kind = "cloudflared" -> "tunnel"
      [] f.kind \in {"tailscale", "malformed"} -> "overlay"
      [] f.kind = "other" -> "unknown"

\* Mutant of resolveIngressKind: a tunnel file wins over the declaration.
DetectedFirst(rd, e) ==
    IF e \in IngressPath /\ detectIngressFile(rd.file[e]) # ""
    THEN detectIngressFile(rd.file[e])
    ELSE rd.conf.ingress[e]

\* Declared, else detected, else reported, else the rule for Pangolin.
resolveIngressKind(rd, e) ==
    IF rd.conf.ingress[e] # "" THEN rd.conf.ingress[e]
    ELSE IF e \in IngressPath /\ detectIngressFile(rd.file[e]) # ""
    THEN detectIngressFile(rd.file[e])
    ELSE IF rd.edge[e].ingress # "" THEN rd.edge[e].ingress
    ELSE IF rd.edge[e].generator = "pangolin" THEN "overlay"
    ELSE ""

External(k) == k \in {"tunnel", "overlay", "unknown"}

cloudflaredIngressHosts(f) == IF f.kind = "cloudflared" THEN f.exact ELSE {}
tailscaleFunnelHosts(f) == IF f.kind = "tailscale" THEN f.exact ELSE {}

tunnelIngressHosts(f) ==
    [exact  |-> cloudflaredIngressHosts(f) \cup tailscaleFunnelHosts(f),
     wild   |-> IF f.kind = "cloudflared" THEN f.wild ELSE {},
     parsed |-> Recognized(f)]

\* h # w: the zone itself is not under its own pattern, and no name is
\* the bare zone here.
ingressPublishes(h, m) ==
    h \in m.exact \/ \E w \in m.wild : wildcardPatternCovers(w, h)

\* Edges fronted from outside, and the ones whose own rules were recovered.
ExternalEdges(rd) == {e \in Readable(rd) : External(resolveIngressKind(rd, e))}

RecoveredEdges(rd) ==
    {e \in ExternalEdges(rd) \cap IngressPath : tunnelIngressHosts(rd.file[e]).parsed}

tunnelPublic(rd) ==
    {h \in Hosts : \E e \in RecoveredEdges(rd) :
        h \in Routes(rd, e) /\ ingressPublishes(h, tunnelIngressHosts(rd.file[e]))}

exposed(rd) == UNION {Routes(rd, e) : e \in Readable(rd)}

exposedOnPlainEdge(rd) == UNION {Routes(rd, e) : e \in Readable(rd) \ RecoveredEdges(rd)}

hostModes(rd, h) == {RouteAt(rd, e, h).mode : e \in {x \in Readable(rd) : h \in Routes(rd, x)}}

isMeshGrant(rd, h) == "mesh" \in hostModes(rd, h)

hostAuth(rd) ==
    {h \in Hosts : \E e \in Readable(rd) :
        h \in Routes(rd, e) /\ effectiveAuth(rd, e, h) = "named"}

hostAuthDownstream(rd) ==
    {h \in Hosts : \E e \in Readable(rd) :
        h \in Routes(rd, e) /\ effectiveAuth(rd, e, h) = "downstream"}

-----------------------------------------------------------------------------
(***************************************************************************)
(* The findings.                                                           *)
(***************************************************************************)
Finding(sev, code, about) == [sev |-> sev, code |-> code, about |-> about]

\* All of S when P, else nothing.
If(P, S) == IF P THEN S ELSE {}

Unreadable(rd) == {Finding("warning", "edge_unreadable", e) : e \in Edges \ Readable(rd)}

SniFindings(rd, e) ==
    {Finding("warning", "sni_host_mismatch", h) :
        h \in {g \in Routes(rd, e) : /\ RouteAt(rd, e, g).mode = "http"
                                     /\ RouteAt(rd, e, g).sni = "other"}}

EvidenceFindings(e) ==
    If(Evidence[e] = "config", {Finding("ok", "config_evidence_only", e)})

\* The ternary deny verdict of model.LiveEdgeState.
DenyState(l) ==
    IF ~ l.deny THEN "missing"
    ELSE IF "unknown" \in l.unparsed THEN "unknown"
    ELSE "enforced"

DenyFindings(rd, e) ==
    {CASE DenyState(rd.edge[e]) = "enforced" -> Finding("ok", "deny_catchall_present", e)
       [] DenyState(rd.edge[e]) = "unknown"  -> Finding("warning", "deny_catchall_unknown", e)
       [] DenyState(rd.edge[e]) = "missing"  -> Finding("critical", "deny_catchall_missing", e)}

CoverageFindings(rd, e) ==
    If("unknown" \in rd.edge[e].unparsed, {Finding("warning", "coverage_incomplete", e)})
    \cup If("acknowledged" \in rd.edge[e].unparsed, {Finding("ok", "acknowledged_unknown", e)})

unconfirmedOwnershipHosts(rd, e) ==
    {h \in Routes(rd, e) : RouteAt(rd, e, h).owner \in {"foreign", "unknown"}}

OwnershipFindings(rd, e) ==
    IF rd.edge[e].generator # "none"
    THEN {IF rd.conf.readonly THEN Finding("ok", "foreign_managed_readonly", e)
                               ELSE Finding("warning", "ownership_unconfirmed", e)}
    ELSE {Finding("warning", "ownership_unconfirmed", h) : h \in unconfirmedOwnershipHosts(rd, e)}

PangolinFindings(rd, e) ==
    If(rd.edge[e].generator = "pangolin" /\ Evidence[e] # "runtime",
       {Finding("warning", "pangolin_http_provider", e)})

IngressFindings(rd, e) ==
    If(e \in ExternalEdges(rd), {Finding("warning", "ingress_external", e)})
    \cup If(e \in RecoveredEdges(rd),
            {Finding("ok", "ingress_public_hosts", h) :
                h \in {g \in Routes(rd, e) : ingressPublishes(g, tunnelIngressHosts(rd.file[e]))}})

DurabilityFindings(rd, e) ==
    If(rd.edge[e].ephemeral /\ \E h \in Routes(rd, e) : RouteAt(rd, e, h).owner = "crenel",
       {Finding("warning", "ephemeral_writes", e)})

ChainFindings(rd, e) ==
    {IF resolveChain(rd, e, h).resolved \/ wildcardForwardCoverage(rd, e, h) # {}
     THEN Finding("ok", "chain_resolved", h)
     ELSE Finding("warning", "chain_unresolved", h) :
        h \in {g \in Routes(rd, e) : resolveChain(rd, e, g).link}}

EdgeFindings(rd) ==
    UNION {SniFindings(rd, e) \cup EvidenceFindings(e) \cup DenyFindings(rd, e)
           \cup CoverageFindings(rd, e) \cup OwnershipFindings(rd, e)
           \cup PangolinFindings(rd, e) \cup IngressFindings(rd, e)
           \cup DurabilityFindings(rd, e) \cup ChainFindings(rd, e) : e \in Readable(rd)}

DanglingIngress(rd) ==
    {Finding("warning", "tunnel_route_without_edge", h) :
        h \in (UNION {tunnelIngressHosts(rd.file[e]).exact : e \in RecoveredEdges(rd)})
              \ exposed(rd)}

CrossEdgeFindings(rd) ==
    If(Cardinality(Edges) > 1,
       {Finding("warning", "edge_inconsistent_exposure", h) :
           h \in {g \in exposed(rd) : \E e \in Readable(rd) :
                     g \in Fronts[e] /\ g \notin Routes(rd, e)}})
    \cup {Finding("warning", "edge_mode_mismatch", h) :
             h \in {g \in exposed(rd) : Cardinality(hostModes(rd, g)) > 1}}

-----------------------------------------------------------------------------
(***************************************************************************)
(* DNS.  recs is LiveRecords (what crenel owns, at Cloudflare), coverage   *)
(* the whole zone; Cloudflare is asked for the two one after the other.    *)
(***************************************************************************)
recs(rd, p) == {h \in Hosts : LiveValue(p, rd.zone[p][h]) # NoValue}
coverage(rd, p) == {h \in Hosts : rd.cover[p][h].value # NoValue}

PublicProviders(c) == {p \in c.dns : Scope[p] = "public"}
InternalProviders(c) == c.dns \ PublicProviders(c)

\* The names some wired provider answers, exactly or by a pattern.
dnsCovered(rd) == UNION {coverage(rd, p) : p \in rd.conf.dns}
wildcardCovered(ps, rd, h) ==
    \E p \in ps : \E w \in coverage(rd, p) : wildcardPatternCovers(w, h)

publicDNSHosts(rd) == UNION {recs(rd, p) : p \in PublicProviders(rd.conf)}

SeverityAt(p) == IF Scope[p] = "public" THEN "critical" ELSE "warning"

ValueDrift(rd, p) ==
    If(OwnsAllLiveRecords(p),
       {Finding(SeverityAt(p), "dns_value_drift", h) :
           h \in {g \in recs(rd, p) : rd.zone[p][g].value # Target[p]}})

MeshGrantNamed(rd, p) ==
    If(Scope[p] = "public",
       {Finding("warning", "public_dns_for_mesh_grant", h) :
           h \in {g \in recs(rd, p) : isMeshGrant(rd, g)}})

wildcardBacksAnyExposed(rd, w) == \E h \in exposed(rd) : wildcardPatternCovers(w, h)

Dangling(rd, p) ==
    {Finding(SeverityAt(p), "dns_without_edge_route", h) :
        h \in {g \in recs(rd, p) :
                 IF g \in Wild THEN ~ wildcardBacksAnyExposed(rd, g) ELSE g \notin exposed(rd)}}

Explicit(rd, p) == recs(rd, p) \ Wild
Patterns(rd, p, h) == {w \in recs(rd, p) : wildcardPatternCovers(w, h)}

\* Parity of the internal resolvers of one zone: every name one of them
\* holds is answered by all, and a pattern that stands in for a name answers
\* what some resolver answers explicitly.
Parity(rd, group) ==
    LET union == UNION {Explicit(rd, p) : p \in group}
        holders(h) == {p \in group : h \in Explicit(rd, p)}
        said(h) == {rd.zone[p][h].value : p \in holders(h)}
        missing(h) == \E p \in group \ holders(h) : Patterns(rd, p, h) = {}
        astray(h) == \E p \in group \ holders(h) :
                        \E w \in Patterns(rd, p, h) : rd.zone[p][w].value \notin said(h)
    IN  If(Cardinality(group) > 1,
           {Finding("warning", "dns_coverage_parity", h) :
               h \in {g \in union : missing(g) \/ astray(g)}})

Peers(c, p) == {q \in InternalProviders(c) : ManagedZone[q] = ManagedZone[p]}

anyManagedZoneCovers(c, h) == \E p \in c.dns : h \in Covers[p]

ReverseFindings(rd) ==
    If(rd.conf.dns # {},
       {Finding(IF anyManagedZoneCovers(rd.conf, h) THEN "warning" ELSE "ok",
                IF anyManagedZoneCovers(rd.conf, h) THEN "edge_route_without_dns"
                                           ELSE "edge_route_outside_managed_zones", h) :
           h \in {g \in exposed(rd) \ dnsCovered(rd) : ~ wildcardCovered(rd.conf.dns, rd, g)}})

DnsFindings(rd) ==
    (UNION {ValueDrift(rd, p) \cup MeshGrantNamed(rd, p) \cup Dangling(rd, p) : p \in rd.conf.dns})
    \cup (UNION {Parity(rd, Peers(rd.conf, p)) : p \in InternalProviders(rd.conf)})
    \cup ReverseFindings(rd)

-----------------------------------------------------------------------------
(***************************************************************************)
(* Posture: public hosts without auth, and services declared internal.     *)
(***************************************************************************)
observedPublic(rd) == tunnelPublic(rd) \cup publicDNSHosts(rd)

PublicHosts(rd) ==
    tunnelPublic(rd)
    \cup (IF PublicProviders(rd.conf) # {} THEN publicDNSHosts(rd) ELSE exposedOnPlainEdge(rd))

PublicWithoutAuth(rd) ==
    {IF h \in hostAuthDownstream(rd) THEN Finding("ok", "auth_downstream", h)
     ELSE IF rd.conf.internal /\ h \notin observedPublic(rd)
     THEN Finding("ok", "exposure_unscoped", h)
     ELSE Finding("warning", "public_without_auth", h) :
        h \in {g \in exposed(rd) \cap PublicHosts(rd) : ~ isMeshGrant(rd, g)} \ hostAuth(rd)}

\* The chain fronts that carry h: by a route of its own, by a covering relay.
FrontsRouting(rd, h) == {e \in Readable(rd) : isChainFront(e) /\ h \in Routes(rd, e)}
FrontsRelaying(rd, h) ==
    {e \in Readable(rd) :
        /\ isChainFront(e) /\ h \notin Routes(rd, e)
        /\ \E w \in wildcardRouteCovering(rd, e, h) : chainForward(e, RouteAt(rd, e, w))}

InternalFindings(rd, h) ==
    If(\/ \E p \in PublicProviders(rd.conf) : h \in coverage(rd, p) \ Wild
       \/ FrontsRouting(rd, h) # {}
       \/ h \in tunnelPublic(rd),
       {Finding("critical", "internal_scope_public_exposure", h)})
    \cup If(wildcardCovered(PublicProviders(rd.conf), rd, h) /\ FrontsRelaying(rd, h) # {},
            {Finding("warning", "internal_scope_wildcard_covered", h)})

AuditReport(rd) ==
    Unreadable(rd) \cup EdgeFindings(rd) \cup DanglingIngress(rd) \cup CrossEdgeFindings(rd)
    \cup DnsFindings(rd) \cup PublicWithoutAuth(rd)
    \cup UNION {InternalFindings(rd, h) : h \in InternalScope}

OK(findings) == \A f \in findings : f.sev = "ok"
HasCritical(findings) == \E f \in findings : f.sev = "critical"

-----------------------------------------------------------------------------
(***************************************************************************)
(* Status and export, from the same kind of reads.                         *)
(***************************************************************************)
annotateChain(rd, e) ==
    [h \in Routes(rd, e) |->
        IF isChainFront(e) \/ e \in AssertsAuth THEN effectiveAuth(rd, e, h)
        ELSE RouteAt(rd, e, h).auth]

\* Mutant of StatusRow: an edge that was not read has nothing unparsed.
RowAssumed(rd, e) ==
    IF rd.edge[e] = Failed THEN [deny |-> "enforced", auth |-> <<>>]
    ELSE [deny |-> DenyState(rd.edge[e]), auth |-> annotateChain(rd, e)]

StatusRow(rd, e) ==
    IF rd.edge[e] = Failed
    THEN [deny |-> DenyState([deny |-> TRUE, unparsed |-> {"unknown"}]), auth |-> <<>>]
    ELSE [deny |-> DenyState(rd.edge[e]), auth |-> annotateChain(rd, e)]

StatusReport(rd) == [e \in Edges |-> StatusRow(rd, e)]

ExportSnapshotData(rd) == [e \in Edges |-> Routes(rd, e)]

-----------------------------------------------------------------------------
(***************************************************************************)
(* The worlds a deployment starts from give no critical alarm: every edge  *)
(* denies, what is announced in public is routed and answers the target,   *)
(* and nothing declared internal is announced, relayed or published.       *)
(***************************************************************************)
Announced(w, s, p, h) ==
    p \in s.dns /\ Scope[p] = "public" /\ LiveValue(p, w.zone[p][h]) # NoValue

RoutedIn(w, h) == \E e \in Edges : w.edges[e].routes[h] # NoRoute

NoAlarm(w, s) ==
    /\ \A e \in Edges : w.edges[e].deny
    /\ \A p \in Providers, h \in Hosts : Announced(w, s, p, h) =>
        /\ h \in Covers[p]
        /\ OwnsAllLiveRecords(p) => w.zone[p][h].value = Target[p]
        /\ IF h \in Wild THEN \E g \in Hosts : wildcardPatternCovers(h, g) /\ RoutedIn(w, g)
                        ELSE RoutedIn(w, h)
    /\ \A h \in InternalScope :
        /\ \A p \in s.dns : Scope[p] = "public" /\ h \notin Wild => w.zone[p][h].value = NoValue
        /\ \A e \in Edges : w.edges[e].routes[h] # NoRoute =>
            /\ ~ isChainFront(e)
            /\ e \in IngressPath => ~ ingressPublishes(h, tunnelIngressHosts(w.file[e]))

ASSUME HealthyAssumption == \A w \in Healthy, s \in Settings : NoAlarm(w, s)

-----------------------------------------------------------------------------
NoReads == [conf  |-> settings,
            edge  |-> [e \in Edges |-> NotRead],
            file  |-> NotRead,
            zone  |-> [p \in Providers |-> NotRead],
            cover |-> [p \in Providers |-> NotRead]]

Idle == [kind |-> "idle", quiet |-> TRUE]

NoOp == [verb |-> "none", host |-> NoService, todo |-> {}]

NoReport == [kind |-> "none", err |-> FALSE, quiet |-> FALSE, report |-> {}]

Init ==
    /\ settings \in Settings
    /\ \E w \in Healthy : edges = w.edges /\ zone = w.zone /\ file = w.file
    /\ down = {}
    /\ drift = 0
    /\ op = NoOp
    /\ job = Idle
    /\ reads = NoReads
    /\ out = NoReport

\* The world changes under a report that is being made, and outdates the last.
Disturbs ==
    /\ job' = [job EXCEPT !.quiet = FALSE]
    /\ out' = NoReport
    /\ UNCHANGED <<settings, reads>>

-----------------------------------------------------------------------------
(***************************************************************************)
(* Changes from outside: other administrators, outages.                    *)
(***************************************************************************)
\* Bound: one of the changes may fall into a report, the others come between.
Drift ==
    /\ drift < MaxDrift /\ op = NoOp
    /\ job.kind = "idle" \/ drift = 0
    /\ drift' = drift + 1
    /\ Disturbs
    /\ UNCHANGED op

EditRoute(e, h) ==
    /\ Drift
    /\ \E r \in Edits : edges' = [edges EXCEPT ![e].routes[h] = r]
    /\ UNCHANGED <<zone, file, down>>

EditEdge(e) ==
    /\ Drift
    /\ \E t \in EdgeEdits :
          edges' = [edges EXCEPT ![e].deny = t.deny, ![e].unparsed = t.unparsed,
                                 ![e].generator = t.generator, ![e].ephemeral = t.ephemeral]
    /\ UNCHANGED <<zone, file, down>>

EditRecord(p, h) ==
    /\ Drift
    /\ h \in Covers[p]
    /\ \E r \in RecordEdits : zone' = [zone EXCEPT ![p][h] = r]
    /\ UNCHANGED <<edges, file, down>>

EditFile(e) ==
    /\ Drift
    /\ e \in IngressPath
    /\ \E f \in Files : file' = [file EXCEPT ![e] = f]
    /\ UNCHANGED <<edges, zone, down>>

Outage(t) ==
    /\ Drift
    /\ down' = down \cup {t}
    /\ UNCHANGED <<edges, zone, file>>

(***************************************************************************)
(* A crenel transaction that works, one target at a time in apply order.   *)
(***************************************************************************)
Participants(h) ==
    {e \in Edges : roleFor(e, h) # "none"}
    \cup {p \in settings.dns : h \in Covers[p] /\ ~ (Scope[p] = "public" /\ internalScoped(h))}

BeginOp(v, h) ==
    /\ op = NoOp /\ drift = 0 /\ h \notin Wild
    /\ v = "expose" <=> \A e \in Edges : edges[e].routes[h] = NoRoute
    /\ op' = [verb |-> v, host |-> h, todo |-> Participants(h)]
    /\ UNCHANGED <<settings, world, drift, job, reads, out>>

CanonicalRoute(e, h) ==
    [mode |-> "http", sni |-> "host", owner |-> "crenel",
     dial |-> IF roleFor(e, h) = "terminal" THEN "origin" ELSE "downstream",
     auth |-> IF roleFor(e, h) = "terminal" THEN "named" ELSE "none"]

OpStep ==
    \E t \in op.todo :
        /\ First(op.verb, t, op.todo)
        /\ op' = [op EXCEPT !.todo = @ \ {t}]
        /\ \/ /\ t \in Edges
              /\ edges' = [edges EXCEPT ![t].routes[op.host] =
                              IF op.verb = "expose" THEN CanonicalRoute(t, op.host) ELSE NoRoute]
              /\ UNCHANGED zone
           \/ /\ t \in Providers
              /\ zone' = [zone EXCEPT ![t][op.host] =
                              IF op.verb = "expose" THEN [value |-> Target[t], ours |-> TRUE]
                              ELSE NoRecord]
              /\ UNCHANGED edges
        /\ Disturbs
        /\ UNCHANGED <<file, down, drift>>

-----------------------------------------------------------------------------
(***************************************************************************)
(* The commands.                                                           *)
(***************************************************************************)
Start(k) ==
    /\ job.kind = "idle"
    /\ job' = [kind |-> k, quiet |-> TRUE]
    /\ reads' = NoReads
    /\ out' = NoReport
    /\ UNCHANGED <<settings, world, drift, op>>

\* A read that fails ends the command.
Abort ==
    /\ out' = [kind |-> job.kind, err |-> TRUE, quiet |-> job.quiet, report |-> {}]
    /\ job' = Idle
    /\ reads' = NoReads

Next1(S) == {t \in S : \A u \in S : WirePos[t] <= WirePos[u]}

UnreadEdges == {e \in Edges : reads.edge[e] = NotRead}

\* readAll tolerates the failure of a chain target; export uses no readAll.
Tolerated(e) == job.kind # "export" /\ e \in chainTargets

ReadEdge ==
    /\ job.kind # "idle"
    /\ \E e \in Next1(UnreadEdges) :
          \/ /\ e \in down /\ ~ Tolerated(e)
             /\ Abort
          \/ /\ e \notin down \/ Tolerated(e)
             /\ reads' = [reads EXCEPT !.edge[e] = IF e \in down THEN Failed ELSE edges[e]]
             /\ UNCHANGED <<job, out>>
    /\ UNCHANGED <<settings, world, drift, op>>

ReadIngress ==
    /\ job.kind \in {"audit", "status"}
    /\ UnreadEdges = {} /\ reads.file = NotRead
    /\ reads' = [reads EXCEPT !.file = file]
    /\ UNCHANGED <<settings, world, drift, op, job, out>>

UnreadProviders ==
    {p \in settings.dns : \/ reads.zone[p] = NotRead
                          \/ job.kind = "audit" /\ reads.cover[p] = NotRead}

ReadZone ==
    /\ job.kind # "idle" /\ UnreadEdges = {}
    /\ job.kind = "export" \/ reads.file # NotRead
    /\ \E p \in Next1(UnreadProviders) :
          \/ p \in down /\ Abort
          \/ /\ p \notin down /\ reads.zone[p] = NotRead
             /\ reads' = [reads EXCEPT !.zone[p] = zone[p],
                                       !.cover[p] = IF OwnsAllLiveRecords(p) THEN @ ELSE zone[p]]
             /\ UNCHANGED <<job, out>>
          \/ /\ p \notin down /\ reads.zone[p] # NotRead
             /\ reads' = [reads EXCEPT !.cover[p] = zone[p]]
             /\ UNCHANGED <<job, out>>
    /\ UNCHANGED <<settings, world, drift, op>>

Conclude ==
    /\ job.kind # "idle" /\ UnreadEdges = {} /\ UnreadProviders = {}
    /\ job.kind = "export" \/ reads.file # NotRead
    /\ out' = [kind   |-> job.kind, err |-> FALSE, quiet |-> job.quiet,
               report |-> CASE job.kind = "audit"  -> AuditReport(reads)
                            [] job.kind = "status" -> StatusReport(reads)
                            [] job.kind = "export" -> ExportSnapshotData(reads)]
    /\ job' = Idle
    /\ reads' = NoReads
    /\ UNCHANGED <<settings, world, drift, op>>

Next ==
    \/ \E k \in {"audit", "status", "export"} : Start(k)
    \/ ReadEdge \/ ReadIngress \/ ReadZone \/ Conclude
    \/ \E e \in Edges : EditEdge(e) \/ EditFile(e)
    \/ \E e \in Edges, h \in Hosts : EditRoute(e, h)
    \/ \E p \in Providers, h \in Hosts : EditRecord(p, h)
    \/ \E t \in Targets : Outage(t)
    \/ \E v \in {"expose", "unexpose"}, h \in Hosts : BeginOp(v, h)
    \/ OpStep

Spec == Init /\ [][Next]_vars

-----------------------------------------------------------------------------
(***************************************************************************)
(* What is really reachable, from the world and not from the reads, nor by *)
(* the rules of the audit.  The one thing taken from the operator is which *)
(* ports the internet reaches: all that no tunnel stands before, unless    *)
(* the deployment is declared internal, and any declared a public          *)
(* listener.  With a public provider wired, requests to a port arrive by   *)
(* the names its zone answers.                                             *)
(***************************************************************************)
Entries == Edges \ chainTargets

\* The route a request for h meets at e: its own, else a covering pattern's.
Met(e, h) ==
    LET own == edges[e].routes[h]
        ps == {w \in Wild : wildcardPatternCovers(w, h) /\ edges[e].routes[w] # NoRoute}
    IN  IF own # NoRoute \/ ps = {} THEN own
        ELSE edges[e].routes[CHOOSE w \in ps : TRUE]

Ungated(e, h) == Met(e, h) # NoRoute /\ Met(e, h).mode = "http" /\ Met(e, h).auth = "none"

Relays(e, h) == Met(e, h) # NoRoute /\ Met(e, h).dial = "downstream" /\ isChainFront(e)

\* A request that enters at e is relayed down the chain and ends in a
\* backend, past no gate.
OpenFrom(e, h) ==
    \E k \in 0..(N - 1) :
        /\ Hop[k][e] # NoEdge
        /\ \A j \in 0..k : Ungated(Hop[j][e], h)
        /\ \A j \in 0..(k - 1) : Relays(Hop[j][e], h)
        /\ ~ Relays(Hop[k][e], h)

\* The edges behind a tunnel or a funnel; only a tunnel publishes patterns.
Tunnelled == {e \in IngressPath : file[e].kind \in {"cloudflared", "tailscale"}}

Publishes(e, h) ==
    \/ h \in file[e].exact
    \/ file[e].kind = "cloudflared" /\ \E w \in file[e].wild : wildcardPatternCovers(w, h)

ByTunnel(e, h) == e \in Tunnelled /\ Publishes(e, h)

\* A public record, whoever made it, answers h or a pattern that covers h.
ByName(e, h) ==
    /\ e \in Entries
    /\ \E p \in PublicProviders(settings) :
          \/ zone[p][h].value # NoValue
          \/ \E w \in Wild : wildcardPatternCovers(w, h) /\ zone[p][w].value # NoValue

ByPort(e) ==
    /\ e \in Entries
    /\ PublicProviders(settings) = {} /\ ~ settings.internal
    /\ e \notin Tunnelled \/ settings.ingress[e] = "public-listener"

\* Requests for h from the internet arrive at e.
PublicAt(e, h) == ByTunnel(e, h) \/ ByName(e, h) \/ ByPort(e)

Audited == out.kind = "audit" /\ ~ out.err /\ out.quiet

Warned(h) == \E f \in out.report : f.about = h /\ f.sev # "ok"

-----------------------------------------------------------------------------
\* Shapes; and a failed read is kept only for the target of a chain.
TypeOK ==
    /\ settings \in Settings
    /\ edges \in [Edges -> LiveEdge]
    /\ zone \in [Providers -> Zone]
    /\ file \in [Edges -> File]
    /\ down \subseteq Targets
    /\ drift \in 0..MaxDrift
    /\ job \in [kind : {"idle", "audit", "status", "export"}, quiet : BOOLEAN]
    /\ op \in [verb : {"none", "expose", "unexpose"}, host : Services, todo : SUBSET Targets]
    /\ reads \in ReadsType /\ reads.conf = settings
    /\ \A e \in Edges : reads.edge[e] = Failed => e \in chainTargets

\* No cry-wolf: the worlds a deployment is meant to be in, and the ones a
\* finished expose or unexpose makes of them, are audited clean (wildcard
\* relays, wildcard records, split horizon and all).
\* The pattern of a zone that exposes nothing is dangling, and says so; so does
\* an edge that is declared to be reached by a way crenel cannot see.
HealthyIsClean ==
    /\ Audited /\ drift = 0 /\ op.todo = {}
    /\ \E e \in Edges, h \in Hosts : edges[e].routes[h] # NoRoute
    /\ \A e \in Edges : ~ External(settings.ingress[e])
    => OK(out.report)

\* An edge gates h, on its own or behind its chain.
GatedSomewhere(h) ==
    \E e \in Edges \ down : edges[e].routes[h] # NoRoute /\ ~ OpenFrom(e, h)

\* The operator declared e to be reached through its own port (or by a word
\* the code does not know): its tunnel file is not opened for the host rules.
DeclaredPlain(e) == settings.ingress[e] # "" /\ ~ External(settings.ingress[e])

\* What the audit does not go by, one operator for each way in.  It takes the
\* rules of a tunnel for what the edge routes by name.
UnseenTunnel(e, h) == DeclaredPlain(e) \/ edges[e].routes[h] = NoRoute

\* It judges the posture of a host by records that are crenel's (audit.go:600),
\* and only that of a service declared internal by all of them.
UnseenName(e, h) ==
    /\ \A p \in PublicProviders(settings) : LiveValue(p, zone[p][h]) = NoValue
    /\ h \in InternalScope =>
        /\ h \notin Wild => \A p \in PublicProviders(settings) : zone[p][h].value = NoValue
        /\ isChainFront(e) => edges[e].routes[h] = NoRoute /\ ~ Relays(e, h)

\* It takes an edge whose tunnel file was recognized for one that is reached by
\* the tunnel alone, and recognizes a Tailscale file that it cannot parse.
UnseenPort(h) ==
    \A e \in Edges \ down : edges[e].routes[h] # NoRoute =>
        /\ e \in IngressPath /\ ~ DeclaredPlain(e)
        /\ file[e].kind \in {"cloudflared", "tailscale", "malformed"}

\* Requests for h that arrive at e do so by ways the audit does not go by only.
Unseen(e, h) ==
    /\ ByTunnel(e, h) => UnseenTunnel(e, h)
    /\ ByName(e, h) => UnseenName(e, h)
    /\ ByPort(e) => UnseenPort(h)

\* The operator asserted a gate behind an edge that routes h; or h is a pattern
\* on a chain front that has no downstream address, where every route counts
\* as a relay.
TakenGated(h) ==
    \/ \E e \in AssertsAuth : edges[e].routes[h] # NoRoute
    \/ h \in Wild /\ \E e \in Edges \ DownstreamAddress :
            isChainFront(e) /\ edges[e].routes[h] # NoRoute /\ edges[e].routes[h].dial = "origin"

\* The posture check is complete: a host that requests from the internet reach
\* at e and get through, and that no edge gates, is named in a warning.  The
\* exceptions are above, each on its own way in: another way to the same host
\* is still seen.
OpenIsFlagged ==
    Audited => \A h \in Hosts, e \in Edges \ down :
        /\ PublicAt(e, h) /\ OpenFrom(e, h) /\ ~ Unseen(e, h)
        /\ ~ GatedSomewhere(h) /\ ~ TakenGated(h)
        => Warned(h)

\* An edge that could not be read is never shown in order: the audit warns,
\* status calls its deny unknown, export gives no snapshot.
UnreadableNeverGreen ==
    out.quiet => \A e \in down \cap Edges :
        \/ out.err
        \/ out.kind = "audit" /\ ~ OK(out.report)
        \/ out.kind = "status" /\ out.report[e].deny = "unknown"

DanglingPatterns(h) ==
    {Finding("critical", "dns_without_edge_route", w) : w \in {v \in Wild : ZoneOf[v] = ZoneOf[h]}}

\* The reads are not atomic, but names are taken down before routes and read
\* after them: an audit beside an unexpose raises no critical alarm.  Left out
\* is the public pattern that covers the host: it is dangling when the host was
\* the last one under it.
TeardownRaisesNoAlarm ==
    out.kind = "audit" /\ ~ out.err /\ drift = 0 /\ op.verb = "unexpose"
    => ~ HasCritical(out.report \ DanglingPatterns(op.host))

=============================================================================
