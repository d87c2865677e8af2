----------------------------- MODULE AuditProofs -----------------------------
(***************************************************************************)
(* Proofs about the reports of module Audit: what a report that nothing    *)
(* disturbed says of the world, and what an audit beside an unexpose says. *)
(***************************************************************************)
EXTENDS Audit, TopologyProofs

-----------------------------------------------------------------------------
(***************************************************************************)
(* Type correctness.                                                       *)
(***************************************************************************)
\* The parts of the assumption the proofs need, one by one: what was read is
\* neither a failure nor missing.
LEMMA Sentinels == NotRead # Failed /\ \A l \in LiveEdge : l # Failed /\ l # NotRead
BY AuditAssumption

\* The bound on the changes from outside is a number.
LEMMA BoundType == MaxDrift \in Nat
BY AuditAssumption

\* What others leave behind is typed.
LEMMA EditsTyped ==
    /\ Edits \subseteq Route \cup {NoRoute}
    /\ RecordEdits \subseteq RecordOrNone
    /\ Files \subseteq File
    /\ EdgeEdits \subseteq [deny      : BOOLEAN,
                          unparsed  : SUBSET {"unknown", "acknowledged"},
                          generator : {"none", "npm", "pangolin"},
                          ephemeral : BOOLEAN]
BY AuditAssumption

\* A report starts with typed reads: the settings, and no target.
LEMMA ReadsTyped ==
    ASSUME settings \in Settings
    PROVE  /\ NoReads \in ReadsType /\ NoReads.conf = settings
           /\ \A e \in Edges : NoReads.edge[e] = NotRead
BY DEF NoReads, ReadsType

\* Patterns are names, one for each zone.
LEMMA NamesTyped ==
    /\ Wild \subseteq Hosts /\ AssertsAuth \subseteq Edges /\ IngressPath \subseteq Edges
    /\ \A v, w \in Wild : ZoneOf[v] = ZoneOf[w] => v = w
BY AuditAssumption

\* The wired providers are providers.
LEMMA SettingsTyped == \A s \in Settings : s.dns \subseteq Providers
BY AuditAssumption

\* An edge with another route, or none, under a name.
LEMMA RouteEdit ==
    ASSUME NEW l \in LiveEdge, NEW h, NEW r \in Route \cup {NoRoute}
    PROVE  [l EXCEPT !.routes[h] = r] \in LiveEdge
BY DEF LiveEdge

\* A zone with another record under a name.
LEMMA RecordEdit ==
    ASSUME NEW z \in Zone, NEW h, NEW r \in RecordOrNone
    PROVE  [z EXCEPT ![h] = r] \in Zone
BY DEF Zone

\* The initial worlds are typed.
LEMMA InitType == Init => TypeOK
<1> SUFFICES ASSUME Init PROVE TypeOK
  OBVIOUS
<1>1. PICK w \in Healthy : edges = w.edges /\ zone = w.zone /\ file = w.file
  BY DEF Init
<1>2. w \in World
  BY AuditAssumption
<1>3. edges \in [Edges -> LiveEdge] /\ zone \in [Providers -> Zone] /\ file \in [Edges -> File]
  BY <1>1, <1>2 DEF World
<1>4. drift \in 0..MaxDrift
  BY BoundType DEF Init
<1>5. \A e \in Edges : reads.edge[e] # Failed
  BY Sentinels DEF Init, NoReads
<1> QED
  BY <1>3, <1>4, <1>5, ReadsTyped DEF Init, TypeOK, Idle, NoOp, Services

\* A change from outside.
LEMMA DriftType ==
    ASSUME TypeOK, Drift, edges' \in [Edges -> LiveEdge], zone' \in [Providers -> Zone],
           file' \in [Edges -> File], down' \subseteq Targets
    PROVE  TypeOK'
<1>1. drift' \in 0..MaxDrift
  BY BoundType DEF TypeOK, Drift
<1> QED
  BY <1>1 DEF TypeOK, Drift, Disturbs

\* Every step keeps the types.
LEMMA StepType == TypeOK /\ [Next]_vars => TypeOK'
<1> SUFFICES ASSUME TypeOK, [Next]_vars PROVE TypeOK'
  OBVIOUS
<1>1. CASE UNCHANGED vars
  BY <1>1 DEF TypeOK, vars, world
<1>2. ASSUME NEW k \in {"audit", "status", "export"}, Start(k)
      PROVE  TypeOK'
  <2>1. \A e \in Edges : reads'.edge[e] # Failed
    BY <1>2, Sentinels DEF Start, NoReads
  <2> QED
    BY <1>2, <2>1, ReadsTyped DEF TypeOK, Start, world
<1>3. ASSUME Abort, UNCHANGED <<settings, world, drift, op>>
      PROVE  TypeOK'
  <2>1. \A e \in Edges : reads'.edge[e] # Failed
    BY <1>3, Sentinels DEF Abort, NoReads
  <2> QED
    BY <1>3, <2>1, ReadsTyped DEF TypeOK, Abort, Idle, world
<1>4. CASE ReadEdge
  <2>1. PICK e \in Next1(UnreadEdges) :
          \/ Abort
          \/ /\ e \notin down \/ Tolerated(e)
             /\ reads' = [reads EXCEPT !.edge[e] = IF e \in down THEN Failed ELSE edges[e]]
             /\ UNCHANGED <<job, out>>
    BY <1>4 DEF ReadEdge
  <2>2. e \in Edges
    BY DEF Next1, UnreadEdges
  <2>3. CASE Abort
    BY <1>3, <1>4, <2>3 DEF ReadEdge
  <2>4. CASE ~ Abort
    <3>1. edges[e] # Failed
      BY <2>2, Sentinels DEF TypeOK
    <3>2. ASSUME NEW f \in Edges, reads'.edge[f] = Failed
          PROVE  f \in chainTargets
      BY <2>1, <2>4, <3>1, <3>2 DEF TypeOK, Tolerated, ReadsType
    <3>3. reads' \in ReadsType /\ reads'.conf = reads.conf
      <4> DEFINE l == IF e \in down THEN Failed ELSE edges[e]
      <4>1. l \in LiveEdge \cup {NotRead, Failed} /\ reads' = [reads EXCEPT !.edge[e] = l]
        BY <2>1, <2>2, <2>4 DEF TypeOK
      <4> HIDE DEF l
      <4> QED
        BY <2>2, <4>1 DEF TypeOK, ReadsType
    <3> QED
      BY <1>4, <2>1, <2>4, <3>2, <3>3 DEF TypeOK, ReadEdge, world
  <2> QED
    BY <2>3, <2>4
<1>5. CASE ReadIngress
  BY <1>5 DEF TypeOK, ReadIngress, world, ReadsType
<1>6. CASE ReadZone
  <2>1. CASE Abort
    BY <1>3, <1>6, <2>1 DEF ReadZone
  <2>2. CASE ~ Abort
    <3>1. PICK p \in Next1(UnreadProviders) :
            /\ \/ reads' = [reads EXCEPT !.zone[p] = zone[p],
                             !.cover[p] = IF OwnsAllLiveRecords(p) THEN @ ELSE zone[p]]
               \/ reads' = [reads EXCEPT !.cover[p] = zone[p]]
            /\ UNCHANGED <<job, out>>
      BY <1>6, <2>2 DEF ReadZone
    <3>2. p \in Providers
      BY SettingsTyped DEF Next1, UnreadProviders, TypeOK
    <3>3. reads' \in ReadsType /\ reads'.conf = reads.conf /\ reads'.edge = reads.edge
      <4>1. CASE reads' = [reads EXCEPT !.cover[p] = zone[p]]
        BY <3>2, <4>1 DEF TypeOK, ReadsType
      <4>2. CASE reads' = [reads EXCEPT !.zone[p] = zone[p],
                             !.cover[p] = IF OwnsAllLiveRecords(p) THEN @ ELSE zone[p]]
        <5>1. CASE OwnsAllLiveRecords(p)
          BY <3>2, <4>2, <5>1 DEF TypeOK, ReadsType
        <5>2. CASE ~ OwnsAllLiveRecords(p)
          BY <3>2, <4>2, <5>2 DEF TypeOK, ReadsType
        <5> QED
          BY <5>1, <5>2
      <4> QED
        BY <3>1, <4>1, <4>2
    <3> QED
      BY <1>6, <3>1, <3>3 DEF TypeOK, ReadZone, world
  <2> QED
    BY <2>1, <2>2
<1>7. CASE Conclude
  <2>1. \A e \in Edges : reads'.edge[e] # Failed
    BY <1>7, Sentinels DEF Conclude, NoReads
  <2> QED
    BY <1>7, <2>1, ReadsTyped DEF TypeOK, Conclude, Idle, world
<1>8. ASSUME NEW e \in Edges, EditEdge(e)
      PROVE  TypeOK'
  <2>1. PICK t \in EdgeEdits :
          edges' = [edges EXCEPT ![e].deny = t.deny, ![e].unparsed = t.unparsed,
                                 ![e].generator = t.generator, ![e].ephemeral = t.ephemeral]
    BY <1>8 DEF EditEdge
  <2>2. edges' \in [Edges -> LiveEdge]
    <3>1. edges[e] \in LiveEdge
      BY DEF TypeOK
    <3>2. [edges[e] EXCEPT !.deny = t.deny, !.unparsed = t.unparsed,
                           !.generator = t.generator, !.ephemeral = t.ephemeral] \in LiveEdge
      BY <3>1, EditsTyped DEF LiveEdge
    <3> QED
      BY <2>1, <3>2 DEF TypeOK
  <2> QED
    BY <1>8, <2>2, DriftType DEF TypeOK, EditEdge
<1>9. ASSUME NEW e \in Edges, EditFile(e)
      PROVE  TypeOK'
  <2>1. file' \in [Edges -> File]
    BY <1>9, EditsTyped DEF TypeOK, EditFile
  <2> QED
    BY <1>9, <2>1, DriftType DEF TypeOK, EditFile
<1>10. ASSUME NEW e \in Edges, NEW h \in Hosts, EditRoute(e, h)
       PROVE  TypeOK'
  <2>1. PICK r \in Edits : edges' = [edges EXCEPT ![e].routes[h] = r]
    BY <1>10 DEF EditRoute
  <2>2. edges' \in [Edges -> LiveEdge]
    BY <2>1, EditsTyped, RouteEdit DEF TypeOK
  <2> QED
    BY <1>10, <2>2, DriftType DEF TypeOK, EditRoute
<1>11. ASSUME NEW p \in Providers, NEW h \in Hosts, EditRecord(p, h)
       PROVE  TypeOK'
  <2>1. zone' \in [Providers -> Zone]
    BY <1>11, EditsTyped DEF TypeOK, EditRecord, Zone
  <2> QED
    BY <1>11, <2>1, DriftType DEF TypeOK, EditRecord
<1>12. ASSUME NEW t \in Targets, Outage(t)
       PROVE  TypeOK'
  BY <1>12, DriftType DEF TypeOK, Outage
<1>13. ASSUME NEW v \in {"expose", "unexpose"}, NEW h \in Hosts, BeginOp(v, h)
       PROVE  TypeOK'
  <2>1. Participants(h) \subseteq Targets
    BY SettingsTyped DEF Participants, Targets, TypeOK
  <2> QED
    BY <1>13, <2>1 DEF TypeOK, BeginOp, world, Services
<1>14. CASE OpStep
  <2>1. PICK t \in op.todo :
          /\ op' = [op EXCEPT !.todo = @ \ {t}]
          /\ \/ /\ t \in Edges
                /\ edges' = [edges EXCEPT ![t].routes[op.host] =
                                IF op.verb = "expose" THEN CanonicalRoute(t, op.host) ELSE NoRoute]
                /\ UNCHANGED zone
             \/ /\ t \in Providers
                /\ zone' = [zone EXCEPT ![t][op.host] =
                                IF op.verb = "expose" THEN [value |-> Target[t], ours |-> TRUE]
                                ELSE NoRecord]
                /\ UNCHANGED edges
          /\ Disturbs /\ UNCHANGED <<file, down, drift>>
    BY <1>14 DEF OpStep
  <2>2. op' \in [verb : {"none", "expose", "unexpose"}, host : Services, todo : SUBSET Targets]
    BY <2>1 DEF TypeOK
  <2>3. edges' \in [Edges -> LiveEdge]
    <3>1. CanonicalRoute(t, op.host) \in Route
      BY DEF CanonicalRoute, Route
    <3>2. CASE t \in Edges
      <4> DEFINE r == IF op.verb = "expose" THEN CanonicalRoute(t, op.host) ELSE NoRoute
      <4>1. r \in Route \cup {NoRoute} /\ edges[t] \in LiveEdge
        BY <3>1, <3>2 DEF TypeOK
      <4>2. edges' = [edges EXCEPT ![t].routes[op.host] = r] \/ edges' = edges
        BY <2>1
      <4> HIDE DEF r
      <4>3. [edges[t] EXCEPT !.routes[op.host] = r] \in LiveEdge
        BY <4>1, RouteEdit
      <4> QED
        BY <3>2, <4>2, <4>3 DEF TypeOK
    <3> QED
      BY <2>1, <3>2 DEF TypeOK
  <2>4. zone' \in [Providers -> Zone]
    <3>1. [value |-> Target[t], ours |-> TRUE] \in RecordOrNone \/ t \notin Providers
      BY DnsDriverAssumption DEF RecordOrNone
    <3>2. NoRecord \in RecordOrNone
      BY DEF RecordOrNone
    <3>3. CASE t \in Providers
      <4> DEFINE r == IF op.verb = "expose" THEN [value |-> Target[t], ours |-> TRUE] ELSE NoRecord
      <4>1. r \in RecordOrNone /\ zone[t] \in Zone
        BY <3>1, <3>2, <3>3 DEF TypeOK
      <4>2. zone' = [zone EXCEPT ![t][op.host] = r] \/ zone' = zone
        BY <2>1
      <4> HIDE DEF r
      <4>3. [zone[t] EXCEPT ![op.host] = r] \in Zone
        BY <4>1, RecordEdit
      <4> QED
        BY <3>3, <4>2, <4>3 DEF TypeOK
    <3> QED
      BY <2>1, <3>3 DEF TypeOK
  <2> QED
    BY <2>1, <2>2, <2>3, <2>4 DEF TypeOK, Disturbs
<1> QED
  BY <1>1, <1>2, <1>4, <1>5, <1>6, <1>7, <1>8, <1>9, <1>10, <1>11, <1>12, <1>13, <1>14 DEF Next

\* The reports, their reads and the world they are made of keep their types.
THEOREM AuditTypeCorrect == Spec => []TypeOK
<1> QED
  BY InitType, StepType, PTL DEF Spec

-----------------------------------------------------------------------------
(***************************************************************************)
(* A report into which no change of the world fell has read the world as   *)
(* it is, and is the report of these reads.                                *)
(***************************************************************************)
\* What a read of e returns now.
Answer(e) == IF e \in down THEN Failed ELSE edges[e]

QuietReads ==
    job.kind # "idle" /\ job.quiet =>
        /\ \A e \in Edges : reads.edge[e] # NotRead =>
                reads.edge[e] = Answer(e) /\ (e \in down => Tolerated(e))
        /\ reads.file # NotRead => reads.file = file
        /\ \A p \in Providers :
            /\ reads.zone[p] # NotRead => reads.zone[p] = zone[p]
            /\ reads.cover[p] # NotRead => reads.cover[p] = zone[p]

\* The reads rd of a report of kind k are those of the world as it is.
Faithful(rd, k) ==
    /\ rd.conf = settings
    /\ \A e \in Edges : rd.edge[e] = Answer(e) /\ (e \in down => k # "export" /\ e \in chainTargets)
    /\ k = "audit" =>
        rd.file = file /\ \A p \in settings.dns : rd.zone[p] = zone[p] /\ rd.cover[p] = zone[p]

QuietReport ==
    out.quiet /\ ~ out.err =>
        /\ out.kind \in {"audit", "status", "export"}
        /\ \E rd \in ReadsType :
            /\ Faithful(rd, out.kind)
            /\ out.kind = "audit" => out.report = AuditReport(rd)
            /\ out.kind = "status" => out.report = StatusReport(rd)

AuditInv == TypeOK /\ QuietReads /\ QuietReport

\* Nothing is read and nothing reported at first.
LEMMA InitQuiet == Init => QuietReads /\ QuietReport
BY DEF Init, QuietReads, QuietReport, Idle, NoReport

\* A step that leaves the world alone and reports nothing.
LEMMA ReportStands ==
    ASSUME QuietReport, UNCHANGED <<settings, world>>, out' = out
    PROVE  QuietReport'
<1> SUFFICES ASSUME (out.quiet /\ ~ out.err)'
             PROVE  /\ (out.kind \in {"audit", "status", "export"})'
                    /\ \E rd \in ReadsType :
                        /\ Faithful(rd, out.kind)'
                        /\ (out.kind = "audit" => out.report = AuditReport(rd))'
                        /\ (out.kind = "status" => out.report = StatusReport(rd))'
  BY DEF QuietReport
<1>1. PICK rd \in ReadsType :
            /\ Faithful(rd, out.kind)
            /\ out.kind = "audit" => out.report = AuditReport(rd)
            /\ out.kind = "status" => out.report = StatusReport(rd)
  BY DEF QuietReport
<1>2. Faithful(rd, out.kind)'
  BY <1>1 DEF Faithful, Answer, world
<1> QED
  BY <1>1, <1>2 DEF QuietReport

\* A change of the world: what is being read and what was reported no longer
\* counts as quiet.
LEMMA DisturbsQuiet ==
    ASSUME TypeOK, Disturbs
    PROVE  QuietReads' /\ QuietReport'
BY DEF TypeOK, Disturbs, QuietReads, QuietReport, NoReport

\* The one read or failure of a step of a report.
LEMMA ReadQuiet ==
    ASSUME TypeOK, QuietReads, QuietReport, ReadEdge \/ ReadIngress \/ ReadZone
    PROVE  QuietReads' /\ QuietReport'
<1>0. UNCHANGED <<settings, world>>
  BY DEF ReadEdge, ReadIngress, ReadZone
<1>1. CASE Abort
  BY <1>1 DEF Abort, QuietReads, QuietReport, Idle
<1>2. CASE ~ Abort
  <2>1. job' = job /\ out' = out
    BY <1>2 DEF ReadEdge, ReadIngress, ReadZone
  <2>2. QuietReport'
    BY <1>0, <2>1, ReportStands
  <2>3. QuietReads'
    <3> SUFFICES ASSUME job.kind # "idle", job.quiet
                 PROVE  QuietReads'
      BY <2>1 DEF QuietReads
    <3>0. /\ \A e \in Edges : reads.edge[e] # NotRead =>
                reads.edge[e] = Answer(e) /\ (e \in down => Tolerated(e))
          /\ reads.file # NotRead => reads.file = file
          /\ \A p \in Providers :
            /\ reads.zone[p] # NotRead => reads.zone[p] = zone[p]
            /\ reads.cover[p] # NotRead => reads.cover[p] = zone[p]
      BY DEF QuietReads
    <3>1. \A e : Answer(e)' = Answer(e) /\ (Tolerated(e))' = Tolerated(e)
      BY <1>0, <2>1 DEF Answer, Tolerated, world
    <3>2. file' = file /\ zone' = zone /\ down' = down
      BY <1>0 DEF world
    <3>3. CASE ReadEdge
      <4>1. PICK e \in Next1(UnreadEdges) :
              /\ e \notin down \/ Tolerated(e)
              /\ reads' = [reads EXCEPT !.edge[e] = Answer(e)]
        BY <1>2, <3>3 DEF ReadEdge, Answer
      <4>2. reads'.file = reads.file /\ reads'.zone = reads.zone /\ reads'.cover = reads.cover
        BY <4>1 DEF TypeOK, ReadsType
      <4>3. \A f \in Edges : reads'.edge[f] = IF f = e THEN Answer(e) ELSE reads.edge[f]
        BY <4>1 DEF TypeOK, ReadsType
      <4> QED
        BY <2>1, <3>0, <3>1, <3>2, <4>1, <4>2, <4>3 DEF QuietReads
    <3>4. CASE ReadIngress
      <4>1. /\ reads'.file = file
            /\ reads'.edge = reads.edge /\ reads'.zone = reads.zone /\ reads'.cover = reads.cover
        BY <3>4 DEF ReadIngress, TypeOK, ReadsType
      <4> QED
        BY <2>1, <3>0, <3>1, <3>2, <4>1 DEF QuietReads
    <3>5. CASE ReadZone
      <4>1. PICK p \in Next1(UnreadProviders) :
              \/ reads' = [reads EXCEPT !.zone[p] = zone[p],
                                        !.cover[p] = IF OwnsAllLiveRecords(p) THEN @ ELSE zone[p]]
              \/ reads' = [reads EXCEPT !.cover[p] = zone[p]]
        BY <1>2, <3>5 DEF ReadZone
      <4>2. /\ reads'.file = reads.file /\ reads'.edge = reads.edge
            /\ \A q \in Providers : /\ reads'.zone[q] \in {reads.zone[q], zone[q]}
                                    /\ reads'.cover[q] \in {reads.cover[q], zone[q]}
        <5>1. CASE reads' = [reads EXCEPT !.cover[p] = zone[p]]
          BY <5>1 DEF TypeOK, ReadsType
        <5>2. CASE reads' = [reads EXCEPT !.zone[p] = zone[p],
                               !.cover[p] = IF OwnsAllLiveRecords(p) THEN @ ELSE zone[p]]
          <6>1. CASE OwnsAllLiveRecords(p)
            BY <5>2, <6>1 DEF TypeOK, ReadsType
          <6>2. CASE ~ OwnsAllLiveRecords(p)
            BY <5>2, <6>2 DEF TypeOK, ReadsType
          <6> QED
            BY <6>1, <6>2
        <5> QED
          BY <4>1, <5>1, <5>2
      <4> QED
        BY <2>1, <3>0, <3>1, <3>2, <4>2 DEF QuietReads
    <3> QED
      BY <3>3, <3>4, <3>5
  <2> QED
    BY <2>2, <2>3
<1> QED
  BY <1>1, <1>2

\* The end of a report.
LEMMA ConcludeQuiet ==
    ASSUME TypeOK, QuietReads, Conclude
    PROVE  QuietReads' /\ QuietReport'
<1>1. QuietReads'
  BY DEF Conclude, Idle, QuietReads
<1>2. ASSUME job.quiet
      PROVE  Faithful(reads, job.kind)
  <2>1. job.kind \in {"audit", "status", "export"} /\ reads.conf = settings
    BY DEF TypeOK, Conclude
  <2>2. \A e \in Edges : reads.edge[e] # NotRead
    BY DEF Conclude, UnreadEdges
  <2>3. ASSUME NEW e \in Edges
        PROVE  reads.edge[e] = Answer(e) /\ (e \in down => job.kind # "export" /\ e \in chainTargets)
    BY <1>2, <2>1, <2>2 DEF QuietReads, Tolerated
  <2>4. ASSUME job.kind = "audit"
        PROVE  reads.file = file /\ \A p \in settings.dns : reads.zone[p] = zone[p] /\ reads.cover[p] = zone[p]
    <3>1. reads.file # NotRead
      BY <2>4 DEF Conclude
    <3>2. \A p \in settings.dns : p \in Providers /\ reads.zone[p] # NotRead /\ reads.cover[p] # NotRead
      BY <2>4, SettingsTyped DEF Conclude, UnreadProviders, TypeOK
    <3> QED
      BY <1>2, <2>1, <3>1, <3>2 DEF QuietReads
  <2> QED
    BY <2>1, <2>3, <2>4 DEF Faithful
<1>3. QuietReport'
  <2> SUFFICES ASSUME job.quiet
               PROVE  QuietReport'
    BY DEF Conclude, QuietReport
  <2>1. /\ out'.kind = job.kind /\ job.kind \in {"audit", "status", "export"}
        /\ job.kind = "audit" => out'.report = AuditReport(reads)
        /\ job.kind = "status" => out'.report = StatusReport(reads)
    BY DEF Conclude, TypeOK
  <2>2. ASSUME NEW rd, Faithful(rd, job.kind)
        PROVE  Faithful(rd, out.kind)'
    BY <2>1, <2>2 DEF Faithful, Answer, Conclude, world
  <2>3. reads \in ReadsType
    BY DEF TypeOK
  <2> DEFINE R == reads
  <2>4. /\ R \in ReadsType /\ Faithful(R, job.kind)
        /\ job.kind = "audit" => out'.report = AuditReport(R)
        /\ job.kind = "status" => out'.report = StatusReport(R)
    BY <1>2, <2>1, <2>3
  <2>5. \E rd \in ReadsType : /\ Faithful(rd, job.kind)
                              /\ job.kind = "audit" => out'.report = AuditReport(rd)
                              /\ job.kind = "status" => out'.report = StatusReport(rd)
    BY <2>4
  <2>6. PICK rd \in ReadsType : /\ Faithful(rd, job.kind)
                                /\ job.kind = "audit" => out'.report = AuditReport(rd)
                                /\ job.kind = "status" => out'.report = StatusReport(rd)
    BY <2>5
  <2>7. Faithful(rd, out.kind)'
    BY <2>2, <2>6
  <2> QED
    BY <2>1, <2>6, <2>7 DEF QuietReport
<1> QED
  BY <1>1, <1>3

\* Every step keeps them.
LEMMA StepQuiet == TypeOK /\ QuietReads /\ QuietReport /\ [Next]_vars => QuietReads' /\ QuietReport'
<1> SUFFICES ASSUME TypeOK, QuietReads, QuietReport, [Next]_vars
             PROVE  QuietReads' /\ QuietReport'
  OBVIOUS
<1>1. ASSUME UNCHANGED <<settings, world, job, reads, out>>
      PROVE  QuietReads' /\ QuietReport'
  <2>1. QuietReport'
    BY <1>1, ReportStands
  <2>2. QuietReads'
    BY <1>1 DEF QuietReads, Answer, Tolerated, world
  <2> QED
    BY <2>1, <2>2
<1>2. ASSUME NEW k \in {"audit", "status", "export"}, Start(k)
      PROVE  QuietReads' /\ QuietReport'
  <2>1. reads' = NoReads /\ out' = NoReport
    BY <1>2 DEF Start
  <2>2. QuietReport'
    BY <2>1 DEF QuietReport, NoReport
  <2>3. QuietReads'
    BY <2>1 DEF QuietReads, NoReads
  <2> QED
    BY <2>2, <2>3
<1>3. CASE UNCHANGED vars
  BY <1>1, <1>3 DEF vars
<1>4. CASE \E v \in {"expose", "unexpose"}, h \in Hosts : BeginOp(v, h)
  BY <1>1, <1>4 DEF BeginOp
<1>5. CASE ReadEdge \/ ReadIngress \/ ReadZone
  BY <1>5, ReadQuiet
<1>6. CASE Conclude
  BY <1>6, ConcludeQuiet
<1>7. CASE \/ \E e \in Edges : EditEdge(e) \/ EditFile(e)
           \/ \E e \in Edges, h \in Hosts : EditRoute(e, h)
           \/ \E p \in Providers, h \in Hosts : EditRecord(p, h)
           \/ \E t \in Targets : Outage(t)
           \/ OpStep
  <2>1. Disturbs
    BY <1>7 DEF EditEdge, EditFile, EditRoute, EditRecord, Outage, OpStep, Drift
  <2> QED
    BY <2>1, DisturbsQuiet
<1> QED
  BY <1>2, <1>3, <1>4, <1>5, <1>6, <1>7 DEF Next

(***************************************************************************)
(* A report that was made without a change of the world in between is the  *)
(* report of the world as it is (readAll, Audit, Status, Export), for      *)
(* every wiring, setting and number of changes between reports.            *)
(***************************************************************************)
THEOREM QuietReportsHold == Spec => []AuditInv
<1>1. Init => AuditInv
  BY InitType, InitQuiet DEF AuditInv
<1>2. AuditInv /\ [Next]_vars => AuditInv'
  BY StepType, StepQuiet DEF AuditInv
<1> QED
  BY <1>1, <1>2, PTL DEF Spec


-----------------------------------------------------------------------------
(***************************************************************************)
(* An edge that could not be read is in order in no report (readAll in     *)
(* chain.go, the edge_unreadable finding, the unknown deny of status).     *)
(***************************************************************************)
THEOREM NeverGreenUnread == Spec => []UnreadableNeverGreen
<1>1. AuditInv => UnreadableNeverGreen
  <2> SUFFICES ASSUME AuditInv, out.quiet, ~ out.err, NEW e \in down \cap Edges
               PROVE  \/ out.kind = "audit" /\ ~ OK(out.report)
                      \/ out.kind = "status" /\ out.report[e].deny = "unknown"
    BY DEF UnreadableNeverGreen
  <2>1. PICK rd \in ReadsType :
          /\ Faithful(rd, out.kind)
          /\ out.kind = "audit" => out.report = AuditReport(rd)
          /\ out.kind = "status" => out.report = StatusReport(rd)
    BY DEF AuditInv, QuietReport
  <2>2. rd.edge[e] = Failed /\ out.kind \in {"audit", "status"}
    BY <2>1 DEF Faithful, Answer, AuditInv, QuietReport
  <2>3. CASE out.kind = "audit"
    <3> DEFINE f == Finding("warning", "edge_unreadable", e)
    <3>1. f \in Unreadable(rd)
      BY <2>2 DEF Unreadable, Readable
    <3>2. f \in AuditReport(rd)
      BY <3>1 DEF AuditReport
    <3>3. f.sev # "ok"
      BY DEF Finding
    <3> QED
      BY <2>1, <2>3, <3>2, <3>3 DEF OK
  <2>4. CASE out.kind = "status"
    <3>1. StatusReport(rd)[e] = StatusRow(rd, e)
      BY DEF StatusReport
    <3>2. StatusRow(rd, e).deny = "unknown"
      BY <2>2 DEF StatusRow, DenyState
    <3> QED
      BY <2>1, <2>4, <3>1, <3>2
  <2> QED
    BY <2>2, <2>3, <2>4
<1> QED
  BY <1>1, QuietReportsHold, PTL

-----------------------------------------------------------------------------
(***************************************************************************)
(* The posture check is complete.  What follows fixes a host and the reads *)
(* of a quiet audit, and goes along the verdict of PublicWithoutAuth.      *)
(***************************************************************************)
\* A readable edge that routes h by name is not gated there.
LEMMA OpenByName ==
    ASSUME TypeOK, NEW h \in Hosts, ~ GatedSomewhere(h),
           NEW e \in Edges \ down, edges[e].routes[h] # NoRoute
    PROVE  /\ edges[e].routes[h].mode = "http" /\ edges[e].routes[h].auth = "none"
           /\ OpenFrom(e, h)
<1>1. OpenFrom(e, h)
  BY DEF GatedSomewhere
<1>2. PICK k \in 0..(N - 1) : \A j \in 0..k : Ungated(Hop[j][e], h)
  BY <1>1 DEF OpenFrom
<1>3. 0 \in 0..k
  BY <1>2, EdgesCounted
<1>4. Ungated(e, h)
  BY <1>2, <1>3, HopZero
<1> QED
  BY <1>1, <1>4 DEF Ungated, Met

\* The edges that answer are the readable ones, and were read as they are.
LEMMA ReadByName ==
    ASSUME TypeOK, NEW rd, Faithful(rd, "audit")
    PROVE  /\ Readable(rd) = Edges \ down
           /\ \A e \in Edges \ down : rd.edge[e] = edges[e]
           /\ \A e \in Edges \ down, h \in Hosts :
                RouteAt(rd, e, h) = edges[e].routes[h] /\ (h \in Routes(rd, e) <=> edges[e].routes[h] # NoRoute)
<1>1. \A e \in Edges : edges[e] # Failed /\ rd.edge[e] = Answer(e)
  BY Sentinels DEF TypeOK, Faithful
<1>2. \A e \in Edges \ down : rd.edge[e] = edges[e] /\ rd.edge[e] # Failed
  BY <1>1 DEF Answer
<1>3. \A e \in Edges \cap down : rd.edge[e] = Failed
  BY <1>1 DEF Answer
<1>4. Readable(rd) = Edges \ down
  BY <1>2, <1>3 DEF Readable
<1> QED
  BY <1>2, <1>4 DEF RouteAt, Routes

\* No edge is taken to gate h or to grant it to a mesh.
LEMMA NotTakenGated ==
    ASSUME TypeOK, NEW rd, Faithful(rd, "audit"), NEW h \in Hosts, ~ GatedSomewhere(h)
    PROVE  h \notin hostAuth(rd) /\ ~ isMeshGrant(rd, h)
<1>1. ASSUME NEW e \in Readable(rd), h \in Routes(rd, e)
      PROVE  e \in Edges /\ RouteAt(rd, e, h).mode = "http" /\ RouteAt(rd, e, h).auth = "none"
  BY <1>1, ReadByName, OpenByName
<1>2. ~ isMeshGrant(rd, h)
  BY <1>1 DEF isMeshGrant, hostModes
<1>3. ASSUME NEW e \in Readable(rd), h \in Routes(rd, e)
      PROVE  effectiveAuth(rd, e, h) # "named"
  <2>1. resolveChain(rd, e, h).link /\ resolveChain(rd, e, h).resolved =>
            resolveChain(rd, e, h).auth = "none"
    BY <1>1 DEF resolveChain
  <2> QED
    BY <1>1, <1>3, <2>1 DEF effectiveAuth
<1> QED
  BY <1>2, <1>3 DEF hostAuth

\* A pattern that a front relays and its downstream does not route: the front
\* has no downstream address to tell a relay by.
LEMMA PatternRelay ==
    ASSUME TypeOK, NEW h \in Wild, ~ GatedSomewhere(h), NEW e \in Edges \ down,
           edges[e].routes[h] # NoRoute, chainForward(e, edges[e].routes[h]),
           Downstream[e] \in Edges, edges[Downstream[e]].routes[h] = NoRoute
    PROVE  isChainFront(e) /\ e \notin DownstreamAddress /\ edges[e].routes[h].dial = "origin"
<1>0. h \in Hosts /\ edges[e].routes[h] \in Route /\ isChainFront(e)
  <2>1. h \in Hosts /\ edges[e] \in LiveEdge
    BY NamesTyped DEF TypeOK
  <2> QED
    BY <2>1 DEF LiveEdge, chainForward
<1>1. OpenFrom(e, h)
  BY <1>0, OpenByName
<1>2. PICK k \in 0..(N - 1) :
        /\ \A j \in 0..k : Ungated(Hop[j][e], h)
        /\ ~ Relays(Hop[k][e], h)
  BY <1>1 DEF OpenFrom
<1>3. N \in Nat /\ k \in Nat
  BY EdgesCounted, <1>2
<1>4. CASE edges[e].routes[h].dial = "downstream"
  <2>1. Relays(e, h)
    BY <1>0, <1>4 DEF Relays, Met
  <2>2. k # 0
    BY <1>2, <2>1, HopZero
  <2>3. 1 \in 0..N /\ 1 \in 0..k /\ 1 - 1 = 0
    BY <1>2, <1>3, <2>2
  <2>4. Hop[1][e] = IF Hop[0][e] = NoEdge THEN NoEdge ELSE Downstream[Hop[0][e]]
    BY <2>3, HopNext
  <2>5. Hop[1][e] = Downstream[e]
    BY <2>4, HopZero, TopologyAssumption
  <2>6. Met(Downstream[e], h) # NoRoute
    BY <1>2, <2>3, <2>5 DEF Ungated
  <2>7. PICK w \in Wild : wildcardPatternCovers(w, h) /\ edges[Downstream[e]].routes[w] # NoRoute
    BY <2>6 DEF Met
  <2>8. w = h
    BY <2>7, NamesTyped DEF wildcardPatternCovers
  <2> QED
    BY <2>7, <2>8
<1>5. CASE edges[e].routes[h].dial # "downstream"
  BY <1>0, <1>5 DEF chainForward, Route
<1> QED
  BY <1>4, <1>5

\* A relay whose end the audit did not find is a warning of its own.
LEMMA UnresolvedIsFlagged ==
    ASSUME TypeOK, NEW rd, Faithful(rd, "audit"), NEW h \in Hosts, ~ GatedSomewhere(h),
           ~ TakenGated(h), h \in hostAuthDownstream(rd)
    PROVE  \E f \in AuditReport(rd) : f.about = h /\ f.sev # "ok"
<1>1. PICK e \in Readable(rd) : h \in Routes(rd, e) /\ effectiveAuth(rd, e, h) = "downstream"
  BY DEF hostAuthDownstream
<1>2. /\ e \in Edges \ down /\ edges[e].routes[h] # NoRoute
      /\ RouteAt(rd, e, h) = edges[e].routes[h]
      /\ RouteAt(rd, e, h).mode = "http" /\ RouteAt(rd, e, h).auth = "none"
  BY <1>1, ReadByName, OpenByName
<1>3. e \notin AssertsAuth
  BY <1>2 DEF TakenGated
<1>4. resolveChain(rd, e, h).link /\ (resolveChain(rd, e, h).resolved => resolveChain(rd, e, h).auth = "downstream")
  BY <1>1, <1>2, <1>3 DEF effectiveAuth
<1>5. ~ resolveChain(rd, e, h).resolved
  <2>1. ASSUME resolveChain(rd, e, h).resolved
        PROVE  FALSE
    <3>1. /\ Downstream[e] \in Readable(rd) /\ h \in Routes(rd, Downstream[e])
          /\ resolveChain(rd, e, h).auth = RouteAt(rd, Downstream[e], h).auth
      BY <1>4, <2>1 DEF resolveChain
    <3>2. RouteAt(rd, Downstream[e], h).auth = "none"
      BY <3>1, ReadByName, OpenByName
    <3> QED
      BY <1>4, <2>1, <3>1, <3>2
  <2> QED
    BY <2>1
<1>6. chainForward(e, edges[e].routes[h])
      /\ ~ (Downstream[e] \in Readable(rd) /\ h \in Routes(rd, Downstream[e]))
  BY <1>2, <1>4, <1>5 DEF resolveChain
<1>7. wildcardForwardCoverage(rd, e, h) = {}
  <2>1. CASE h \in Wild /\ Downstream[e] \in Readable(rd)
    <3>1. Downstream[e] \in Edges /\ edges[Downstream[e]].routes[h] = NoRoute
      BY <1>6, <2>1, ReadByName
    <3> QED
      BY <1>2, <1>6, <2>1, <3>1, PatternRelay DEF TakenGated
  <2>2. CASE ~ (h \in Wild /\ Downstream[e] \in Readable(rd))
    BY <2>2 DEF wildcardForwardCoverage
  <2> QED
    BY <2>1, <2>2
<1> DEFINE f == Finding("warning", "chain_unresolved", h)
<1>8. f \in ChainFindings(rd, e)
  BY <1>1, <1>4, <1>5, <1>7 DEF ChainFindings
<1>9. f \in AuditReport(rd)
  BY <1>1, <1>8 DEF AuditReport, EdgeFindings
<1> QED
  BY <1>9 DEF Finding

\* A request that gets through at e met a route there that gates nothing: its
\* own, or that of a pattern when it has none.
LEMMA RouteMet ==
    ASSUME TypeOK, NEW h \in Hosts, NEW e \in Edges, OpenFrom(e, h)
    PROVE  /\ Met(e, h) # NoRoute /\ Met(e, h).mode = "http"
           /\ edges[e].routes[h] = NoRoute =>
                /\ h \notin Wild
                /\ \E w \in Wild : /\ wildcardPatternCovers(w, h) /\ edges[e].routes[w] # NoRoute
                                   /\ Met(e, h) = edges[e].routes[w]
<1>1. PICK k \in 0..(N - 1) : \A j \in 0..k : Ungated(Hop[j][e], h)
  BY DEF OpenFrom
<1>2. Ungated(e, h)
  <2>1. 0 \in 0..k
    BY <1>1, EdgesCounted
  <2> QED
    BY <1>1, <2>1, HopZero
<1>3. Met(e, h) # NoRoute /\ Met(e, h).mode = "http"
  BY <1>2 DEF Ungated
<1>4. ASSUME edges[e].routes[h] = NoRoute
      PROVE  /\ h \notin Wild
             /\ \E w \in Wild : /\ wildcardPatternCovers(w, h) /\ edges[e].routes[w] # NoRoute
                                /\ Met(e, h) = edges[e].routes[w]
  <2> DEFINE ps == {w \in Wild : wildcardPatternCovers(w, h) /\ edges[e].routes[w] # NoRoute}
             v == CHOOSE w \in ps : TRUE
  <2>1. ps # {} /\ Met(e, h) = edges[e].routes[v]
    BY <1>3, <1>4 DEF Met
  <2>2. v \in ps
    BY <2>1
  <2>3. v \in Wild /\ wildcardPatternCovers(v, h) /\ edges[e].routes[v] # NoRoute
    BY <2>2
  <2>4. h \notin Wild
    BY <1>4, <2>3, NamesTyped DEF wildcardPatternCovers
  <2> QED
    BY <2>1, <2>3, <2>4
<1> QED
  BY <1>3, <1>4

\* What the posture check has before it when it warns about h.
Judged(rd, h) == /\ h \in exposed(rd) /\ h \in PublicHosts(rd)
                 /\ rd.conf.internal => h \in observedPublic(rd)

Flagged(rd, h) == \E f \in AuditReport(rd) : f.about = h /\ f.sev # "ok"

\* The edges whose tunnel files were opened for their host rules.
LEMMA RecoveredByFile ==
    ASSUME TypeOK, NEW rd, Faithful(rd, "audit"), NEW e \in Edges \ down
    PROVE  e \in RecoveredEdges(rd) <=> /\ e \in IngressPath /\ ~ DeclaredPlain(e)
                                        /\ file[e].kind \in {"cloudflared", "tailscale", "malformed"}
<1>1. rd.file = file /\ rd.conf = settings /\ e \in Readable(rd)
  BY ReadByName DEF Faithful
<1>2. tunnelIngressHosts(rd.file[e]).parsed <=> file[e].kind \in {"cloudflared", "tailscale", "malformed"}
  BY <1>1 DEF tunnelIngressHosts, Recognized
<1>3. ASSUME e \in IngressPath, file[e].kind \in {"cloudflared", "tailscale", "malformed"}
      PROVE  External(resolveIngressKind(rd, e)) <=> ~ DeclaredPlain(e)
  <2>1. detectIngressFile(rd.file[e]) \in {"tunnel", "overlay"}
    BY <1>1, <1>3 DEF detectIngressFile
  <2>2. CASE settings.ingress[e] = ""
    BY <1>1, <1>3, <2>1, <2>2 DEF resolveIngressKind, External, DeclaredPlain
  <2>3. CASE settings.ingress[e] # ""
    BY <1>1, <2>3 DEF resolveIngressKind, DeclaredPlain
  <2> QED
    BY <2>2, <2>3
<1> QED
  BY <1>1, <1>2, <1>3 DEF RecoveredEdges, ExternalEdges

\* A host that a tunnel publishes on an edge that routes it.
LEMMA TunnelJudged ==
    ASSUME TypeOK, NEW rd, Faithful(rd, "audit"), NEW h \in Hosts,
           NEW e \in Edges \ down, ByTunnel(e, h), ~ UnseenTunnel(e, h)
    PROVE  Judged(rd, h)
<1>1. rd.file = file /\ e \in Readable(rd) /\ h \in Routes(rd, e)
  BY ReadByName DEF Faithful, UnseenTunnel
<1>2. e \in IngressPath /\ file[e].kind \in {"cloudflared", "tailscale"} /\ Publishes(e, h)
  BY DEF ByTunnel, Tunnelled
<1>3. e \in RecoveredEdges(rd)
  BY <1>2, RecoveredByFile DEF UnseenTunnel
<1>4. ingressPublishes(h, tunnelIngressHosts(rd.file[e]))
  BY <1>1, <1>2
  DEF Publishes, ingressPublishes, tunnelIngressHosts, cloudflaredIngressHosts, tailscaleFunnelHosts
<1>5. h \in tunnelPublic(rd)
  BY <1>1, <1>3, <1>4 DEF tunnelPublic
<1> QED
  BY <1>1, <1>5 DEF Judged, exposed, PublicHosts, observedPublic

\* A host behind a port of its own.
LEMMA PortJudged ==
    ASSUME TypeOK, NEW rd, Faithful(rd, "audit"), NEW h \in Hosts,
           NEW e \in Edges \ down, ByPort(e), ~ UnseenPort(h)
    PROVE  Judged(rd, h)
<1>1. PICK f \in Edges \ down :
        /\ edges[f].routes[h] # NoRoute
        /\ ~ (/\ f \in IngressPath /\ ~ DeclaredPlain(f)
              /\ file[f].kind \in {"cloudflared", "tailscale", "malformed"})
  BY DEF UnseenPort
<1>2. f \in Readable(rd) /\ h \in Routes(rd, f)
  BY <1>1, ReadByName
<1>3. f \notin RecoveredEdges(rd)
  BY <1>1, RecoveredByFile
<1>4. rd.conf = settings /\ PublicProviders(settings) = {} /\ ~ settings.internal
  BY DEF Faithful, ByPort
<1> QED
  BY <1>2, <1>3, <1>4 DEF Judged, exposed, PublicHosts, exposedOnPlainEdge

\* A host with a public record of crenel's own: unrouted, it is dangling.
LEMMA OwnNameSeen ==
    ASSUME TypeOK, NEW rd, Faithful(rd, "audit"), NEW h \in Hosts,
           NEW e \in Edges \ down, OpenFrom(e, h),
           NEW p \in PublicProviders(settings), LiveValue(p, zone[p][h]) # NoValue
    PROVE  Judged(rd, h) \/ Flagged(rd, h)
<1>1. rd.conf = settings /\ p \in settings.dns /\ rd.zone[p] = zone[p]
  BY DEF Faithful, PublicProviders
<1>2. h \in recs(rd, p) /\ h \in publicDNSHosts(rd)
  BY <1>1 DEF recs, publicDNSHosts
<1>3. CASE h \in exposed(rd)
  BY <1>1, <1>2, <1>3 DEF Judged, PublicHosts, observedPublic
<1>4. CASE h \notin exposed(rd)
  <2>1. edges[e].routes[h] = NoRoute
    BY <1>4, ReadByName DEF exposed
  <2>2. h \notin Wild
    BY <2>1, RouteMet
  <2> DEFINE f == Finding(SeverityAt(p), "dns_without_edge_route", h)
  <2>3. f \in Dangling(rd, p)
    BY <1>2, <1>4, <2>2 DEF Dangling
  <2>4. f \in DnsFindings(rd)
    BY <1>1, <2>3 DEF DnsFindings
  <2>5. f \in AuditReport(rd)
    BY <2>4 DEF AuditReport
  <2> QED
    BY <2>5 DEF Flagged, Finding, SeverityAt
<1> QED
  BY <1>3, <1>4

\* A service declared internal, by any record and at any chain front.
LEMMA InternalNameSeen ==
    ASSUME TypeOK, NEW rd, Faithful(rd, "audit"), NEW h \in Hosts, h \in InternalScope,
           NEW e \in Edges \ down, OpenFrom(e, h), ByName(e, h),
           ~ (/\ h \notin Wild => \A p \in PublicProviders(settings) : zone[p][h].value = NoValue
              /\ isChainFront(e) => edges[e].routes[h] = NoRoute /\ ~ Relays(e, h))
    PROVE  Flagged(rd, h)
<1>1. /\ rd.conf = settings
      /\ \A p \in PublicProviders(settings) : rd.cover[p] = zone[p]
  BY DEF Faithful, PublicProviders
<1> DEFINE alarm == Finding("critical", "internal_scope_public_exposure", h)
           note == Finding("warning", "internal_scope_wildcard_covered", h)
<1>2. InternalFindings(rd, h) \subseteq AuditReport(rd)
  BY DEF AuditReport
<1>3. CASE h \notin Wild /\ \E p \in PublicProviders(settings) : zone[p][h].value # NoValue
  <2>1. \E p \in PublicProviders(rd.conf) : h \in coverage(rd, p) \ Wild
    BY <1>1, <1>3 DEF coverage
  <2>2. alarm \in InternalFindings(rd, h)
    BY <2>1 DEF InternalFindings, If
  <2> QED
    BY <1>2, <2>2 DEF Flagged, Finding
<1>4. CASE isChainFront(e) /\ edges[e].routes[h] # NoRoute
  <2>1. e \in FrontsRouting(rd, h)
    BY <1>4, ReadByName DEF FrontsRouting
  <2>2. alarm \in InternalFindings(rd, h)
    BY <2>1 DEF InternalFindings, If
  <2> QED
    BY <1>2, <2>2 DEF Flagged, Finding
<1>5. CASE /\ h \in Wild \/ \A p \in PublicProviders(settings) : zone[p][h].value = NoValue
           /\ isChainFront(e) /\ edges[e].routes[h] = NoRoute /\ Relays(e, h)
  <2>1. PICK w \in Wild : /\ wildcardPatternCovers(w, h) /\ edges[e].routes[w] # NoRoute
                          /\ Met(e, h) = edges[e].routes[w]
    BY <1>5, RouteMet
  <2>2. Met(e, h).mode = "http" /\ Met(e, h).dial = "downstream" /\ h \notin Wild
    BY <1>5, RouteMet DEF Relays
  <2>3. w \in Hosts /\ w \in wildcardRouteCovering(rd, e, h) /\ RouteAt(rd, e, w) = Met(e, h)
    BY <2>1, ReadByName, NamesTyped DEF wildcardRouteCovering
  <2>4. e \in FrontsRelaying(rd, h)
    BY <1>5, <2>2, <2>3, ReadByName DEF FrontsRelaying, chainForward
  <2>5. PICK p \in PublicProviders(settings) :
          \E v \in Wild : wildcardPatternCovers(v, h) /\ zone[p][v].value # NoValue
    BY <1>5, <2>2 DEF ByName
  <2>6. wildcardCovered(PublicProviders(rd.conf), rd, h)
    BY <1>1, <2>5, NamesTyped DEF wildcardCovered, coverage
  <2>7. note \in InternalFindings(rd, h)
    BY <2>4, <2>6 DEF InternalFindings, If
  <2> QED
    BY <1>2, <2>7 DEF Flagged, Finding
<1> QED
  BY <1>3, <1>4, <1>5

\* A host that is public at an edge, in a way that is not an exception, is
\* before the posture check or flagged by another one.
LEMMA PublicIsSeen ==
    ASSUME TypeOK, NEW rd, Faithful(rd, "audit"), NEW h \in Hosts,
           NEW e \in Edges \ down, OpenFrom(e, h), ~ Unseen(e, h)
    PROVE  Judged(rd, h) \/ Flagged(rd, h)
<1>1. CASE ByTunnel(e, h) /\ ~ UnseenTunnel(e, h)
  BY <1>1, TunnelJudged
<1>2. CASE ByPort(e) /\ ~ UnseenPort(h)
  BY <1>2, PortJudged
<1>3. CASE ByName(e, h) /\ ~ UnseenName(e, h)
  <2>1. CASE \E p \in PublicProviders(settings) : LiveValue(p, zone[p][h]) # NoValue
    BY <2>1, OwnNameSeen
  <2>2. CASE \A p \in PublicProviders(settings) : LiveValue(p, zone[p][h]) = NoValue
    <3>1. /\ h \in InternalScope
          /\ ~ (/\ h \notin Wild => \A p \in PublicProviders(settings) : zone[p][h].value = NoValue
                /\ isChainFront(e) => edges[e].routes[h] = NoRoute /\ ~ Relays(e, h))
      BY <1>3, <2>2 DEF UnseenName
    <3> QED
      BY <1>3, <3>1, InternalNameSeen
  <2> QED
    BY <2>1, <2>2
<1> QED
  BY <1>1, <1>2, <1>3 DEF Unseen

(***************************************************************************)
(* The posture check is complete, for every wiring of chains, tunnels and  *)
(* providers and every declaration: a host that requests from the internet *)
(* reach by a way the audit goes by, and that no edge gates, is named in a *)
(* warning.                                                                *)
(***************************************************************************)
THEOREM OpenHostsFlagged == Spec => []OpenIsFlagged
<1>1. AuditInv => OpenIsFlagged
  <2> SUFFICES ASSUME AuditInv, Audited, NEW h \in Hosts, NEW e \in Edges \ down,
                      OpenFrom(e, h), ~ Unseen(e, h), ~ GatedSomewhere(h), ~ TakenGated(h)
               PROVE  Warned(h)
    BY DEF OpenIsFlagged
  <2>0. TypeOK
    BY DEF AuditInv
  <2>1. PICK rd \in ReadsType : Faithful(rd, "audit") /\ out.report = AuditReport(rd)
    BY DEF AuditInv, QuietReport, Audited
  <2>2. Judged(rd, h) \/ Flagged(rd, h)
    BY <2>0, <2>1, PublicIsSeen
  <2>3. h \notin hostAuth(rd) /\ ~ isMeshGrant(rd, h)
    BY <2>0, <2>1, NotTakenGated
  <2>4. CASE h \in hostAuthDownstream(rd)
    <3>1. \E f \in AuditReport(rd) : f.about = h /\ f.sev # "ok"
      BY <2>0, <2>1, <2>4, UnresolvedIsFlagged
    <3> QED
      BY <2>1, <3>1 DEF Warned
  <2>5. CASE Judged(rd, h) /\ h \notin hostAuthDownstream(rd)
    <3> DEFINE f == Finding("warning", "public_without_auth", h)
    <3>1. f \in PublicWithoutAuth(rd)
      BY <2>3, <2>5 DEF PublicWithoutAuth, Judged
    <3>2. f \in out.report
      BY <2>1, <3>1 DEF AuditReport
    <3>3. f.about = h /\ f.sev # "ok"
      BY DEF Finding
    <3> QED
      BY <3>2, <3>3 DEF Warned
  <2>6. CASE Flagged(rd, h)
    BY <2>1, <2>6 DEF Flagged, Warned
  <2> QED
    BY <2>2, <2>4, <2>5, <2>6
<1> QED
  BY <1>1, QuietReportsHold, PTL

-----------------------------------------------------------------------------
(***************************************************************************)
(* An audit beside an unexpose.  First, which reads lead to no critical    *)
(* finding; X is a set of patterns that may have nothing behind them.      *)
(***************************************************************************)
\* Nothing that was declared internal is routed by a front or published.
InternalEdge(e, l, f) ==
    \A h \in InternalScope : l.routes[h] # NoRoute =>
        /\ ~ isChainFront(e)
        /\ e \in IngressPath => ~ ingressPublishes(h, tunnelIngressHosts(f[e]))

ReadRouted(rd, h) == \E e \in Edges : rd.edge[e].routes[h] # NoRoute

\* What a public provider announces answers its target and is routed.
CalmZone(rd, p, X) ==
    \A h \in Hosts : LiveValue(p, rd.zone[p][h]) # NoValue =>
        /\ OwnsAllLiveRecords(p) => rd.zone[p][h].value = Target[p]
        /\ h \notin Wild => ReadRouted(rd, h)
        /\ h \in Wild \ X => \E g \in Hosts : wildcardPatternCovers(h, g) /\ ReadRouted(rd, g)

CalmReads(rd, X) ==
    /\ \A e \in Edges : rd.edge[e] # Failed /\ rd.edge[e].deny /\ InternalEdge(e, rd.edge[e], rd.file)
    /\ \A p \in PublicProviders(rd.conf) :
        /\ CalmZone(rd, p, X)
        /\ \A h \in InternalScope \ Wild : rd.cover[p][h].value = NoValue

\* What an audit of such reads raises.
Raised(X) == {Finding("critical", "dns_without_edge_route", w) : w \in X}

\* The findings on single edges.
LEMMA EdgeNoAlarm ==
    ASSUME NEW rd, NEW X, CalmReads(rd, X), NEW f \in EdgeFindings(rd)
    PROVE  f.sev # "critical"
<1>1. PICK e \in Readable(rd) :
        f \in SniFindings(rd, e) \cup EvidenceFindings(e) \cup DenyFindings(rd, e)
              \cup CoverageFindings(rd, e) \cup OwnershipFindings(rd, e)
              \cup PangolinFindings(rd, e) \cup IngressFindings(rd, e)
              \cup DurabilityFindings(rd, e) \cup ChainFindings(rd, e)
  BY DEF EdgeFindings
<1>2. e \in Edges /\ rd.edge[e].deny
  BY <1>1 DEF CalmReads, Readable
<1>3. CASE f \in SniFindings(rd, e)
  BY <1>3 DEF SniFindings, Finding
<1>4. CASE f \in EvidenceFindings(e)
  BY <1>4 DEF EvidenceFindings, Finding, If
<1>5. CASE f \in DenyFindings(rd, e)
  <2>1. DenyState(rd.edge[e]) \in {"enforced", "unknown"}
    BY <1>2 DEF DenyState
  <2> QED
    BY <1>5, <2>1 DEF DenyFindings, Finding
<1>6. CASE f \in CoverageFindings(rd, e)
  BY <1>6 DEF CoverageFindings, Finding, If
<1>7. CASE f \in OwnershipFindings(rd, e)
  BY <1>7 DEF OwnershipFindings, Finding
<1>8. CASE f \in PangolinFindings(rd, e)
  BY <1>8 DEF PangolinFindings, Finding, If
<1>9. CASE f \in IngressFindings(rd, e)
  BY <1>9 DEF IngressFindings, Finding, If
<1>10. CASE f \in DurabilityFindings(rd, e)
  BY <1>10 DEF DurabilityFindings, Finding, If
<1>11. CASE f \in ChainFindings(rd, e)
  BY <1>11 DEF ChainFindings, Finding
<1> QED
  BY <1>1, <1>3, <1>4, <1>5, <1>6, <1>7, <1>8, <1>9, <1>10, <1>11

\* The findings on names.
LEMMA DnsNoAlarm ==
    ASSUME NEW rd, NEW X, CalmReads(rd, X), Wild \subseteq Hosts, NEW f \in DnsFindings(rd), f.sev = "critical"
    PROVE  f \in Raised(X)
<1>0. Readable(rd) = Edges
  BY DEF CalmReads, Readable
<1>1. \A h \in Hosts : ReadRouted(rd, h) => h \in exposed(rd)
  BY <1>0 DEF ReadRouted, exposed, Routes
<1>2. CASE \E p \in InternalProviders(rd.conf) : f \in Parity(rd, Peers(rd.conf, p))
  BY <1>2 DEF Parity, Finding, If
<1>3. CASE f \in ReverseFindings(rd)
  BY <1>3 DEF ReverseFindings, Finding, If
<1>4. ASSUME NEW p \in rd.conf.dns, f \in MeshGrantNamed(rd, p)
      PROVE  FALSE
  BY <1>4 DEF MeshGrantNamed, Finding, If
<1>5. ASSUME NEW p \in rd.conf.dns, Scope[p] # "public", f \in ValueDrift(rd, p) \cup Dangling(rd, p)
      PROVE  FALSE
  BY <1>5 DEF ValueDrift, Dangling, SeverityAt, Finding, If
<1>6. ASSUME NEW p \in rd.conf.dns, Scope[p] = "public", f \in ValueDrift(rd, p)
      PROVE  FALSE
  <2>1. CalmZone(rd, p, X)
    BY <1>6 DEF CalmReads, PublicProviders
  <2> QED
    BY <1>6, <2>1 DEF ValueDrift, If, recs, CalmZone
<1>7. ASSUME NEW p \in rd.conf.dns, Scope[p] = "public", f \in Dangling(rd, p)
      PROVE  f \in Raised(X)
  <2>1. CalmZone(rd, p, X)
    BY <1>7 DEF CalmReads, PublicProviders
  <2>2. PICK g \in recs(rd, p) :
          /\ f = Finding("critical", "dns_without_edge_route", g)
          /\ IF g \in Wild THEN ~ wildcardBacksAnyExposed(rd, g) ELSE g \notin exposed(rd)
    BY <1>7 DEF Dangling, SeverityAt
  <2>3. g \in Hosts /\ LiveValue(p, rd.zone[p][g]) # NoValue
    BY <2>2 DEF recs
  <2>4. g \in Wild
    BY <1>1, <2>1, <2>2, <2>3 DEF CalmZone
  <2>5. g \in X
    BY <1>1, <2>1, <2>2, <2>3, <2>4 DEF CalmZone, wildcardBacksAnyExposed
  <2> QED
    BY <2>2, <2>5 DEF Raised
<1>8. ASSUME NEW p \in rd.conf.dns,
             f \in ValueDrift(rd, p) \cup MeshGrantNamed(rd, p) \cup Dangling(rd, p)
      PROVE  f \in Raised(X)
  <2>1. CASE Scope[p] = "public"
    BY <1>4, <1>6, <1>7, <1>8, <2>1
  <2>2. CASE Scope[p] # "public"
    BY <1>4, <1>5, <1>8, <2>2
  <2> QED
    BY <2>1, <2>2
<1>9. \/ \E p \in rd.conf.dns : f \in ValueDrift(rd, p) \cup MeshGrantNamed(rd, p) \cup Dangling(rd, p)
      \/ \E p \in InternalProviders(rd.conf) : f \in Parity(rd, Peers(rd.conf, p))
      \/ f \in ReverseFindings(rd)
  <2> DEFINE D == {ValueDrift(rd, p) \cup MeshGrantNamed(rd, p) \cup Dangling(rd, p) : p \in rd.conf.dns}
             P == {Parity(rd, Peers(rd.conf, p)) : p \in InternalProviders(rd.conf)}
  <2>1. f \in UNION D \/ f \in UNION P \/ f \in ReverseFindings(rd)
    BY DEF DnsFindings
  <2>2. ASSUME f \in UNION D
        PROVE  \E p \in rd.conf.dns :
                  f \in ValueDrift(rd, p) \cup MeshGrantNamed(rd, p) \cup Dangling(rd, p)
    BY <2>2
  <2>3. ASSUME f \in UNION P
        PROVE  \E p \in InternalProviders(rd.conf) : f \in Parity(rd, Peers(rd.conf, p))
    BY <2>3
  <2> QED
    BY <2>1, <2>2, <2>3
<1> QED
  BY <1>2, <1>3, <1>8, <1>9

\* The whole report.
LEMMA CalmNoAlarm ==
    ASSUME NEW rd, NEW X, CalmReads(rd, X), NEW f \in AuditReport(rd), f.sev = "critical"
    PROVE  f \in Raised(X)
<1>1. CASE f \in Unreadable(rd)
  BY <1>1 DEF Unreadable, Finding
<1>2. CASE f \in EdgeFindings(rd)
  BY <1>2, EdgeNoAlarm
<1>3. CASE f \in DanglingIngress(rd)
  BY <1>3 DEF DanglingIngress, Finding
<1>4. CASE f \in CrossEdgeFindings(rd)
  BY <1>4 DEF CrossEdgeFindings, Finding, If
<1>5. CASE f \in DnsFindings(rd)
  BY <1>5, DnsNoAlarm, NamesTyped
<1>6. CASE f \in PublicWithoutAuth(rd)
  BY <1>6 DEF PublicWithoutAuth, Finding
<1>7. ASSUME NEW h \in InternalScope, f \in InternalFindings(rd, h)
      PROVE  FALSE
  <2>0. h \in Hosts
    BY TopologyAssumption
  <2>1. ~ \E p \in PublicProviders(rd.conf) : h \in coverage(rd, p) \ Wild
    BY DEF CalmReads, coverage
  <2>2. FrontsRouting(rd, h) = {}
    BY <2>0 DEF CalmReads, InternalEdge, FrontsRouting, Readable, Routes
  <2>3. h \notin tunnelPublic(rd)
    BY <2>0 DEF CalmReads, InternalEdge, tunnelPublic, RecoveredEdges, ExternalEdges, Readable, Routes
  <2> QED
    BY <1>7, <2>1, <2>2, <2>3 DEF InternalFindings, If, Finding
<1> QED
  BY <1>1, <1>2, <1>3, <1>4, <1>5, <1>6, <1>7 DEF AuditReport

(***************************************************************************)
(* Then, the invariant that keeps the reads of an audit so, as long as     *)
(* nothing but the unexpose changes the world.  The unexpose takes every   *)
(* public name down before the first route, so whatever is still announced *)
(* is routed; and an audit reads the names after the routes, so that a     *)
(* route that it did not see belongs to a name it will not see.            *)
(***************************************************************************)
\* The patterns that the host being unexposed may leave with nothing behind.
Excused == IF op.verb = "unexpose" THEN {v \in Wild : ZoneOf[v] = ZoneOf[op.host]} ELSE {}

RoutedNow(h) == \E e \in Edges : edges[e].routes[h] # NoRoute

CalmEdges ==
    /\ down = {}
    /\ \A e \in Edges : edges[e].deny /\ InternalEdge(e, edges[e], file)

CalmRecord(p, h) ==
    LiveValue(p, zone[p][h]) # NoValue =>
        /\ h \in Covers[p]
        /\ OwnsAllLiveRecords(p) => zone[p][h].value = Target[p]
        /\ h \notin Wild => RoutedNow(h)
        /\ h \in Wild \ Excused => \E g \in Hosts : wildcardPatternCovers(h, g) /\ RoutedNow(g)
        /\ op.verb = "unexpose" /\ h = op.host => p \in op.todo

CalmNames ==
    \A p \in PublicProviders(settings) :
        /\ \A h \in Hosts : CalmRecord(p, h)
        /\ \A h \in InternalScope \ Wild : zone[p][h].value = NoValue

CalmOp ==
    \/ op = NoOp
    \/ op.verb = "unexpose" /\ op.host \in Hosts \ Wild

\* What was read of e: no less than what e still routes.
CalmRead(e) ==
    /\ reads.edge[e] # Failed
    /\ reads.edge[e] # NotRead =>
        /\ reads.edge[e].deny /\ InternalEdge(e, reads.edge[e], file)
        /\ \A h \in Hosts : edges[e].routes[h] # NoRoute => reads.edge[e].routes[h] # NoRoute

CalmZoneRead(p) ==
    /\ reads.zone[p] # NotRead => UnreadEdges = {} /\ CalmZone(reads, p, Excused)
    /\ reads.cover[p] # NotRead => \A h \in InternalScope \ Wild : reads.cover[p][h].value = NoValue

CalmSoFar ==
    job.kind # "idle" =>
        /\ \A e \in Edges : CalmRead(e)
        /\ reads.file \in {NotRead, file}
        /\ \A p \in PublicProviders(settings) : CalmZoneRead(p)

CalmReport ==
    out.kind = "audit" /\ ~ out.err =>
        \A f \in out.report : f.sev = "critical" => f \in Raised(Excused)

CalmWorld == CalmOp /\ CalmEdges /\ CalmNames

TeardownInv ==
    drift = 0 /\ op.verb # "expose" => CalmWorld /\ CalmSoFar /\ CalmReport

\* A deployment starts calm.
LEMMA InitCalm == Init => TeardownInv
<1> SUFFICES ASSUME Init PROVE CalmWorld /\ CalmSoFar /\ CalmReport
  BY DEF TeardownInv
<1>1. PICK w \in Healthy : edges = w.edges /\ zone = w.zone /\ file = w.file
  BY DEF Init
<1>2. settings \in Settings /\ NoAlarm(w, settings)
  BY HealthyAssumption DEF Init
<1>3. op = NoOp /\ op.verb = "none" /\ down = {} /\ job.kind = "idle" /\ out.kind = "none"
  BY DEF Init, NoOp, Idle, NoReport
<1>4. CalmEdges
  BY <1>1, <1>2, <1>3, TopologyAssumption DEF NoAlarm, CalmEdges, InternalEdge
<1>5. \A h \in Hosts : RoutedIn(w, h) => RoutedNow(h)
  BY <1>1 DEF RoutedIn, RoutedNow
<1>6. ASSUME NEW p \in PublicProviders(settings)
      PROVE  /\ \A h \in Hosts : CalmRecord(p, h)
             /\ \A h \in InternalScope \ Wild : zone[p][h].value = NoValue
  <2>1. p \in settings.dns /\ Scope[p] = "public" /\ p \in Providers
    BY <1>2, SettingsTyped DEF PublicProviders
  <2>2. ASSUME NEW h \in Hosts, LiveValue(p, zone[p][h]) # NoValue
        PROVE  /\ h \in Covers[p]
               /\ OwnsAllLiveRecords(p) => zone[p][h].value = Target[p]
               /\ IF h \in Wild THEN \E g \in Hosts : wildcardPatternCovers(h, g) /\ RoutedIn(w, g)
                               ELSE RoutedIn(w, h)
    BY <1>1, <1>2, <2>1, <2>2 DEF NoAlarm, Announced
  <2>3. \A h \in InternalScope \ Wild : zone[p][h].value = NoValue
    BY <1>1, <1>2, <2>1 DEF NoAlarm
  <2>4. ASSUME NEW h \in Hosts
        PROVE  CalmRecord(p, h)
    <3>1. op.verb # "unexpose"
      BY <1>3
    <3> QED
      BY <1>5, <2>2, <3>1 DEF CalmRecord
  <2> QED
    BY <2>3, <2>4
<1> QED
  BY <1>3, <1>4, <1>6 DEF CalmWorld, CalmOp, CalmNames, CalmSoFar, CalmReport

\* A command reads one more target.
LEMMA ReadCalm ==
    ASSUME TypeOK, CalmWorld, CalmSoFar, CalmReport, ReadEdge \/ ReadIngress \/ ReadZone
    PROVE  (CalmSoFar /\ CalmReport)'
<1>0. UNCHANGED <<settings, world, drift, op>> /\ down = {} /\ job.kind # "idle"
  BY DEF ReadEdge, ReadIngress, ReadZone, CalmWorld, CalmEdges
<1>1. UNCHANGED <<settings, edges, zone, file, op, Excused>>
  BY <1>0 DEF world, Excused
<1>2. CASE ReadEdge
  <2>1. PICK e \in Next1(UnreadEdges) :
          /\ reads' = [reads EXCEPT !.edge[e] = edges[e]]
          /\ UNCHANGED <<job, out>>
    BY <1>0, <1>2 DEF ReadEdge
  <2>2. e \in Edges /\ UnreadEdges # {}
    BY DEF Next1, UnreadEdges
  <2>3. edges[e] \in LiveEdge /\ edges[e] # Failed /\ edges[e] # NotRead
    BY <2>2, Sentinels DEF TypeOK
  <2>4. /\ \A f \in Edges : reads'.edge[f] = IF f = e THEN edges[e] ELSE reads.edge[f]
        /\ reads'.file = reads.file /\ reads'.zone = reads.zone /\ reads'.cover = reads.cover
    BY <2>1, <2>2 DEF TypeOK, ReadsType
  <2>5. ASSUME NEW f \in Edges
        PROVE  CalmRead(f)'
    <3>1. CASE f = e
      BY <1>1, <2>2, <2>3, <2>4, <3>1 DEF CalmRead, CalmWorld, CalmEdges, InternalEdge
    <3>2. CASE f # e
      <4>1. CalmRead(f)
        BY <1>0 DEF CalmSoFar
      <4> QED
        BY <1>1, <2>4, <3>2, <4>1 DEF CalmRead, InternalEdge
    <3> QED
      BY <3>1, <3>2
  <2>6. ASSUME NEW p \in PublicProviders(settings)
        PROVE  CalmZoneRead(p)'
    <3>1. CalmZoneRead(p)
      BY <1>0 DEF CalmSoFar
    <3>2. reads.zone[p] = NotRead
      BY <2>2, <3>1 DEF CalmZoneRead
    <3> QED
      BY <2>4, <3>1, <3>2 DEF CalmZoneRead
  <2>7. reads'.file \in {NotRead, file}'
    BY <1>0, <1>1, <2>4 DEF CalmSoFar
  <2>8. PublicProviders(settings)' = PublicProviders(settings)
    BY <1>1 DEF PublicProviders
  <2> QED
    BY <1>1, <2>1, <2>5, <2>6, <2>7, <2>8 DEF CalmSoFar, CalmReport
<1>3. CASE ReadIngress
  <2>1. /\ reads'.edge = reads.edge /\ reads'.zone = reads.zone /\ reads'.cover = reads.cover
        /\ reads'.file = file /\ UNCHANGED <<job, out>>
    BY <1>3 DEF ReadIngress, TypeOK, ReadsType
  <2>2. ASSUME NEW e \in Edges
        PROVE  CalmRead(e)'
    <3>1. CalmRead(e)
      BY <1>0 DEF CalmSoFar
    <3> QED
      BY <1>1, <2>1, <3>1 DEF CalmRead, InternalEdge
  <2>3. ASSUME NEW p \in PublicProviders(settings)
        PROVE  CalmZoneRead(p)'
    <3>1. CalmZoneRead(p)
      BY <1>0 DEF CalmSoFar
    <3> QED
      BY <1>1, <2>1, <3>1 DEF CalmZoneRead, CalmZone, ReadRouted, UnreadEdges
  <2>4. PublicProviders(settings)' = PublicProviders(settings)
    BY <1>1 DEF PublicProviders
  <2> QED
    BY <1>1, <2>1, <2>2, <2>3, <2>4 DEF CalmSoFar, CalmReport
<1>4. CASE ReadZone
  <2>1. PICK p \in Next1(UnreadProviders) :
          /\ \/ reads' = [reads EXCEPT !.zone[p] = zone[p],
                             !.cover[p] = IF OwnsAllLiveRecords(p) THEN @ ELSE zone[p]]
             \/ reads' = [reads EXCEPT !.cover[p] = zone[p]]
          /\ UNCHANGED <<job, out>>
    BY <1>0, <1>4 DEF ReadZone
  <2>2. p \in Providers /\ UnreadEdges = {}
    BY <1>4, SettingsTyped DEF Next1, UnreadProviders, TypeOK, ReadZone
  <2>3. /\ reads'.edge = reads.edge /\ reads'.file = reads.file
        /\ \A q \in Providers :
            /\ reads'.zone[q] = reads.zone[q] \/ (q = p /\ reads'.zone[q] = zone[p])
            /\ reads'.cover[q] = reads.cover[q] \/ (q = p /\ reads'.cover[q] = zone[p])
    <3>1. CASE reads' = [reads EXCEPT !.cover[p] = zone[p]]
      BY <2>2, <3>1 DEF TypeOK, ReadsType
    <3>2. CASE reads' = [reads EXCEPT !.zone[p] = zone[p],
                           !.cover[p] = IF OwnsAllLiveRecords(p) THEN @ ELSE zone[p]]
      <4>1. CASE OwnsAllLiveRecords(p)
        BY <2>2, <3>2, <4>1 DEF TypeOK, ReadsType
      <4>2. CASE ~ OwnsAllLiveRecords(p)
        BY <2>2, <3>2, <4>2 DEF TypeOK, ReadsType
      <4> QED
        BY <4>1, <4>2
    <3> QED
      BY <2>1, <3>1, <3>2
  <2>4. ASSUME NEW e \in Edges
        PROVE  CalmRead(e)'
    <3>1. CalmRead(e)
      BY <1>0 DEF CalmSoFar
    <3> QED
      BY <1>1, <2>3, <3>1 DEF CalmRead, InternalEdge
  <2>5. \A h \in Hosts : RoutedNow(h) => ReadRouted(reads', h)
    <3>1. ASSUME NEW h \in Hosts, NEW e \in Edges, edges[e].routes[h] # NoRoute
          PROVE  reads.edge[e].routes[h] # NoRoute
      <4>1. CalmRead(e) /\ reads.edge[e] # NotRead
        BY <1>0, <2>2 DEF CalmSoFar, UnreadEdges
      <4> QED
        BY <3>1, <4>1 DEF CalmRead
    <3> QED
      BY <2>3, <3>1 DEF RoutedNow, ReadRouted
  <2>6. ASSUME NEW q \in PublicProviders(settings)
        PROVE  CalmZoneRead(q)'
    <3>1. CalmZoneRead(q) /\ q \in Providers
      BY <1>0, SettingsTyped DEF CalmSoFar, PublicProviders, TypeOK
    <3>2. \A h \in Hosts : CalmRecord(q, h)
      BY DEF CalmWorld, CalmNames
    <3>3. \A h \in InternalScope \ Wild : zone[q][h].value = NoValue
      BY DEF CalmWorld, CalmNames
    <3>4. (UnreadEdges = {})'
      BY <2>2, <2>3 DEF UnreadEdges
    <3>5. ASSUME reads'.zone[q] # NotRead
          PROVE  CalmZone(reads', q, Excused)
      <4>1. CASE reads'.zone[q] = zone[q]
        BY <2>5, <3>2, <4>1 DEF CalmZone, CalmRecord
      <4>2. CASE reads'.zone[q] = reads.zone[q]
        <5>1. CalmZone(reads, q, Excused)
          BY <3>1, <3>5, <4>2 DEF CalmZoneRead
        <5> QED
          BY <2>3, <4>2, <5>1 DEF CalmZone, ReadRouted
      <4> QED
        BY <2>3, <3>1, <4>1, <4>2
    <3>6. reads'.cover[q] # NotRead => \A h \in InternalScope \ Wild : reads'.cover[q][h].value = NoValue
      BY <2>3, <3>1, <3>3 DEF CalmZoneRead
    <3> QED
      BY <1>1, <3>4, <3>5, <3>6 DEF CalmZoneRead
  <2>7. PublicProviders(settings)' = PublicProviders(settings)
    BY <1>1 DEF PublicProviders
  <2>8. (reads.file \in {NotRead, file})'
    BY <1>0, <1>1, <2>3 DEF CalmSoFar
  <2> QED
    BY <1>1, <2>1, <2>4, <2>6, <2>7, <2>8 DEF CalmSoFar, CalmReport
<1> QED
  BY <1>2, <1>3, <1>4

\* The audit is concluded: its report raises no alarm but the excused ones.
LEMMA ConcludeCalm ==
    ASSUME TypeOK, CalmWorld, CalmSoFar, Conclude
    PROVE  (CalmSoFar /\ CalmReport)'
<1>1. CalmSoFar'
  BY DEF Conclude, Idle, CalmSoFar
<1>2. Excused' = Excused
  BY DEF Conclude, Excused
<1>3. ASSUME job.kind = "audit"
      PROVE  CalmReads(reads, Excused)
  <2>1. ASSUME NEW e \in Edges
        PROVE  reads.edge[e] # Failed /\ reads.edge[e].deny /\ InternalEdge(e, reads.edge[e], reads.file)
    <3>1. CalmRead(e) /\ reads.edge[e] # NotRead
      BY <1>3 DEF CalmSoFar, Conclude, UnreadEdges
    <3>2. reads.file = file
      BY <1>3 DEF CalmSoFar, Conclude
    <3> QED
      BY <3>1, <3>2 DEF CalmRead
  <2>2. ASSUME NEW p \in PublicProviders(reads.conf)
        PROVE  /\ CalmZone(reads, p, Excused)
               /\ \A h \in InternalScope \ Wild : reads.cover[p][h].value = NoValue
    <3>1. p \in PublicProviders(settings) /\ p \in settings.dns
      BY DEF TypeOK, PublicProviders
    <3>2. CalmZoneRead(p)
      BY <1>3, <3>1 DEF CalmSoFar
    <3>3. reads.zone[p] # NotRead /\ reads.cover[p] # NotRead
      BY <1>3, <3>1 DEF Conclude, UnreadProviders
    <3> QED
      BY <3>2, <3>3 DEF CalmZoneRead
  <2> QED
    BY <2>1, <2>2 DEF CalmReads
<1>4. ASSUME out'.kind = "audit", NEW f \in out'.report, f.sev = "critical"
      PROVE  f \in Raised(Excused)
  <2>1. job.kind = "audit" /\ f \in AuditReport(reads)
    BY <1>4 DEF Conclude
  <2> QED
    BY <1>3, <1>4, <2>1, CalmNoAlarm
<1> QED
  BY <1>1, <1>2, <1>4 DEF CalmReport, Raised

\* An unexpose begins: every public name of its host is on its list.
LEMMA BeginCalm ==
    ASSUME TypeOK, CalmWorld, CalmSoFar, CalmReport, NEW h \in Hosts, BeginOp("unexpose", h)
    PROVE  (CalmWorld /\ CalmSoFar /\ CalmReport)'
<1>0. /\ UNCHANGED <<settings, edges, zone, file, down, job, reads, out>>
      /\ op'.verb = "unexpose" /\ op'.host = h /\ op'.todo = Participants(h) /\ h \notin Wild
      /\ op = NoOp
  BY DEF BeginOp, world
<1>1. Excused = {} /\ op.verb # "unexpose"
  BY <1>0 DEF Excused, NoOp
<1>2. CalmOp' /\ CalmEdges'
  BY <1>0 DEF CalmWorld, CalmOp, CalmEdges, InternalEdge
<1>3. ASSUME NEW p \in PublicProviders(settings)
      PROVE  /\ \A g \in Hosts : CalmRecord(p, g)'
             /\ \A g \in InternalScope \ Wild : zone'[p][g].value = NoValue
  <2>1. \A g \in InternalScope \ Wild : zone[p][g].value = NoValue
    BY DEF CalmWorld, CalmNames
  <2>2. ASSUME NEW g \in Hosts
        PROVE  CalmRecord(p, g)'
    <3>1. CalmRecord(p, g)
      BY DEF CalmWorld, CalmNames
    <3>2. ASSUME LiveValue(p, zone[p][h]) # NoValue
          PROVE  p \in Participants(h)
      <4>1. zone[p][h].value # NoValue
        BY <3>2 DEF LiveValue
      <4>2. ~ internalScoped(h)
        BY <1>0, <2>1, <4>1 DEF internalScoped
      <4>3. h \in Covers[p]
        BY <3>2 DEF CalmWorld, CalmNames, CalmRecord
      <4> QED
        BY <4>2, <4>3 DEF Participants, PublicProviders
    <3> QED
      BY <1>0, <1>1, <3>1, <3>2 DEF CalmRecord, RoutedNow
  <2> QED
    BY <1>0, <2>1, <2>2
<1>4. PublicProviders(settings)' = PublicProviders(settings)
  BY <1>0 DEF PublicProviders
<1>5. CalmNames'
  BY <1>3, <1>4 DEF CalmNames
<1>6. CalmSoFar'
  <2> SUFFICES ASSUME job'.kind # "idle"
               PROVE  /\ \A e \in Edges : CalmRead(e)'
                      /\ (reads.file \in {NotRead, file})'
                      /\ \A p \in PublicProviders(settings) : CalmZoneRead(p)'
    BY <1>4 DEF CalmSoFar
  <2>1. ASSUME NEW e \in Edges
        PROVE  CalmRead(e)'
    <3>1. CalmRead(e)
      BY <1>0 DEF CalmSoFar
    <3> QED
      BY <1>0, <3>1 DEF CalmRead, InternalEdge
  <2>2. ASSUME NEW p \in PublicProviders(settings)
        PROVE  CalmZoneRead(p)'
    <3>1. CalmZoneRead(p)
      BY <1>0 DEF CalmSoFar
    <3> QED
      BY <1>0, <1>1, <3>1 DEF CalmZoneRead, CalmZone, ReadRouted, UnreadEdges
  <2> QED
    BY <1>0, <2>1, <2>2 DEF CalmSoFar
<1>7. CalmReport'
  BY <1>0, <1>1 DEF CalmReport, Raised
<1> QED
  BY <1>2, <1>5, <1>6, <1>7 DEF CalmWorld

\* A step of the unexpose: a public name goes, or, when none is left, a route.
LEMMA OpCalm ==
    ASSUME TypeOK, CalmWorld, CalmSoFar, OpStep
    PROVE  (CalmWorld /\ CalmSoFar /\ CalmReport)'
<1> DEFINE h == op.host
<1>1. PICK t \in op.todo :
        /\ First(op.verb, t, op.todo)
        /\ op' = [op EXCEPT !.todo = @ \ {t}]
        /\ \/ /\ t \in Edges
              /\ edges' = [edges EXCEPT ![t].routes[h] =
                              IF op.verb = "expose" THEN CanonicalRoute(t, h) ELSE NoRoute]
              /\ UNCHANGED zone
           \/ /\ t \in Providers
              /\ zone' = [zone EXCEPT ![t][h] =
                              IF op.verb = "expose" THEN [value |-> Target[t], ours |-> TRUE]
                              ELSE NoRecord]
              /\ UNCHANGED edges
        /\ Disturbs /\ UNCHANGED <<file, down, drift>>
  BY DEF OpStep
<1>2. op.verb = "unexpose" /\ h \in Hosts \ Wild
  BY <1>1 DEF CalmWorld, CalmOp, NoOp
<1>3. op'.verb = "unexpose" /\ op'.host = h /\ op'.todo = op.todo \ {t}
  BY <1>1, <1>2 DEF TypeOK
<1>4. Excused' = Excused
  BY <1>2, <1>3 DEF Excused
<1>5. UNCHANGED <<settings, reads, file, down>> /\ job'.kind = job.kind
  BY <1>1 DEF Disturbs, TypeOK
<1>6. /\ \A e \in Edges, g \in Hosts :
            edges'[e].routes[g] = IF e = t /\ g = h THEN NoRoute ELSE edges[e].routes[g]
      /\ \A e \in Edges : edges'[e].deny = edges[e].deny
  <2>1. CASE t \in Edges
    <3>1. edges' = [edges EXCEPT ![t].routes[h] = NoRoute]
      BY <1>1, <1>2, <2>1, TopologyAssumption
    <3> QED
      BY <1>2, <2>1, <3>1 DEF TypeOK, LiveEdge
  <2>2. CASE t \notin Edges
    BY <1>1, <2>2
  <2> QED
    BY <2>1, <2>2
<1>7. \A p \in Providers, g \in Hosts :
          zone'[p][g] = IF p = t /\ g = h THEN NoRecord ELSE zone[p][g]
  <2>1. CASE t \in Providers
    <3>1. zone' = [zone EXCEPT ![t][h] = NoRecord]
      BY <1>1, <1>2, <2>1, TopologyAssumption
    <3> QED
      BY <1>2, <2>1, <3>1 DEF TypeOK, Zone
  <2>2. CASE t \notin Providers
    BY <1>1, <2>2
  <2> QED
    BY <2>1, <2>2
<1>8. CalmOp' /\ CalmEdges'
  BY <1>2, <1>3, <1>5, <1>6, TopologyAssumption DEF CalmWorld, CalmOp, CalmEdges, InternalEdge
<1>9. ASSUME t \in Edges, NEW p \in op.todo, p \in Providers, Scope[p] = "public"
      PROVE  FALSE
  <2>1. p \notin Edges /\ p # t
    BY <1>9, TopologyAssumption
  <2>2. Before("unexpose", t, p)
    BY <1>1, <1>2, <2>1 DEF First
  <2>3. rank(t) = 0 /\ rank(p) = 2
    BY <1>9, <2>1 DEF rank, rankEdge, rankPublicDNS
  <2> QED
    BY <2>2, <2>3 DEF Before
<1>10. ASSUME NEW p \in PublicProviders(settings)
       PROVE  /\ \A g \in Hosts : CalmRecord(p, g)'
              /\ \A g \in InternalScope \ Wild : zone'[p][g].value = NoValue
  <2>1. p \in Providers /\ Scope[p] = "public"
    BY SettingsTyped DEF PublicProviders, TypeOK
  <2>2. ASSUME NEW g \in InternalScope \ Wild
        PROVE  zone'[p][g].value = NoValue
    <3>1. zone[p][g].value = NoValue /\ g \in Hosts
      BY TopologyAssumption DEF CalmWorld, CalmNames
    <3> QED
      BY <1>7, <2>1, <3>1 DEF NoRecord
  <2>3. ASSUME NEW g \in Hosts, LiveValue(p, zone'[p][g]) # NoValue
        PROVE  /\ zone'[p][g] = zone[p][g] /\ ~ (p = t /\ g = h)
               /\ g \in Covers[p]
               /\ OwnsAllLiveRecords(p) => zone[p][g].value = Target[p]
               /\ g \notin Wild => RoutedNow(g)
               /\ g \in Wild \ Excused => \E x \in Hosts : wildcardPatternCovers(g, x) /\ RoutedNow(x)
               /\ g = h => p \in op.todo
    <3>1. ~ (p = t /\ g = h)
      <4>1. LiveValue(p, NoRecord) = NoValue
        BY DEF LiveValue, NoRecord
      <4> QED
        BY <1>7, <2>1, <2>3, <4>1
    <3>2. zone'[p][g] = zone[p][g]
      BY <1>7, <2>1, <3>1
    <3>3. CalmRecord(p, g)
      BY DEF CalmWorld, CalmNames
    <3> QED
      BY <1>2, <2>3, <3>1, <3>2, <3>3 DEF CalmRecord
  <2>4. ASSUME NEW x \in Hosts, RoutedNow(x), x # h \/ t \notin Edges
        PROVE  RoutedNow(x)'
    <3>1. PICK e \in Edges : edges[e].routes[x] # NoRoute
      BY <2>4 DEF RoutedNow
    <3> QED
      BY <1>6, <2>4, <3>1 DEF RoutedNow
  <2>5. ASSUME NEW g \in Hosts
        PROVE  CalmRecord(p, g)'
    <3> SUFFICES ASSUME LiveValue(p, zone'[p][g]) # NoValue
                 PROVE  /\ g \in Covers[p]
                        /\ OwnsAllLiveRecords(p) => zone'[p][g].value = Target[p]
                        /\ g \notin Wild => RoutedNow(g)'
                        /\ g \in Wild \ Excused =>
                              \E x \in Hosts : wildcardPatternCovers(g, x) /\ RoutedNow(x)'
                        /\ g = h => p \in op'.todo
      BY <1>3, <1>4 DEF CalmRecord
    <3>1. g \notin Wild => RoutedNow(g)'
      BY <1>9, <2>1, <2>3, <2>4
    <3>2. ASSUME g \in Wild \ Excused
          PROVE  \E x \in Hosts : wildcardPatternCovers(g, x) /\ RoutedNow(x)'
      <4>1. PICK x \in Hosts : wildcardPatternCovers(g, x) /\ RoutedNow(x)
        BY <2>3, <3>2
      <4>2. x # h
        BY <1>2, <3>2, <4>1 DEF Excused, wildcardPatternCovers
      <4> QED
        BY <2>4, <4>1, <4>2
    <3>3. g = h => p \in op'.todo
      BY <1>3, <2>3
    <3> QED
      BY <2>3, <3>1, <3>2, <3>3
  <2> QED
    BY <2>2, <2>5
<1>11. PublicProviders(settings)' = PublicProviders(settings)
  BY <1>5 DEF PublicProviders
<1>12. CalmNames'
  BY <1>10, <1>11 DEF CalmNames
<1>13. CalmSoFar'
  <2> SUFFICES ASSUME job.kind # "idle"
               PROVE  /\ \A e \in Edges : CalmRead(e)'
                      /\ (reads.file \in {NotRead, file})'
                      /\ \A p \in PublicProviders(settings) : CalmZoneRead(p)'
    BY <1>5, <1>11 DEF CalmSoFar
  <2>1. ASSUME NEW e \in Edges
        PROVE  CalmRead(e)'
    <3>1. CalmRead(e)
      BY DEF CalmSoFar
    <3> QED
      BY <1>5, <1>6, <3>1 DEF CalmRead, InternalEdge
  <2>2. ASSUME NEW p \in PublicProviders(settings)
        PROVE  CalmZoneRead(p)'
    <3>1. CalmZoneRead(p)
      BY DEF CalmSoFar
    <3> QED
      BY <1>4, <1>5, <3>1 DEF CalmZoneRead, UnreadEdges
  <2> QED
    BY <1>5, <2>1, <2>2 DEF CalmSoFar
<1>14. CalmReport'
  BY <1>1 DEF Disturbs, NoReport, CalmReport
<1> QED
  BY <1>8, <1>12, <1>13, <1>14 DEF CalmWorld

\* Every step keeps the invariant.
LEMMA StepCalm == TypeOK /\ TeardownInv /\ [Next]_vars => TeardownInv'
<1> SUFFICES ASSUME TypeOK, TeardownInv, [Next]_vars, drift' = 0, op'.verb # "expose"
             PROVE  (CalmWorld /\ CalmSoFar /\ CalmReport)'
  BY DEF TeardownInv
<1>1. ASSUME UNCHANGED <<settings, world, op>>
      PROVE  CalmWorld => CalmWorld'
  <2>1. UNCHANGED <<settings, edges, zone, file, down, op>> /\ Excused' = Excused
    BY <1>1 DEF world, Excused
  <2>2. PublicProviders(settings)' = PublicProviders(settings)
    BY <2>1 DEF PublicProviders
  <2>3. \A h \in Hosts : RoutedNow(h)' = RoutedNow(h)
    BY <2>1 DEF RoutedNow
  <2>4. CalmNames => CalmNames'
    BY <2>1, <2>2, <2>3 DEF CalmNames, CalmRecord
  <2> QED
    BY <2>1, <2>4 DEF CalmWorld, CalmOp, CalmEdges, InternalEdge
<1>2. ASSUME Drift
      PROVE  FALSE
  BY <1>2 DEF Drift, TypeOK
<1>3. CASE UNCHANGED vars
  <2>1. CalmWorld /\ CalmSoFar /\ CalmReport
    BY <1>3 DEF TeardownInv, vars
  <2>2. UNCHANGED <<settings, edges, file, op, job, reads, out>> /\ Excused' = Excused
    BY <1>3 DEF vars, world, Excused
  <2>3. PublicProviders(settings)' = PublicProviders(settings) /\ UnreadEdges' = UnreadEdges
    BY <2>2 DEF PublicProviders, UnreadEdges
  <2>4. CalmSoFar' /\ CalmReport'
    BY <2>1, <2>2, <2>3 DEF CalmSoFar, CalmReport, CalmRead, InternalEdge, CalmZoneRead
  <2> QED
    BY <1>1, <1>3, <2>1, <2>4 DEF vars
<1>4. ASSUME NEW k \in {"audit", "status", "export"}, Start(k)
      PROVE  (CalmWorld /\ CalmSoFar /\ CalmReport)'
  <2>1. CalmWorld /\ UNCHANGED <<settings, world, op>>
    BY <1>4 DEF Start, TeardownInv
  <2>2. \A e \in Edges : reads'.edge[e] = NotRead
    BY <1>4 DEF Start, NoReads
  <2>3. \A e \in Edges : CalmRead(e)'
    BY <2>2, Sentinels DEF CalmRead
  <2>4. reads'.file = NotRead /\ \A p \in Providers : reads'.zone[p] = NotRead /\ reads'.cover[p] = NotRead
    BY <1>4 DEF Start, NoReads
  <2>5. PublicProviders(settings)' \subseteq Providers
    BY <2>1, SettingsTyped DEF PublicProviders, TypeOK
  <2>6. \A p \in Providers : CalmZoneRead(p)'
    BY <2>4 DEF CalmZoneRead
  <2>7. CalmReport'
    BY <1>4 DEF Start, NoReport, CalmReport
  <2> QED
    BY <1>1, <2>1, <2>3, <2>4, <2>5, <2>6, <2>7 DEF CalmSoFar
<1>5. CASE ReadEdge \/ ReadIngress \/ ReadZone
  <2>1. UNCHANGED <<settings, world, drift, op>>
    BY <1>5 DEF ReadEdge, ReadIngress, ReadZone
  <2>2. CalmWorld /\ CalmSoFar /\ CalmReport
    BY <2>1 DEF TeardownInv
  <2> QED
    BY <1>1, <1>5, <2>1, <2>2, ReadCalm
<1>6. CASE Conclude
  <2>1. UNCHANGED <<settings, world, drift, op>>
    BY <1>6 DEF Conclude
  <2>2. CalmWorld /\ CalmSoFar /\ CalmReport
    BY <2>1 DEF TeardownInv
  <2> QED
    BY <1>1, <1>6, <2>1, <2>2, ConcludeCalm
<1>7. ASSUME NEW v \in {"expose", "unexpose"}, NEW h \in Hosts, BeginOp(v, h)
      PROVE  (CalmWorld /\ CalmSoFar /\ CalmReport)'
  <2>1. v = "unexpose" /\ op = NoOp /\ drift = 0
    BY <1>7 DEF BeginOp
  <2>2. CalmWorld /\ CalmSoFar /\ CalmReport
    BY <2>1 DEF TeardownInv, NoOp
  <2> QED
    BY <1>7, <2>1, <2>2, BeginCalm
<1>8. CASE OpStep
  <2>1. op.verb = op'.verb /\ drift = 0
    BY <1>8 DEF OpStep, TypeOK
  <2>2. CalmWorld /\ CalmSoFar
    BY <2>1 DEF TeardownInv
  <2> QED
    BY <1>8, <2>2, OpCalm
<1>9. ASSUME \/ \E e \in Edges : EditEdge(e) \/ EditFile(e)
             \/ \E e \in Edges, h \in Hosts : EditRoute(e, h)
             \/ \E p \in Providers, h \in Hosts : EditRecord(p, h)
             \/ \E t \in Targets : Outage(t)
      PROVE  FALSE
  BY <1>2, <1>9 DEF EditEdge, EditFile, EditRoute, EditRecord, Outage
<1> QED
  BY <1>3, <1>4, <1>5, <1>6, <1>7, <1>8, <1>9 DEF Next

(***************************************************************************)
(* Whatever the wiring, and however the reads of an audit and the steps of *)
(* an unexpose interleave: no audit beside an unexpose raises a critical   *)
(* alarm, but for the public pattern that the host may have been the last  *)
(* one under.                                                              *)
(***************************************************************************)
THEOREM TeardownIsQuiet == Spec => []TeardownRaisesNoAlarm
<1>1. TeardownInv => TeardownRaisesNoAlarm
  <2> SUFFICES ASSUME TeardownInv, out.kind = "audit", ~ out.err, drift = 0, op.verb = "unexpose",
                      NEW f \in out.report, f.sev = "critical"
               PROVE  f \in DanglingPatterns(op.host)
    BY DEF TeardownRaisesNoAlarm, HasCritical
  <2>1. f \in Raised(Excused)
    BY DEF TeardownInv, CalmReport
  <2> QED
    BY <2>1 DEF Raised, Excused, DanglingPatterns
<1>2. Init => TypeOK /\ TeardownInv
  BY InitType, InitCalm
<1>3. TypeOK /\ TeardownInv /\ [Next]_vars => (TypeOK /\ TeardownInv)'
  BY StepType, StepCalm
<1> QED
  BY <1>1, <1>2, <1>3, PTL DEF Spec
=============================================================================
