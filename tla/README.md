# crenel: a verification project

crenel exposes and withdraws self-hosted services: one command changes the
reverse proxies ("edges") and the DNS providers that together make a host
reachable. It keeps no state of its own. Every command reads live state, plans
a change, shows it, applies it provider by provider, reads everything back, and
compensates when something went wrong. This directory models that transaction
in TLA+, checks it with TLC and proves most of what it says about the
transaction, the converging verbs, the file edges, the reports and the writer
lock, and the core of what it says about the Caddy driver, with TLAPS.

## 1. The system

### Components

| Component | Source | State | Operations |
|---|---|---|---|
| Topology | `core/engine.go`, `chain_write.go`, `dns_zone.go` | the wiring: edges, origins maps, downstream chains, DNS zones and scopes | role of an edge, skip predicates, order of steps |
| Transaction engine | `core/apply.go`, `gate.go`, `rename.go`, `resume.go` | the running invocation: plan, snapshot, applied steps, report | Apply, Rename, Resume; stages plan, gate, confirm, snapshot, apply, verify, persist, rollback |
| Caddy driver | `drivers/edge/caddy` | the live route tree behind the admin API, the boot config | ReadLiveState, Plan, Apply (granular, full load, layer4), Persist, Adopt, Ack |
| nginx driver | `drivers/edge/nginx` | a config file or a read-only tree, the daemon's loaded config | ReadLiveState, Plan, Apply, VerifyRuntime, Adopt |
| Traefik driver | `drivers/edge/traefik` | a dynamic config file or the API, the daemon's loaded config | ReadLiveState, Plan, Apply, VerifyRuntime, Adopt |
| DNS drivers | `drivers/dns/{adguard,pihole,cloudflare,dnscontrol}` | records, some with ownership markers | LiveRecords, DesiredRecords, Diff, Apply |
| Reconcile | `core/reconcile.go` | none | detect drift, apply what is missing |
| Declarative apply | `core/declarative.go` | the desired file | plan, adopt inline, prune |
| Import, ack, triage | `core/import.go`, `ack.go`, `triage.go` | markers on live routes | adopt, acknowledge |
| Audit and reports | `core/audit.go`, `chain.go`, `ingress.go`, `status.go`, `export.go` | none | read-only |
| Writer lock, MCP | `cmd/crenel/lock.go`, `mcp.go` | a lock file, pending plan ids | lock, plan, apply |
| Configuration | `internal/config` | settings and origins files | load, record an origin |
| Transports | `drivers/transport` | connections | carry calls |

### How they interact

The engine calls every edge and provider through two interfaces
(`ports.EdgeProvider`, `ports.DNSProvider`), one call at a time, over the
network or ssh. The live state belongs to the providers: other tools, other
operators and the daemons themselves change it at any time. Calls block and
are bounded by timeouts; there are no callbacks. The only user interaction is
the confirmation between the gate and the first write. Reconcile, declarative
apply and the single-host verbs share the loop over the steps, the rollback and
the persist; import and ack write markers outside it; audit, status and export
only read.

### What is hard

* A transaction spans providers with no common commit: order, compensation and
  read-back are all there is. A call may fail before or after it took effect,
  or be acknowledged without effect.
* The process may be killed between any two calls and nothing is journalled.
* A Caddy admin API may hang on a reload; an nginx or Traefik daemon may keep
  serving an old config while the file is already new.
* Caddy's live config is lost on a restart unless it is persisted, and
  persisting reloads the file over the verified live state.
* Live state is read in the plan, in the gate, in the snapshot and in the
  read-back, with other writers in between. Within one Caddy operation, a route
  is addressed by its index in a config that was read earlier.
* Brownfield configs: a reader must either understand what an edge forwards or
  say that it did not, and a rewrite must give back what it did not change.
* Three verbs run through one pipeline; every switch on the verb in a driver
  is a place where one of them can be forgotten.

### What makes each component correct

* Topology: the step order never announces a leg before the legs behind it
  (`ExposureOrdered`), and plan and read-back select the same participants
  (`CleanRunLands`).
* Engine: failures restore (`RollbackRestores`), routes of others stay
  (`OthersUntouched`), a passed read-back is true (`VerifiedExposeIsEndToEnd`,
  `VerifiedRemovalIsGone`), what becomes public was previewed
  (`GoingPublicIsPreviewed`), every invocation ends (`Terminates`) and can be
  resumed (`ResumeConverges`).
* Caddy driver: what is certified as default-deny is closed
  (`EnforcedIsClosed`), an expose serves (`ExposeServes`), an unexpose leaves
  nothing (`SweepClears`), a rename is never dark (`RenameNeverDark`), a full
  load loses nothing (`FullLoadKeeps`), other hosts are not affected
  (`OthersUnaffected`), and an applied change survives a restart or is warned
  about (`DurableOrWarned`).
* File drivers: `EnforcedIsClosed` again, `VerifiedIsLive`, `RollbackRestores`,
  `OthersKept`, and an API reader that misses nothing (`NothingUnread`).
* Reconcile and declarative apply: they converge (`ConvergedStaysConverged`,
  `VerifiedEdgesAgree`) without opening (`NoUngatedCopy`), darkening
  (`NothingGoesDark`) or taking over (`OthersKept`) anything, in a sound order
  (`NamesLast`), and restore when they fail (`FailedRunRestores`).
* Import: ownership changes and nothing else (`ImportChangesNothing`).
* Audit and reports: no false alarm in a healthy deployment (`HealthyIsClean`)
  or beside an unexpose (`TeardownRaisesNoAlarm`), no silence about an open host
  (`OpenIsFlagged`) or an unreadable target (`UnreadableNeverGreen`).
* Writer lock and MCP: invocations do not interleave their rewrites or lose
  each other's finished changes (`AppliedStays`, `ImplementsRegistry`), the lock
  is given back (`LockReleased`), and what is applied is what was confirmed
  (`ConfirmedIsApplied`).
* DNS drivers: a conflicting record is refused, an owned one converges.

`PROJECT.json` lists the hazards at their source lines.

## 2. Modules

| Module | Content |
|---|---|
| `Topology` | Wiring constants with their assumptions; chain hops, roles, chain depth, skip predicates, the `Before` order of steps |
| `EdgeDrivers` | What the engine sees of the edge drivers: reads, plans, writes, probes, persists, and their faults |
| `DnsDrivers` | What the DNS drivers diff, write and verify; their faults |
| `Engine` | The transaction: one action per stage and per provider call, and the environment |
| `EngineProperties` | Type invariant, properties, the inductive invariant, and a documented claim that fails |
| `Converge` | Reconcile and declarative apply: plans over many hosts, edges and zones |
| `CaddyEdge` | The Caddy driver call by call over the admin API, with import, ack and triage on top |
| `LiveConfig` | What a driver of a file edge reads out of a config, and the deny state that follows |
| `NginxFile`, `TraefikFile` | The config of each daemon, how the driver reads, rewrites and adopts it, and what the daemon does with it; the Nginx Proxy Manager tree; the Traefik API |
| `EdgeFiles` | One such edge with its daemon, the operator and a running invocation |
| `Audit` | Audit, status and export, one read at a time |
| `Writers` | Several crenel processes at one file edge: the lock of the command line, the plan ids of MCP, an edge call as read, truncate and write |
| `Registry` | The abstract specification that `Writers` implements: one open host, atomic changes |
| `MCEngine`, `MCConverge`, `MCCaddy`, `MCEdgeFiles`, `MCAudit`, `MCWriters` | Definitions for the constants of the `.cfg` files |
| `DriverProofs` | TLAPS: lemmas on the operators of the driver modules, shared by the proofs on `Engine` and `Converge` |
| `TopologyProofs` | TLAPS: lemmas on the chains of edges |
| `EngineProofs` | TLAPS: the theorems on `Engine` |
| `ConvergeProofs`, `CaddyEdgeProofs`, `EdgeFilesProofs`, `AuditProofs`, `WritersProofs` | TLAPS: the theorems on `Converge`, `CaddyEdge`, `EdgeFiles`, `Audit` and `Writers` |

`Engine` and `Converge` extend both driver modules, which extend `Topology`;
`Audit` extends `DnsDrivers`; `EdgeFiles` extends `NginxFile` and `TraefikFile`,
which extend `LiveConfig`. The operators named "mutant of ..." are wrong
versions of the definition below them; they are used to make sure that a
property notices.

The modules look at one system at different depths. `Engine` and `Converge` have
many providers and treat a provider call as one step. `CaddyEdge` and
`EdgeFiles` have one edge and open the call: admin requests in the first, blocks,
routers and a daemon in the second. `Writers` has several processes at one nginx
edge and one public provider, with no foreign owners.

### State of `Engine` and the code

| Variable | In the code |
|---|---|
| `edge`, `zone` | what the providers hold (LiveEdgeState, records) |
| `pc`, `op` | the stage of `applyPlanned`, its `model.Op` |
| `plan` | the `ChangeSet`: participating edges, edge and DNS changes |
| `snap` | `pre`, the edge states read before the first write |
| `todo`, `applied` | the rest of `buildSteps`, the compensators pending |
| `outcome`, `rbErr`, `warned` | `ApplyReport`: the error, RollbackErrors, PersistWarnings |
| `unread` | the error came from a read |
| `pre`, `tainted` | history: the world the plan saw; targets touched since by anything but a sound call |
| `opsLeft`, `credit` | bounds on operations and faults |

| Action | Code |
|---|---|
| `Begin`, `Resume` | `applyOp`, `Engine.Resume` |
| `Plan` | `Engine.Plan`, `PlanRename`, with every error return |
| `Gate` | the empty-plan return and `gateOwnership` |
| `Confirm`, `Snapshot` | the confirm callback, the pre-apply reads |
| `ApplyStep`, `ApplyFails` | one turn of the loop over the steps |
| `Verify` | `verify` and `gateRuntimeVerify` |
| `RollbackStep` | one turn of `rollback` |
| `PersistStep` | one turn of `persistEdges`, then the return |
| `Crash` | the process is killed |
| `Wedge`, `Restart`, `Recover` | a Caddy admin API hangs, Caddy restarts, the operator follows the recovery hint |
| `DaemonReload` | somebody reloads nginx or Traefik |
| `OutOfBandEdge`, `OutOfBandZone` | other tools edit the providers |

### `Converge`

`edge`, `zone`, `pc`, `plan`, `snap`, `todo`, `applied`, `outcome`, `rbErr`,
`pre` and `tainted` are as in `Engine`. `run` is what was asked for: reconcile,
or an apply with its file, its prune and adopt flags. A `plan` has edge changes,
DNS changes and adoptions per target, and reconcile's canonical routes.

| Action | Code |
|---|---|
| `Begin` | `Reconcile`, `ApplyDeclarative` up to the prompt: `detectDrift` or `planDeclarative`, the refusals, the gate, the empty plan |
| `Confirm` | the confirm callback |
| `AdoptStep` | one edge of `adoptInline` |
| `Snapshot` | the pre-apply reads |
| `ApplyStep`, `ApplyFails` | one turn of the shared loop |
| `Verify` | `verifyReconcile`, `verifyDeclarative`, then `persistEdges` |
| `RollbackStep` | one turn of `rollback` |
| `OutOfBandEdge`, `OutOfBandZone` | other tools |

The name `Star` is the zone's wildcard: a route or a record under it answers for
every host.

### `CaddyEdge`

| Variable | In the code |
|---|---|
| `cfg` | the running config: the managed server's routes with one level of subroutes, a sibling server, layer4 routes, the admin endpoint |
| `job` | the operation under way: its verb, hosts, gate, the admin calls still to make, its status |
| `jobs`, `troubles` | bounds on operations and on failures and foreign writes |
| `before` | history: the config when the job started |

| Action | Code |
|---|---|
| `Apply`, `ApplyLayer4` | `Driver.Apply`: the choice between granular and full load, the list of admin calls |
| `Import` | `Import` with `Adopt`, candidates included |
| `Ack`, `Unack`, `AckRoute`, `UnackRoute` | `core/ack.go`, `triage.go` and the driver's ack by host and by locator |
| `Step` | the next admin call: a read of the config, or a write by `@id` or by index path |
| `CallFails`, `LandsThenFails` | the call's error, without and with its effect |
| `OtherClient` | another user of the admin API inserts or deletes a route |

What the driver reports (`normalize`, `DenyState`) is compared with what the data
plane does (`Answers`, `Behaviour`): routes are tried in order, a subroute before
the handlers after it, and a route with a further matcher takes only some
requests. `OtherClient` clears `job.clean`: what a job achieved is only claimed
of jobs into which no foreign write fell (an index read before such a write may
point at another route), while `EnforcedIsClosed` is claimed of every state.

### `EdgeFiles` with `NginxFile`, `TraefikFile`, `LiveConfig`

| Variable | In the code |
|---|---|
| `kind`, `probed` | which driver, and whether a probe address (and for nginx test and reload commands) is configured |
| `file` | the sequence of server blocks; the routers, services and TCP routers; the set of tree files |
| `running`, `pending` | the config the daemon serves, and whether it was told to load the file |
| `pc`, `op`, `change`, `snap` | the invocation: waiting for its read-back or its compensator, its request, planned change and snapshot |
| `report` | how it ended |
| `got` | the answers the API reader holds |
| `before`, `seen` | history: the file before the invocation, the configs that ran during the API read |
| `edits`, `runs` | bounds |

| Action | Code |
|---|---|
| `Start` | `Plan` and `Apply` of the driver: read, rewrite, validate, write, test, reload |
| `Kill` | the process dies after `os.WriteFile` truncated the file |
| `Verify` | the file read-back and `VerifyRuntime` |
| `Undo` | the compensator, applied to the file as it is then |
| `Import` | `core/import.go` with the driver's `Adopt` and `verifyImport` |
| `Fetch` | one GET of `api_read.go` |
| `Load`, `Restart` | the daemon takes the file, misses it, or is started from it |
| `Edit`, `Regenerate` | the operator pastes a snippet; Nginx Proxy Manager rewrites its tree |

### `Audit`

| Variable | In the code |
|---|---|
| `settings` | the declarations that the findings depend on: the wired providers, `internal`, read-only, the ingress kind of each edge |
| `edges`, `zone`, `file`, `down` | the world: routes and deny of the edges, records, ingress files, targets that do not answer |
| `job`, `reads`, `out` | the report being made, its settings and what it has read so far, the last one |
| `op`, `drift` | an expose or unexpose under way, and the bound on changes from outside |

| Action | Code |
|---|---|
| `Start` | `Audit`, `Status`, `Export` |
| `ReadEdge`, `ReadIngress`, `ReadZone` | one read, in the order of the code |
| `Conclude` | the findings over what was read |
| `BeginOp`, `OpStep` | a transaction of `Engine`, one target at a time in its order |
| `EditEdge`, `EditRoute`, `EditFile`, `EditRecord`, `Outage` | the world |

A report is the set of its findings: severity, code, subject. How an edge is
reached (`resolveIngressKind`) is what the operator declared, else what its
ingress file says, else what the driver reports, else the rule for Pangolin; no
driver of this repository reports a kind, and the runs report none.

What the findings are judged against is taken from the world, not from the
audit: `PublicAt` is a union of three ways in. `ByTunnel`: the file of a tunnel
or funnel publishes the host at this edge. `ByName`: a public record of any
owner, or that of a pattern that covers the host, at an edge no chain stands
before. `ByPort`: with no public provider wired, the port of such an edge, unless
the deployment is declared internal or a tunnel stands before it that the
operator has not declared a public listener. Which ports the internet reaches is
the one thing the world does not tell. `OpenFrom` follows the request from there
down the chain.

### `Writers` and `Registry`

| Variable | In the code |
|---|---|
| `file`, `names` | the nginx config file with its server blocks and deny block, the public records |
| `lock` | who holds the flock on `lockPath` |
| `pc`, `op`, `plan`, `snap`, `todo`, `applied` | as in `Engine`, one per process |
| `phase`, `buf` | inside the driver's `Apply`: `text` as it was read |
| `issued`, `token` | the plan ids a client was given, and the change whose id `handleApply` accepted |
| `raced` | history: another writer rewrote the file, or the record of the same host, between a server's comparison of ids and its plan |
| `outcome` | how the verb or tool call ended |
| `settled`, `torn` | history: what the last verified change of a host left; a kill inside `os.WriteFile` |

| Action | Code |
|---|---|
| `Dispatch`, `Guard` | `dispatch` with `acquireLock`, `guardPublicAuth` |
| `CrenelPlan`, `CrenelApply` | `handlePlan`, `handleApply` up to its call of `Engine.Apply` |
| `Plan`, `Confirm`, `Snapshot`, `Verify` | the stages of `applyPlanned` |
| `DnsCall` | one DNS step or its compensator |
| `ReadFile`, `Truncate`, `WriteFile` | `read`, the opening of the file by `os.WriteFile`, its write with test and reload |
| `Kill` | the process is killed; the kernel drops its flock |

`Registry` is what an operator may rely on when several invocations run: hosts
that are routed or not and named or not, one open for change at a time, its
route and its name set in atomic steps, and nobody else's touched. Its step
`Tear` is the one concession: a kill inside the write loses every route. The
mapping is `routed <- Routed` (the file, or what its truncator holds in hand),
`named <- names`, `open <- Open` (the host of the process that is applying or
rolling back).

### Abstractions

* The reads of one stage are one step in `Engine` and `Converge`. A write between
  two reads of the same stage is equivalent to one before or after it for each
  provider separately, and stages are separated. `Audit`, whose findings relate
  several reads, has every read as a step.
* A service and its host are one value. In `Engine` a backend address and a
  route's mode are left out; `Converge` keeps the mode, `CaddyEdge` and
  `EdgeFiles` the address too. Owner, forward-auth and TLS hop are kept
  wherever the gate, the read-back or the compensators depend on them.
* In `Engine` and `Converge` a host has at most one marked and one unmarked route
  per edge, and `EdgeState.first` says which a read lists first: the gate's index
  keeps the last route of a host, `findRoute` the first. Caddy inserts its own
  routes at index 0, nginx renders them after the others; Traefik sorts by
  router name, so either order can occur and the theorems hold for both.
* A provider holds one record per name. Record values are model values.
* An owner is a property of a route. Generated configs mark a whole edge
  (`Generated`); a single foreign route on an otherwise manageable edge is
  allowed as well, which is more general than what the present drivers report.
* Provider faults are of named kinds (`EdgeDrivers!Faulty`,
  `DnsDrivers!DnsFaulty`), each read off a place where a driver returns.
* Config text, YAML and JSON are the trees and sequences that are read from
  them; Caddy's nesting is bounded at one subroute.
* Outside `src/` and modelled from how the code uses it: Caddy's boot, admin API
  and request routing, `caddy validate`, how nginx and Traefik load a file and
  answer a request, provider APIs failing, the kill, other tools.

## 3. Runs

| Run | System | Shows |
|---|---|---|
| `chain_faults` | Caddy front with a TLS hop, nginx home, AdGuard-like and Cloudflare DNS; expose and unexpose with `--scope` and `--edges`, resumed when interrupted | `TypeOK`, `ExposureOrdered`, `RollbackRestores`, `CleanRunLands`, `GoingPublicIsPreviewed`, `Terminates`, `ResumeConverges` under two failing, half-landed or lying calls, wedges, failed reads and kills |
| `interference` | Caddy front, Traefik home, dnscontrol; routes and records of every owner | `OthersUntouched`, `VerifiedExposeIsEndToEnd`, `VerifiedRemovalIsGone` under two out-of-band edits, stale daemons, silent calls, restarts |
| `rename_persist` | a Caddy edge with a persist path and an nginx edge, two hosts, two operations | `CleanRunLands`, `DurableOrWarned` from every mix of marked, region and operator routes, half-landed renames included |
| `writers` | two command-line invocations with one settings file, and an MCP server whose writes wait until no other writer is at work; between its comparison of ids and its plan the others do as they like | `AppliedStays`, `ConfirmedIsApplied`, `LockReleased`, `ImplementsRegistry` under a failing call or a kill |
| `converge` | Caddy front, Traefik home, a split-horizon and a Cloudflare zone, two hosts and the wildcard; reconcile, apply, apply with adopt, with prune | `ConvergedStaysConverged`, `NoUngatedCopy`, `OthersKept`, `NothingGoesDark`, `NamesLast`, `FailedRunRestores`, `VerifiedEdgesAgree` from 2,304 live states under a failing call or an out-of-band edit |
| `caddy` | route trees of up to two top-level routes with wildcard sites, grouped hosts, further matchers, a sibling server, layer4 | `EnforcedIsClosed`, `ExposeServes`, `SweepClears`, `RenameNeverDark`, `ImportChangesNothing`, `FullLoadKeeps`, `OthersUnaffected` with a failing call or a foreign write between any two calls |
| `audit` | a chain, an edge beside it, three DNS providers, tunnel files at two edges, five declarations (an edge declared a public listener or a tunnel among them), records of every owner and of patterns | `HealthyIsClean`, `OpenIsFlagged`, `UnreadableNeverGreen`, `TeardownRaisesNoAlarm` with two changes from outside and a transaction under way |
| `edges` | one nginx, Traefik or Nginx Proxy Manager edge with its daemon, from 174 configs of up to two blocks, routers or tree files | `EnforcedIsClosed`, `VerifiedIsLive`, `RollbackRestores`, `NothingUnread`, `OthersKept`, `ImportChangesNothing` with late and missed loads, restarts, edits, kills |

Four further runs each end in a counterexample to a sentence of the
repository; `PROJECT.json` quotes the sentence under `findings`:

| Run | What happens |
|---|---|
| `v_rename` | `verifyDNS` answers a rename with "unknown verb"; a rename with a covering DNS provider is always rolled back (`RenameLands`) |
| `v_mcp_rewrite` | `mcp` is not a locked verb: a command-line verb and `crenel_apply` overwrite each other's config file (`NoInterleavedRewrite`) |
| `v_adopt` | `Adopt` of the Traefik driver moves the service of an adopted router to crenel's name; another router that shares it goes dark (`ImportTakesNothingDown`) |
| `v_enforced` | a host-less Traefik router to a weighted service forwards every host and is read as a default-deny (`ReadTruthfully`, which is about Traefik edges only) |

The modules other than `Engine` have a `TypeOK` too; it documents their state
and is not among the recorded properties.

### Where a property does not hold

A property leaves out the cases in which the code does something else by a named
condition or a conjunct in its own text, and not by leaving the case out of the
model; the exceptions are four properties of run `caddy`, which also depend on the
routes of the run (see *Only model-checked*). These are weak places of the code met
on the way.

Transaction (`Engine`):

* `InternalAtPublic`: `verify` knows two of the three reasons for which `Plan`
  skips a provider; an internal-scope service next to a public provider is
  always rolled back (`apply.go:501`).
* A step that fails after it landed is not compensated (`apply.go:148`): nginx
  writes its file, the reload fails, and the file keeps the new block.
* The flat form of the persisted region has no TLS hop (`persist.go:307`): the
  reload of `Persist` turns a verified TLS front into plain HTTP.
* `UnmarkedRemoval`, `RemovesUnmarked`: unexposing a hand-written nginx route
  deletes nothing, fails its read-back, and `invertEdge` then puts up a marked
  copy.
* A record that held another value: an update travels as an add, and
  `invertDNS` deletes the record.
* `OperatorDeclared`: a host of the operator's part of the Caddyfile is verified
  absent and comes back with the reload of `Persist`.
* An unmarked live route that is not in the boot config is dropped by that same
  reload, of whatever host the change was.
* A public record that was there before the route: `computeNewPublic` looks at
  added records only and the preview is silent.

Reconcile and declarative apply (`Converge`):

* Their read-back never asks a daemon (`declarative.go:532`), and
  `planDeclarative` does not ask for the internal-only declaration that `Plan`
  and reconcile honour (`declarative.go:211`).
* `StopsHalfway`: a provider call that is refused at its second record leaves
  the first one up when the run is rolled back.
* Records that `--prune` removes go after their routes.
* The marker of an adopted route stays when the run is rolled back. The rollback
  of a re-rendered unmarked route leaves a marked copy, and that of a re-asserted
  record deletes it.
* `Reloaded`: a Caddy edge with a persist path loads its boot config over the
  verified routes. Unmarked routes that are not in it go dark, others that only
  it declares come up, and the next run may find something to do. Such an edge
  also sweeps an unmarked route it is told to remove.
* The wildcard record is exempt from a reconcile only at a provider that does
  not mark its own records.

Caddy (`CaddyEdge`):

* A route is read by its proxy, or else its deny, or else its subroute. A handler
  that stands beside a subroute is not looked at, nor one beside a deny, and a
  sibling server counts only when one of its top-level routes forwards. What only
  such config forwards is neither listed nor unparsed, and the edge can still
  read as enforced (`ReadWhole`, `serverForwards` in `EnforcedIsClosed`).
* Deleting a route that groups several hosts takes the others down (`Grouped`).
* A full load replaces a permissive catch-all by a deny, and it opens a host
  whose route stood behind a closed one: the routes are kept, what shadowed them
  is not.
* A layer4 route without SNI is skipped silently.
* An acknowledgement is confirmed by its reason, not by its host.

File edges (`EdgeFiles`; conditions `Legible`, `Plain`, `Orderly`, `Solitary`):

* An adopted nginx vhost is rendered again by the next `Apply` and loses what the
  reader did not keep: `auth_basic`, a second name, its port, its TLS. Of two
  blocks of a host the last wins; a redirect becomes an empty `proxy_pass`.
* A second `default_server` makes `nginx -t` fail after the file was written. A
  bare `server_name _` without it counts as a deny.
* Unexposing a hand-written nginx vhost deletes nothing, and the compensator of
  the failed read-back renders a copy on crenel's own port: a new answer, when the
  vhost listens elsewhere.
* The probe of Traefik (`managedRouterLive`) looks at HTTP routers only: a TCP
  unexpose is confirmed at once, whatever runs, and a TCP expose never is.
* Traefik's read, modify, write drops `http.middlewares` and other sections
  (`DefsElsewhere`: in the runs they live in another file).
* The first middleware of an adopted router reads as its auth policy; a router
  of two hosts is adopted under one. Adoption onto a name crenel uses already
  overwrites that router and its service (`Orderly`).
* TCP ``HostSNI(`*`)`` is not seen as a catch-all. A torn API read in which the
  service of a host-less router is renamed can read as ENFORCED.
* A probe cannot tell the gate, and an unmanaged redirect block of the same host
  shadows the exposed one.
* The port of an acknowledged, path-scoped vhost is not among `forwardingPorts`.

Audit (`Audit`):

The exceptions of `OpenIsFlagged` belong to one way in each; a host that another
way in opens as well is flagged.

* `UnseenName`: the posture of a host is judged by records that are crenel's, on
  purpose (`publicDNSHosts`, `audit.go:600`, `audit.go:895`). A host that is public by a
  foreign record, or by an operator's public wildcard record, and open, passes the
  posture check, although `audit.go:555` calls a foreign record just as reachable;
  both kinds are looked at for a service that is declared internal: the record of
  its name always, the wildcard where a chain front carries the host.
* `UnseenTunnel`: a tunnel's rules are applied to the names an edge routes, not
  to what the route of a pattern serves; and an edge declared a public listener
  has its tunnel file left unread (`audit.go:362`).
* `UnseenPort`: a host is not counted as reachable by a port while every edge
  that routes it by name has a tunnel file that was recognized, be it a
  `serve.json` that cannot be parsed; nor is one that only a pattern's route serves.
* `GatedSomewhere`, `TakenGated`: an open host that some edge gates, or whose auth
  is asserted, is not flagged. On a chain front without a downstream address every
  route counts as a relay; a pattern there that dials its origin, while the edge
  behind routes a name under it, reads as a resolved chain.
* An edge that is declared to be reached by a way crenel cannot see is warned
  about in every deployment, the healthy ones included (`HealthyIsClean`).
* Not flagged either: a missing front forward in a chain; a missing public record
  while the internal one is there.
* An audit beside an expose can raise a false critical `dns_without_edge_route`;
  `TeardownRaisesNoAlarm` is about the unexpose.
* Unexposing the last host under a public pattern leaves the pattern dangling,
  and the audit reports it as critical (`DanglingPatterns`).

Writers: the plan that `handleApply` compared and the one `Engine.Apply` computes
may differ. `ConfirmedIsApplied` says when: only if another writer rewrote the
file, or the record of the same host, between the two (`raced`). Then the server
applies a plan nobody confirmed, and the public-without-auth guard has not seen
it either. Without `raced` in the property TLC finds that behaviour in run `writers`.

### Bounds

Two edges and two providers give every kind of pair the order distinguishes:
edge and DNS, internal and public DNS, front and downstream. One host suffices
for expose and unexpose, because a change touches its own host only; persist
and rename get two, because they move several, and reconcile two and the
wildcard. Two faults let a step fail and its compensator fail, or two legs fail
at once. Two operations are used where the first leaves a state the second must
cope with (a marker lost in a reload, a rename back). The initial worlds are all
combinations of the route and record states of the run, so an operation also
starts half-applied. `converge` has one invocation and one fault per behaviour
and takes its variety from the worlds; whether a second invocation would have
something to do is part of `ConvergedStaysConverged`.

`writers` has three processes, two hosts and three verbs or tool calls: one verb
can finish a change of one host while another works on the other host, fails and
rolls back, and a third comes after; an id can be kept over a later change, and a
command-line verb can run between a server's comparison of ids and its plan. A
server's own writes are kept apart from the others' (`Apart` in `MCWriters`):
that they do interleave is what `v_mcp_rewrite` shows.

`caddy` has three hosts in two zones, so a wildcard site covers some of them, at
most two operator routes at the start (one before and one after the place a
route is inserted at), one trouble and one or two operations. `edges` starts
from files of at most two blocks, routers or tree files: two suffice to share a
name, a port, a service or a default, and the second one is of a kind that does
(`MCLast`, `MCBeside`). One edit and two invocations let an import
precede an expose and an edit fall before, between or after the two; the operator
does not edit the file while an invocation is at work (`Edit`), and such an edit is
the subject of `Engine` and `Converge`. `audit` has the three postures of an edge
(chain front, downstream, beside the chain), tunnel files at the last two, the
three of a provider, and two changes, so that one can hide the other and a file
and a record or route can come together.

Deadlock is checked in `audit`, where a report can always be started. Elsewhere
the system may stop when its operations are used up.

### Fairness

`FairSpec` of `Engine` assumes weak fairness of crenel's own steps: a step is
one provider call, and every call carries a timeout, so it returns. `Terminates`
needs no more. `ResumeConverges` also assumes the operator: wedged edges are
restarted (the hint the report prints) and the operation is resumed
(`ResumingSpec`, under which both are checked). Faults are bounded by
`MaxFaults`, as they must be for anything to converge.

For `Writers`, `Fairness` is weak fairness of every process's own steps: calls
return, and the operator answers the prompt (the lock is held while it waits,
so this is a real assumption about the operator). No fairness is assumed of
starting a verb.

The other modules are checked for safety only.

## 4. Proofs

### Assumptions

All are named and stand in the modules that declare the constants.

* `TopologyAssumption`, `WiringAssumption` (two targets of a kind have different
  positions) and `ChainAssumption` (chains do not loop).
* `EdgeDriverAssumption`, `DnsDriverAssumption`: among them, that a probe address
  is configured for nginx and Traefik edges only, the drivers that have one.
* `EngineAssumption`, `ConvergeAssumption`: types of the constants.
* `MarkedAssumption`: in the worlds `Converge` starts from, a marked route reads
  as crenel's, every route on a generated edge reads as foreign, and the file
  drivers report no TLS hop.
* `FileAssumption`: a desired file has one entry of a host per edge.
* `AuditAssumption`: types of the constants, one pattern per zone, and the two
  marks "not read" and "failed" are no edge states.
* `HealthyAssumption`: the worlds `Audit` starts from give no cause for a
  critical alarm (`NoAlarm`, stated of the world and not of a report). Only
  `TeardownIsQuiet` uses it; no alarm can be expected of a deployment that has
  one already.
* `CaddyAssumption`: finitely many hosts, none of which is a zone or empty; the routes of an
  operator or of another client are routes of the tree, of any number, order and
  nesting up to one subroute, in which crenel's `@id` of a host stands on a route
  of that host; a sibling server carries none of crenel's `@id`s, which crenel
  puts on the managed server only.
* `LiveConfigAssumption`, `NginxAssumption`, `TraefikAssumption`, `NamesAssumption`,
  `EdgeFilesAssumption`: types of the constants; finitely many hosts and router
  names; only crenel's names carry its prefix, and no host is called `deny` (the
  key of the deny router); the configs an edge starts from and the operator's
  snippets are configs, of any size.
* `WritersAssumption`. All theorems on `Writers` but the last also assume
  `OneLockFile` in their statement: no MCP server, and one settings file, hence
  one lock, for all. `v_mcp_rewrite` shows that the first half is needed; two
  settings files that name the same edge have two locks and lose the second.
  The last one, `ConfirmedApplied`, has no further assumption: any number of
  servers and command-line processes, with any lock files.

There is no bound on edges, providers, hosts, chain length, the blocks and
routers of a config, the routes of a tree, operations, edits or faults.

### Theorems

| Theorem | States |
|---|---|
| `TypeCorrect` | `Spec => []TypeOK` of `Engine` |
| `TransactionSafe` | `Spec => []TransactionInv` |
| `OthersSafe` | `Spec => []OthersUntouched` |
| `OrderSafe` | `Spec => []ExposureOrdered` |
| `ImagesHold` | `Spec => []ImageInv` |
| `FailureRestores` | `Spec => []RollbackRestores` |
| `CleanRunsLand` | `Spec => []CleanRunLands` |
| `AppliedIsDurable` | `Spec => []DurableOrWarned` |
| `NewPublicIsConfirmed` | `Spec => []GoingPublicIsPreviewed` |
| `ExposeIsEndToEnd` | `Spec => VerifiedExposeIsEndToEnd` |
| `RemovalIsGone` | `Spec => VerifiedRemovalIsGone` |
| `ConvergeInvariant` | `Spec => []IInv` of `Converge` |
| `ConvergeTypeCorrect` | `Spec => []TypeOK` of `Converge` |
| `NeverAnUngatedCopy` | `Spec => []NoUngatedCopy` |
| `ManagedBoundaryHolds` | `Spec => []OthersKept` |
| `NeverDark` | `Spec => []NothingGoesDark` |
| `NamesAnnouncedLast` | `Spec => []NamesLast` |
| `RollbackIsComplete` | `Spec => []FailedRunRestores` |
| `ConvergingIsIdempotent` | `Spec => []ConvergedStaysConverged` |
| `ReadBackMeansAgreement` | `Spec => VerifiedEdgesAgree` |
| `TypeInvariant` | `Spec => []TypeInv` of `CaddyEdge` |
| `TypeCorrect` (of `CaddyEdgeProofs`) | `Spec => []TypeOK` of `CaddyEdge` |
| `EnforcedClosed` (of `CaddyEdgeProofs`) | `Spec => []EnforcedIsClosed` of `CaddyEdge` |
| `SweepInvariant` | `Spec => [](TypeInv /\ SweepInv)` |
| `SweptClear` | `Spec => []SweepClears` |
| `WorkInvariant` | `Spec => [](TypeInv /\ WorkInv)` |
| `OthersKept` (of `CaddyEdgeProofs`) | `Spec => OthersUnaffected` |
| `InvariantCorrect` | `Spec => []IInv` of `EdgeFiles` |
| `TypeCorrect` (of `EdgeFilesProofs`) | `Spec => []TypeOK` of `EdgeFiles` |
| `EnforcedClosed` (of `EdgeFilesProofs`) | `Spec => []EnforcedIsClosed` of `EdgeFiles` |
| `NothingGoesUnread` | `Spec => []NothingUnread` |
| `OthersAreKept` | `Spec => OthersKept` of `EdgeFiles` |
| `CompensationRestores` | `Spec => []RollbackRestores` of `EdgeFiles` |
| `ImportOnlyAdopts` | `Spec => ImportChangesNothing` of `EdgeFiles` |
| `VerifiedIsTrue` | `Spec => []VerifiedIsLive` |
| `AuditTypeCorrect` | `Spec => []TypeOK` of `Audit` |
| `QuietReportsHold` | `Spec => []AuditInv` |
| `NeverGreenUnread` | `Spec => []UnreadableNeverGreen` |
| `OpenHostsFlagged` | `Spec => []OpenIsFlagged` |
| `TeardownIsQuiet` | `Spec => []TeardownRaisesNoAlarm` |
| `LockedWriters` | `OneLockFile` gives `Spec => []WritersInv` |
| `RewritesSerial` | `OneLockFile` gives `Spec => []NoInterleavedRewrite` |
| `AppliedSafe` | `OneLockFile` gives `Spec => []AppliedStays` |
| `RegistryImplemented` | `OneLockFile` gives `Spec => ImplementsRegistry` |
| `ConfirmedApplied` | `Spec => []ConfirmedIsApplied` of `Writers` |

### `Engine`: order and ownership

`ExposureOrdered` speaks about live state only and is not inductive: that a
front may be brought up now depends on its downstream having been brought up
before, which depends on the order of the steps done so far. `TransactionInv`
adds what is missing:

* `StepOrder`: the applied steps are a prefix of the sorted steps, both while
  the transaction runs forward and while it is rolled back from the end;
* `PlanShape`: an expose only adds, an unexpose only removes, and only the host
  of the operation, with what the drivers need to find it again;
* `ExposeLegs`, `UnexposeLegs`: the live state of a leg nobody disturbed is
  what its membership in the prefix says, including the marker and region that
  decide whether a driver can take it down, and the snapshot from which it
  would be put back;
* `Gated`: past the gate, no change touches a host whose owner the gate
  refuses, and up to the gate the owners are those the plan saw;
* `PersistQueue`: only participating edges are persisted.

`OrderSafe` then follows because a leg behind another is before it in the order
of an expose and after it in that of an unexpose (`BehindOrder`).

`EngineProofs` proves type correctness with one lemma per operator and one
per action. It then says what one call changes (`WriteEffect`,
`CallEdgeEffect`, `CallProviderEffect`), treats every step of the environment
as "quiet" on undisturbed targets (`EnvironmentQuiet`), and then proves each
part of the invariant, one step per action.

### `Engine`: what a transaction leaves behind

The other properties compare the live state with the world `pre` the plan was
made from, several stages later. `ImageInv` says where a target is in between. `TransactionInv` is part of it; the others are:

* `PlannedFrom`: the plan is the plan of `pre`, and `Plan` found nothing to
  refuse there;
* `EdgeImage`: an edge no fault touched is at `pre` before its step, at `Wrote`
  (the driver's write of the planned change) after it, at `Undone` after its
  compensator, and at the boot of its merged region after a persist. Equality is
  `Same`, up to what the daemon has loaded: a reload may happen at any time;
* `ZoneImage`: the same for a provider, with `Named` and `Unnamed`;
* `Reported`: when the report may hold rollback errors and persist warnings;
* `VerifiedGone`: what the read-back found gone is gone from `Wrote`;
* `Excused`: a transaction that fails undisturbed, and not for a failed read, has
  one of the causes listed in `ReadBackRefuses`.

Each theorem is then a fact about the operators alone: what `Undone` routes
(`UndoneRoutes`, `UnnamedRecord`) gives `FailureRestores`; that the read-back
accepts `Final` (`EdgePasses`, `ProviderPasses`) keeps `Excused`, which gives
`CleanRunsLand`; what a boot config holds after the merge (`BootRoutes`) gives
`AppliedIsDurable`.

`ExposeIsEndToEnd` and `RemovalIsGone` hold under every fault, because the
read-back looks at the live state (`VerifyStep`). The first needs that every hop
of a chain takes part in the operation (`ChainParticipates`). `Hop` is a
recursive function over the number of hops; that it exists (`HopsExist`), is
typed (`HopType`) and composes (`HopsCompose`) is proved in `TopologyProofs` by
taking a least counterexample, since induction as such is not available to the
provers.

### `Converge`

`IInv` has the same structure over many hosts at once: `Planned` (the plan is
`PlanOf(run, pre)`, was not refused and passed the gate), `StepOrder`,
`MarkedNow` (owners and markers agree, on live edges and on `pre`), `EdgeLeg`
and `ZoneLeg` (the images `Base` after adoption, `Wrote`, `Undone`, `Named`,
`Unnamed`, and `Halfway` for a provider call that was refused at a later
record), and `StillVerified` (the read-back would pass again, unless an edge was
reloaded). `SameRoutes` is the equality of images; it is coarser than `Same`,
since nothing here asks a daemon.

What a plan may ask of an edge is one lemma (`PlanAsk`, from `ReconcileAsk` and
`ApplyAsk`), what the images of such a plan route is another (`EdgeImages`,
`ReloadedCell`), and every state property is a case analysis of where an edge
can be (`WhereEdge`, `WhereName`). `ConvergingIsIdempotent` is the deepest: it
plans again from the images (`ReconcileConverged`, `ApplyConverged`).
`StillVerified` is needed there, because an applied run also has to have passed
a read-back over edges the plan did not touch.

### `CaddyEdge`

A job is a list of admin calls that address routes by `@id` or by index path, so
that nothing about one route can be said without saying where it stands. The first
part of `CaddyEdgeProofs` is about the tree: what the routes at a path are after
`insertAt`, `removeAt` and `handlePutRoute`, and that every path of the tree after
a delete comes from a path of the tree before (`Was`).

`TypeInv` is `TypeOK` with what makes it inductive: the shape of a config and of
every call still to make, and `IdsApart`, that no two routes carry the same `@id`.
`IdsApart` survives a call because `Step` refuses what Caddy refuses
(`IdsUnique`) and because a rendered route carries one `@id` at most.

`EnforcedClosed` needs no more of a state than its type: it is about the operators.
The data plane finds an answer by trying routes in order; `normalize` lists routes
by walking them, and skips some. `ClosedWhenEnforced` takes any candidate of a
request, on either server, that exposes something, and goes through the ways the
reader can meet it: a route with a host, a catch-all, a subroute of a wildcard
site, one without a site. Each is listed or acknowledged, or else the edge is not
read as enforced: something is unparsed, or the deny is not there. Nothing is said of the order of routes, since every
candidate is covered, whether it is reached or not.

`SweptClear` needs an invariant over the calls that are left. `SweepInv`: while an
apply of a durable edge goes on undisturbed, the calls left are those of an apply
(`ApplyCalls`), and for every host to be removed whose routes had no `@id` of
crenel, no route has got one (`Unmarked`), and either no route is for the host
any more (`NotFor`) or its removal is still among the calls left (`Pending`). A
delete by `@id` of such a host finds nothing and becomes a sweep; a sweep deletes
one route and stays in the list until none is left (`KeepsSweeping`). What the other
calls insert is for other hosts.

`OthersKept` needs a fact about trees and an invariant over the calls. The fact: a
host g is answered by the first of its candidates that catches the request, and a
call shifts the index paths of other routes. `Corresponds` is a map from
the candidates after a call to those before it that is onto, keeps their order and
keeps what they answer with; `SameAnswers` says that then g is answered alike. There is
such a map when a route that does not match g is deleted (`DeleteSame`, at the top or
in a subroute), hence when one is put first (`PutSame`: deleting it again gives the tree
before), and a tree that differs in `@id`s alone answers alike (`AlikeSame`).

The invariant, `WorkInv`, makes these apply. The calls left of a job are about its own
hosts (`WorkCall`). A PATCH or a DELETE by path still finds at its path what its job
read there, as long as no other client wrote (`Fits`): such a DELETE always comes
next, and PATCHes come alone and move nothing. crenel's `@id` of a host
stands on routes of that host only (`TrueNodes`), without which a DELETE by `@id`
could take away a route of another host: `StepWork` therefore shows, for each call,
that the routes remain true, that the calls left still fit, and that the routes are
as they were or `Untouched` for all other hosts.

### `EdgeFiles`

Here the difficulty is in the operators rather than in the steps: a config is a
sequence of blocks, or three tables, and a driver reads all of it, renders part
of it again and leaves the rest. `EdgeFilesProofs` first says what each operator
does to one block or one router, and then what that means for a request.

`IInv` is what the steps need: `TypeOK`; `FileLoads` (a Traefik config that
crenel or the operator wrote always loads, so a restart never leaves the daemon
down, and what runs is a config); `PlannedFrom` and `InFlight` (until its end an
invocation's file is what `Written` makes of the config it found, and its change
the `Plan` of what it read there); `VerifiedMeans` and `RolledBackMeans` (what a
report says of file, change and daemon); `OneRouterAnswer` (the routers the API
reader holds are those of one config that ran meanwhile). No property of the run
is inductive by itself: each compares the file, or the daemon, with a config that
only `before` or `seen` still names.

* `EnforcedClosed`: a config that is read as enforced is `Closed`, a condition on
  single blocks, and `Answering`, the choice of the daemon among them, then
  finds only denies. A tree is closed whatever order its files are loaded in.
* `OthersAreKept`: `ApplyShape` says that a written nginx file is the unmanaged
  blocks in their order, then the rendered ones, then the deny; `NginxKeeps`
  follows the blocks of a host from one file to the other, of which the first one
  answers (`FirstBlockAnswers`). A Traefik write is `Over` and `Without` on
  tables, and `TraefikKeeps` looks up a host's routers and services by name.
* `CompensationRestores` adds what the second write makes of the first, for the
  host itself: an exposed host is taken out again, an unexposed one is rendered
  from the snapshot, which `Plain` makes equal to what was there.
* `ImportOnlyAdopts`: an nginx adoption only changes markers. A Traefik one
  re-keys routers one after the other (`Visited`, a recursive function); that an
  orderly config has at most one to re-key for a host is `OneVisit`, and the
  service moves with it because no other router names it.
* `VerifiedIsTrue` goes from the probe (`Converged`) to the answers of the
  daemon; `Solitary` is what makes the two speak of the same block or router.
* `NothingGoesUnread`: services may come from a later config than the routers.
  A router that was enabled throughout is then either resolved or declared.

The recursive functions `Visited` and `Unmanaged` are handled as `Hop` is: that
they exist (`RecursionExists`) and what they return (`VisitsGood`,
`UnmanagedKeeps`) is proved by taking a least counterexample.

### `Audit`

A report is made of many reads. `AuditInv` says what they add up to:
`QuietReads`, that what was read so far is the world as it is, if no change fell
into the reading, and `QuietReport`, that a report into which none fell is the
report of such reads (`Faithful`). The settings are part of the reads, so that a
report is an operator on one value. `NeverGreenUnread` follows at once.

`OpenHostsFlagged` is then about the operators: a host that really is open to
the internet, by the routing of requests along a chain, is found by the audit,
which goes by names, marks and links. There is one lemma for each way in: what a
tunnel publishes (`TunnelJudged`, by `RecoveredByFile`, which settles when the file
is read for its names), what a port serves (`PortJudged`), and what a record names:
crenel's own (`OwnNameSeen`), anybody's for a service declared internal
(`InternalNameSeen`, where the finding is the one of that check). `PublicIsSeen`
puts them together: the host counts as public, or it is flagged already. `RouteMet`
says that a request that gets in met a route of its own name or of a pattern.
`OpenByName` says that no edge of its own gates the host, `NotTakenGated` that no
edge lends it a gate or a mesh grant. What remains is a route whose auth is
taken to be downstream: it is an unresolved chain (`UnresolvedIsFlagged`), which
is flagged as such, and a relaying pattern does not excuse it (`PatternRelay`).

`TeardownIsQuiet` is about audits that changes do fall into. `CalmReads` is what
reads must satisfy to raise no critical finding (`CalmNoAlarm`, one case for each
kind of finding), and `TeardownInv` keeps it while the unexpose goes on. Its
point is a pair of orders: names are taken down before routes, so that what is
announced is routed (`CalmRecord`, with the list of steps still to do: a route
goes only when no public name is on it), and an edge is read before a zone, so
that what was read of an edge is no less than what it still routes (`CalmRead`)
when the zone is read.

### `Writers`

`WritersInv` adds three parts to the properties of `Writers`. `Holding`: whoever
is past `dispatch` holds the lock, so with one lock file there is at most one.
`Opened`: the host it works on is not counted as finished. `Kept`: while the
file is truncated, every finished host is in the buffer of the process that
truncated it; without this, `AppliedStays` would not survive the write.

`RegistryImplemented` is the refinement. Its mapping reads the routes of a
truncated file out of the buffer of the process that truncated it, so that read,
truncate and write together are one `SetRoute`, at the write; `InHand` says that
a process is inside the call only while it applies or rolls back.
`StepMoves` says what a step of one process does to the mapped state,
`RoutedAlone` and `OpenAlone` that under the lock no other process shows in it,
`MappedStep` turns both into a step of `Registry`, and `WorkImplements` and
`DispatchImplements` go through the actions. A kill is a `Close`, or a `Tear`
when it comes between truncate and write.

`ConfirmedApplied` is about servers among any other processes. `McpInv` says of
each one where it stands: `IdStands`, that up to its plan the confirmed legs are
still the changes of the request and pass the guard, unless it was raced;
`AsConfirmed`, that from then on its plan is what was confirmed and no leg outside
it is done or undone. A step of another process leaves the server `Aside`
(`StartAside`, `WorkAside`): it touches nothing of the server's own, and if it
touches the file or the record the server is about to plan for, `raced` says so. A
step of its own transaction stays `Within` the plan.

### Only model-checked

`Terminates`, `ResumeConverges` and `LockReleased`: liveness is out of the
prover's reach. `HealthyIsClean`: it is about the worlds that a run calls
healthy, and an assumption strong enough to prove it would be the property
itself. Of `CaddyEdge`, the properties that say what the data plane does after a
whole job:

* `ExposeServes` and `RenameNeverDark`: crenel inserts by host and zone and does not
  look at what stands in front. For every route of the tree both are false: behind a
  wildcard site with a further matcher an exposed host is served for some requests
  only, and another client's deny of every host, put first, hides what is
  inserted below it. The runs have the routes with which they hold.
* `FullLoadKeeps` and `ImportChangesNothing`: they are stated of the routes an
  operator is likely to have. For every route of the tree they are false as they
  stand: a deny that also carries an auth handler and a further matcher is no
  exposure for `fullLoadSafe`, and a route below an owned route of another host
  inherits its mark without getting an `@id`. Neither is in the runs' routes.

What might be proved next is listed in the last section.

## 5. Not modelled

* NetBird: the driver is a stub that refuses every mutation.
* Transports, settings and origins files, flag parsing, wiring, the terminal
  interface, `serve`, redaction: input, output and presentation. Their failures
  are the failing calls of the other modules.
* Caddy: the in-site (wildcard) form of persist and the Caddyfile reader, which
  edit text by position, and nesting deeper than one subroute.
* nginx and Traefik: the scanning of text, YAML and JSON, and the generator
  header in a single nginx file.
* DNS: residency targets, several records per name, dnscontrol's whole-zone
  guards, pagination.
* Writer lock: locked verbs other than expose and unexpose, MCP's rename and its
  read tools.
* `Converge`: a wedged admin API. `rollback` skips the compensator of such an edge
  and reports it; `RollbackStep` has no branch of its own for that, since a
  compensator that fails without effect leaves the same state and the same report.
* `CaddyEdge`: the gate and address that `PlanRename` copies from the old route. A
  renamed host is put up without a gate, whatever the old one had, and no rename
  is refused for a gate that cannot be rendered. The plan with its gate is in
  `Engine`; no property of `CaddyEdge` looks at the gate of a renamed host.
* Audit: wording, aggregation and the ages of evidence.
* The write of a file is never recovered after a kill inside `os.WriteFile`: no
  code does so. `Registry` has the step `Tear` for it, `AppliedStays` leaves a
  torn file out, and `EdgeFiles` lets the daemon come back from it.

## 6. What is left

1. The drivers as refinements: `EdgeDrivers` as the view the engine has of
   `CaddyEdge` and `EdgeFiles`, shown to be implemented by them.
2. The DNS drivers in a module of their own, with several records per name and
   dnscontrol's whole-zone push.
3. `AtomicExposure`: the abstract transaction (down, up, or failed with the
   suspects named), implemented by `Engine` when no fault taints a target.
4. On `CaddyEdge`: which routes of an operator `ExposeServes` and `RenameNeverDark`
   need, as an assumption of their own, and a proof of both under it.
