\* A chain front (Caddy, TLS to its downstream) before a home edge (nginx),
\* with split-horizon and public DNS, under the faults of provider calls; the
\* operator resumes what was interrupted.
SPECIFICATION ResumingSpec
CONSTANTS
    front = front   home = home   lan = lan   cf = cf
    app = app   blog = blog   own = own   alien = alien
    NoService = NoService   NoEdge = NoEdge   NoRoute = NoRoute   NoValue = NoValue
    Values = {own, alien}
    WirePos <- Position
    Scope <- Scopes
    Target <- OwnTarget
    Hosts = {app}
    Edges = {front, home}
    Providers = {lan, cf}
    Fronts <- ChainFronts
    Downstream <- ChainDown
    DownstreamAddress = {front}
    DownstreamTLS = {front}
    InternalScope = {}
    Covers <- CoverAll
    EdgeKind <- CaddyNginx
    Probed = {home}
    AuthCapable = {home}
    Generated = {}
    DnsKind <- SplitCloudflare
    Rollback = TRUE
    ForceUnknown = FALSE
    AllowUnverified = FALSE
    Yes = TRUE
    Ops <- Narrowed
    MaxOps = 1
    FaultKinds = {"err", "landed", "silent", "stale", "wedge", "crash", "read"}
    MaxFaults = 2
    InitWorlds <- OwnWorlds
INVARIANTS
    TypeOK
    ExposureOrdered
    RollbackRestores
    CleanRunLands
    GoingPublicIsPreviewed
PROPERTIES
    Terminates
    ResumeConverges
CHECK_DEADLOCK FALSE
