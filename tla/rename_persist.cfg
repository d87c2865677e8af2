\* Renames and persists over two independent edges, a durable Caddy and an nginx,
\* under faults and restarts.
SPECIFICATION Spec
CONSTANTS
    front = front   home = home   lan = lan   cf = cf
    app = app   blog = blog   own = own   alien = alien
    NoService = NoService   NoEdge = NoEdge   NoRoute = NoRoute   NoValue = NoValue
    Values = {own, alien}
    WirePos <- Position
    Scope <- Scopes
    Target <- OwnTarget
    Hosts = {app, blog}
    Edges = {front, home}
    Providers = {}
    Fronts <- AllFronts
    Downstream <- NoDown
    DownstreamAddress = {}
    DownstreamTLS = {}
    InternalScope = {}
    Covers <- CoverNone
    EdgeKind <- DurableNginx
    Probed = {}
    AuthCapable = {home}
    Generated = {}
    DnsKind <- SplitCloudflare
    Rollback = TRUE
    ForceUnknown = FALSE
    AllowUnverified = TRUE
    Yes = FALSE
    Ops <- RenamesAndPersists
    MaxOps = 2
    FaultKinds = {"err", "landed", "partial", "silent", "crash", "persist", "restart", "wedge"}
    MaxFaults = 2
    InitWorlds <- BothWorlds
INVARIANTS
    CleanRunLands
    DurableOrWarned
CHECK_DEADLOCK FALSE
