\* A rename whose new name a DNS provider covers, nothing going wrong.
SPECIFICATION Spec
CONSTANTS
    front = front   home = home   lan = lan   cf = cf
    app = app   blog = blog   own = own   alien = alien
    NoService = NoService   NoEdge = NoEdge   NoRoute = NoRoute   NoValue = NoValue
    Values = {own, alien}
    WirePos <- Position
    Scope <- Scopes
    Target <- OwnTarget
    Hosts = {app, blog}
    Edges = {home}
    Providers = {lan}
    Fronts <- AllFronts
    Downstream <- NoDown
    DownstreamAddress = {}
    DownstreamTLS = {}
    InternalScope = {}
    Covers <- CoverAll
    EdgeKind <- CaddyCaddy
    Probed = {}
    AuthCapable = {home}
    Generated = {}
    DnsKind <- SplitCloudflare
    Rollback = TRUE
    ForceUnknown = FALSE
    AllowUnverified = FALSE
    Yes = FALSE
    Ops <- RenameOnly
    MaxOps = 1
    FaultKinds = {}
    MaxFaults = 0
    InitWorlds <- OwnWorlds
INVARIANTS
    RenameLands
CHECK_DEADLOCK FALSE
