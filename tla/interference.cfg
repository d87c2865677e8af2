\* Routes and records of every owner, while other tools edit edges and zones.
SPECIFICATION Spec
CONSTANTS
    front = front   home = home   lan = lan   cf = cf
    app = app   blog = blog   own = own   alien = alien
    NoService = NoService   NoEdge = NoEdge   NoRoute = NoRoute   NoValue = NoValue
    Values = {own, alien}
    WirePos <- Position
    Scope <- Scopes
    Target <- OwnTarget
    Hosts = {app}
    Edges = {front, home}
    Providers = {lan, cf}
    Fronts <- ChainFronts
    Downstream <- ChainDown
    DownstreamAddress = {front}
    DownstreamTLS = {}
    InternalScope = {}
    Covers <- CoverAll
    EdgeKind <- CaddyTraefik
    Probed = {home}
    AuthCapable = {home}
    Generated = {}
    DnsKind <- SplitDnscontrol
    Rollback = TRUE
    ForceUnknown = FALSE
    AllowUnverified = FALSE
    Yes = FALSE
    Ops <- BothAuth
    MaxOps = 1
    FaultKinds = {"outofband", "silent", "stale", "restart"}
    MaxFaults = 2
    InitWorlds <- MixedWorlds
INVARIANTS
    OthersUntouched
PROPERTIES
    VerifiedExposeIsEndToEnd
    VerifiedRemovalIsGone
CHECK_DEADLOCK FALSE
