\* Reconcile and apply over two edges and two providers, from many live states.
SPECIFICATION Spec
CONSTANTS
    front = front   home = home   lan = lan   cf = cf
    app = app   blog = blog   star = star   own = own   alien = alien
    NoService = NoService   NoEdge = NoEdge   NoRoute = NoRoute   NoValue = NoValue
    Values = {own, alien}
    WirePos <- Position
    Scope <- Scopes
    Target <- OwnTarget
    Hosts = {app, blog, star}
    Star = star
    Edges = {front, home}
    Providers = {lan, cf}
    Fronts <- BothServeBlog
    Downstream <- ChainDown
    DownstreamAddress = {front}
    DownstreamTLS = {}
    InternalScope = {blog}
    Covers <- CoverAll
    EdgeKind <- CaddyTraefik
    Probed = {}
    AuthCapable = {front, home}
    TcpCapable = {front, home}
    Generated = {}
    ForceUnknown = FALSE
    DnsKind <- SplitCloudflare
    ReadOnly = FALSE
    Runs <- AllRuns
    MaxRuns = 1
    FaultKinds = {"err", "outofband"}
    MaxFaults = 1
    InitWorlds <- Worlds
INVARIANTS
    ConvergedStaysConverged
    NoUngatedCopy
    OthersKept
    NothingGoesDark
    NamesLast
    FailedRunRestores
PROPERTIES
    VerifiedEdgesAgree
CHECK_DEADLOCK FALSE
