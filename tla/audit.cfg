SPECIFICATION Spec
CONSTANTS
    h1 = h1  h2 = h2  star = star  x = x
    front = front  home = home  side = side
    lan1 = lan1  lan2 = lan2  cf = cf  v1 = v1  v2 = v2
    NoService = NoService  NoEdge = NoEdge  NoValue = NoValue
    NoRoute = NoRoute  NotRead = NotRead  Failed = Failed
    Hosts <- MCHosts
    Edges = {front, home, side}
    Providers = {lan1, lan2, cf}
    WirePos <- MCWirePos
    Fronts <- MCFronts
    Downstream <- MCDownstream
    DownstreamAddress = {front}
    DownstreamTLS = {}
    InternalScope = {h2}
    Scope <- MCScope
    Covers <- MCCovers
    DnsKind <- MCDnsKind
    Values = {v1, v2}
    Target <- MCTarget
    Wild = {star}
    ZoneOf <- MCZoneOf
    ManagedZone <- MCManagedZone
    AssertsAuth = {}
    Evidence <- MCEvidence
    IngressPath = {side, home}
    Healthy <- MCHealthy
    Settings <- MCSettings
    Edits <- MCEdits
    RecordEdits <- MCRecordEdits
    EdgeEdits <- MCEdgeEdits
    Files <- MCFiles
    MaxDrift = 2
INVARIANTS
    HealthyIsClean
    OpenIsFlagged
    UnreadableNeverGreen
    TeardownRaisesNoAlarm
