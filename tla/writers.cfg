\* Two command-line invocations with one settings file and an MCP server that is
\* used between them, under failing calls and kills.
SPECIFICATION ApartSpec
CONSTANTS
    alice = alice   bob = bob   agent = agent
    app = app   blog = blog   main = main   Nobody = Nobody
    Paths = {main}
    LockPath <- OneLock
    Writers = {alice, bob, agent}
    Mcp = {agent}
    Hosts = {app, blog}
    Ops <- Guarded
    MaxOps = 3
    MaxFaults = 1
INVARIANTS
    AppliedStays
    ConfirmedIsApplied
PROPERTIES
    LockReleased
    ImplementsRegistry
CHECK_DEADLOCK FALSE
