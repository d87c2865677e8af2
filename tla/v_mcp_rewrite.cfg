\* A command-line invocation next to an MCP server.
SPECIFICATION Spec
CONSTANTS
    alice = alice   bob = bob   agent = agent
    app = app   blog = blog   main = main   Nobody = Nobody
    Paths = {main}
    LockPath <- OneLock
    Writers = {alice, agent}
    Mcp = {agent}
    Hosts = {app, blog}
    Ops <- Switches
    MaxOps = 4
    MaxFaults = 0
INVARIANTS
    NoInterleavedRewrite
CHECK_DEADLOCK FALSE
