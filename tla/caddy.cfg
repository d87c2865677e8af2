CONSTANTS
    a = a
    b = b
    c = c
    z = z
    y = y
    Hosts = {a, b, c}
    ZoneOf <- McZoneOf
    Nodes <- McNodes
    MaxRoutes = 2
    Inserted <- McInserted
    Shapes <- McShapes
    Gates = {"none", "endpoint", "snippet"}
    Durable = TRUE
    Layer4 = TRUE
    Troubles = 1
SPECIFICATION Spec
INVARIANTS
    EnforcedIsClosed
    ExposeServes
    SweepClears
    RenameNeverDark
    ImportChangesNothing
    FullLoadKeeps
PROPERTIES
    OthersUnaffected
CHECK_DEADLOCK FALSE
