\* Import on any brownfield file.
CONSTANTS
    h1 = h1
    h2 = h2
    b1 = b1
    b2 = b2
    web = web
    alt = alt
    any = any
    tls = tls
    lab = lab
    Hosts = {h1, h2}
    Backends = {b1, b2}
    Stranger = Stranger
    Nothing = Nothing
    Down = Down
    Ports <- MCPorts
    ListenPort = 80
    OtherNames = {web, alt, any, tls, lab}
    DockerNames = {lab}
    DefsElsewhere = TRUE
    Ops <- MCOps
    Origin <- MCOrigin
    StartFiles <- MCStartFiles
    Snippets <- MCPaste
    MaxEdits = 1
    MaxRuns = 2
SPECIFICATION Spec
CHECK_DEADLOCK FALSE
PROPERTY ImportTakesNothingDown
