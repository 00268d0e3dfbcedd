SPECIFICATION AllSpec
CONSTANTS
    t1 = t1
    t2 = t2
    v1 = v1
    v2 = v2
    e1 = e1
    e2 = e2
    a = a
    b = b
    Terminals = {t1, t2}
    MaxWorkers = 2
    MaxControls = 2
    MaxReplays = 1
    Clients = {v1, v2}
    Nameless = {}
    Shapes = {1, 2}
    MaxViewers = 2
    MaxTyped = 2
    MaxReshapes = 1
    MaxWireFaults = 1
    PaneWorkers = {e1, e2}
    PaneIds = {1, 2}
    PaneWords = {"idle", "working"}
    MaxWords = 1
    MaxMeddles = 1
    MaxPaneTroubles = 1
    Owners = {e1, e2}
    Agents = {a, b}
    GatewayPorts = {1, 2}
    GatewayPids = {1, 2}
    MaxLifetimes = 2
    MaxLaunches = 3
    MaxMoves = 1
    MaxFaults = 1
    Kinds = {"esc", "c"}
    Widths = {1, 2}
    MaxWidth = 1
    Retained = 2
    MaxOps = 4
    MaxConnections = 2
INVARIANTS
    PaneIsTrue
PROPERTIES
    WorkersAreHeld
    KeysAtSize
    PanesAreTheirs
    GatewaysAreKept
SYMMETRY Symmetry
CHECK_DEADLOCK FALSE
