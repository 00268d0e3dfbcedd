SPECIFICATION Spec
CONSTANTS
    Requests = {r1}
    MaxStarted = 1
    Endpoints = {"e1", "e2"}
    MaxEdits = 2
    StaleBeats = 1
    MaxBeats = 3
    Targets = {"s1"}
    MaxMoves = 2
    MaxTargetEdits = 1
    MaxStrays = 1
    Homesteads = {"d1", "d2"}
    Largest = 3
    MaxTenures = 3
    MaxMishaps = 1
    Checkouts = FALSE
    MaxHeads = 2
    MaxFailures = 1
    MaxOthers = 1
    SweepFolders = {"f1"}
    SweepHeads = {"h1", "h2"}
    MaxHeadMoves = 2
    MaxConfigs = 2
    MaxMisruns = 3
    Envs = {"a"}
    BatchLimit = 2
    MaxEvents = 2
    MaxSwaps = 1
    MaxHitches = 2
    ClientPids = {1, 2, 3}
    ClientPid = 1
    MaxBirths = 5
    MaxRefusals = 1
    r1 = r1
PROPERTIES
    KeepsItsPromise
    LoopsServeTheirClaims
    RegistryIsKept
    StateIsTold
    RoleIsKept
    DashboardIsTrue
    SweepsAreKept
    ActivityIsShipped
    ClientRunsEnd
CHECK_DEADLOCK FALSE
