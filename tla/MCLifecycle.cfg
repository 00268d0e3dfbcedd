SPECIFICATION SmallSpec
CONSTANTS
    r1 = r1
    r2 = r2
    auto = auto
    Requests = {r1, r2}
    Automatics = {auto}
    Actions = {"start", "restart", "stop", "kill", "delete", "release"}
    LastDaemon = 2
    MaxEdits = 1
    MaxFaults = 2
    NoOne = NoOne
INVARIANT
    LifecycleIsSafe
PROPERTY
    RequestsAreAnswered
CHECK_DEADLOCK FALSE
