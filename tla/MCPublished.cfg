SPECIFICATION AllSpec
CONSTANTS
    s1 = s1
    s2 = s2
    b1 = b1
    b2 = b2
    r1 = r1
    none = none
    Bodies = {b1, b2}
    Requests = {r1}
    NoRequest = none
    MaxOps = 5
    MaxHandEdits = 1
    MaxFaults = 2
    Targets = {s1, s2}
    MaxMoves = 2
    MaxEdits = 1
    MaxStrays = 2
    Envs = {"a", "b"}
    BatchLimit = 2
    MaxEvents = 2
    MaxSwaps = 1
    MaxHitches = 1
INVARIANTS
    StoreIsTrue
    RequestsAreSettled
    RetirementIsTrue
    LedgerIsHonest
SYMMETRY Symmetry
CHECK_DEADLOCK FALSE
