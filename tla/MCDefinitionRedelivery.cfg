INIT SmallInit
NEXT SmallNext
CONSTANTS
    b1 = b1
    b2 = b2
    r1 = r1
    none = none
    Bodies <- TwoBodies
    Requests <- OneRequest
    NoRequest = none
    MaxOps = 5
    MaxHandEdits = 0
    MaxFaults = 0
INVARIANTS
    RedeliveryWritesNothing
CHECK_DEADLOCK FALSE
