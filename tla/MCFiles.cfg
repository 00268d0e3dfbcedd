SPECIFICATION AllSpec
CONSTANTS
    a = a
    b = b
    c = c
    d = d
    a1 = a1
    b1 = b1
    c1 = c1
    c2 = c2
    d1 = d1
    lock = lock
    w1 = w1
    w2 = w2
    r1 = r1
    Lock = lock
    Procs = {a, b, c, d}
    Operators = {d}
    Crashers = {a, b}
    Remote = {}
    Texts = {a1, b1, c1, c2, d1}
    Writer <- WriterOf
    MaxDepth = 4
    MaxEvents = 2
    MaxReboots = 2
    MaxTroubles = 1
    Ports = {1, 2}
    EnvPids = {11, 12}
    Invocations = {1, 2}
    MaxEnvs = 2
    MaxBirths = 2
    ReceiptLimit = 1
    MaxUnheard = 1
    Connects <- TwoServices
    Selected <- OneClient
    Artifacts <- Served
    Plans <- SomePlans
    MaxServings = 1
    MaxWrites = 1
    MaxHitches = 1
    Readers = {r1}
    Spellings = {"Key", "key"}
    Values = {"v1"}
    MaxStamps = 2
    Savers = {w1, w2}
    MaxSnags = 1
INVARIANTS
    TurnsAreTrue
    ChoiceIsSafe
    ChainIsSafe
PROPERTIES
    LockIsSafe
    CredentialsAreKept
CHECK_DEADLOCK FALSE
