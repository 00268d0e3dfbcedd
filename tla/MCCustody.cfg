SPECIFICATION AllSpec
CONSTANTS
    p1 = p1
    p2 = p2
    r1 = r1
    r2 = r2
    k1 = k1
    pre = pre
    oth = oth
    w1 = w1
    w2 = w2
    a = a
    b = b
    c = c
    d = d
    a1 = a1
    b1 = b1
    c1 = c1
    c2 = c2
    d1 = d1
    lock = lock
    Starts = {p1, p2}
    Requests = {r1, r2}
    Callers = {r1, r2, "teardown", "continuation"}
    Hosts = {"pty", "pipe", "group"}
    Kids = {k1}
    Predecessor = pre
    Others = {oth}
    Platforms = {"linux", "win32"}
    Evidence = {"birth", "pid", "malformed"}
    MaxCrashes = 1
    Writers = {w1, w2}
    RowIds = {"p"}
    MaxRevision = 2
    MaxBlots = 1
    MaxSlips = 1
    Lock = lock
    Procs = {a, b, c, d}
    Operators = {d}
    Crashers = {a, b}
    Remote = {}
    Texts = {a1, b1, c1, c2, d1}
    Writer <- WriterOf
    MaxDepth = 4
INVARIANTS
    CustodyIsTrue
    TeardownIsTrue
    TakeoverIsSafe
PROPERTIES
    StopsAreRecorded
    EndsAreLearned
    RecordIsKept
    LocksAreBroken
CHECK_DEADLOCK FALSE
