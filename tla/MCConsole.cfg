SPECIFICATION Spec
CONSTANTS
    MaxChunks = 6
    FlushAt = 2
    MaxPending = 3
    MaxFaces = 3
    MaxUnread = 1
    MaxConfirmations = 3
    Listed = {"a", "b"}
    MaxTroubles = 2
    Clients = {"a"}
    Nameless = {}
    Shapes = {1}
    MaxViewers = 2
    MaxTyped = 3
    MaxReshapes = 1
    MaxWireFaults = 1
    Startables = {"a", "b"}
    MaxOpenings = 2
    MaxTurns = 1
    MaxStarts = 1
    MaxSilences = 1
    PaneWorkers = {"w1"}
    PaneIds = {1}
    PaneWords = {"idle", "working"}
    MaxWords = 2
    MaxMeddles = 2
    MaxPaneTroubles = 2
    Kinds = {"esc", "c"}
    Widths = {1, 2}
    MaxWidth = 1
    Retained = 2
    MaxOps = 3
    MaxConnections = 2
    BeatNames = {"a", "b"}
    BeatUrls = {"u"}
    BeatStale = 2
    BeatRewalk = 2
    MaxTogether = 2
    MaxRewrites = 1
    MaxTurnarounds = 1
PROPERTIES
    OutputIsCarried
    ScreenIsRead
    OperatorIsServed
    TypedIsSent
    StartsAreServed
    PanesAreLookedAfter
    ExitIsTold
    HealthIsTrue
CHECK_DEADLOCK FALSE
