CONSTANTS
    Checkouts = TRUE
    MaxHeads = 2
    MaxFailures = 0
    MaxOthers = 0
SPECIFICATION WatchSpec
INVARIANTS QuietIsTold
CHECK_DEADLOCK FALSE
