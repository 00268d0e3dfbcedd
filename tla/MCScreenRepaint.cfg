SPECIFICATION Spec
CONSTANTS
    Kinds = {"esc", "c"}
    Widths = {1, 2}
    MaxWidth = 1
    Retained = 2
    MaxOps = 4
    MaxConnections = 1
INVARIANT
    RepaintMakesTheScreenReal
CHECK_DEADLOCK FALSE
