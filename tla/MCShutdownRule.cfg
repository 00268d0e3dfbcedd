\* The teardown of one child in a group.
SPECIFICATION ShutdownSpec
CONSTANTS
    Starts = {p1}
    Requests = {}
    Callers = {"teardown", "continuation"}
    Hosts = {"group"}
INVARIANTS
    NothingOutlivesTheEnvironment
CHECK_DEADLOCK FALSE
