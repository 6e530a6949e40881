SPECIFICATION Spec
CONSTANTS
    Callers = {a, b}
    MaxThreads = 4
    Initial = 2
    Users = {a, b}
    Setters = {a, b}
    Settings = {3, 4}
    Forkers = {}
    Gang = FALSE
    Twins <- MCTwins
    MaxCalls = 2
    Nobody = Nobody
    Null = Null
    Busy = Busy
    Exit = Exit
INVARIANTS
    PoolCoversCount
CHECK_DEADLOCK FALSE
