SPECIFICATION FairSpec
CONSTANTS
    Callers = {a, b}
    MaxThreads = 3
    Initial = 2
    Users = {a, b}
    Setters = {a}
    Settings = {3}
    Forkers = {b}
    Gang = TRUE
    Twins <- MCTwins
    MaxCalls = 2
    Nobody = Nobody
    Null = Null
    Busy = Busy
    Exit = Exit
INVARIANTS
    PoolShape
    PoolCoversCount
PROPERTIES
    Completion
CHECK_DEADLOCK FALSE
