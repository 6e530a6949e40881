SPECIFICATION Spec
CONSTANTS
    Callers = {a, b, c}
    MaxThreads = 3
    Initial = 3
    Users = {a, b}
    Setters = {c}
    Settings = {2}
    Forkers = {b}
    Gang = FALSE
    Twins <- MCTwins
    MaxCalls = 1
    Nobody = Nobody
    Null = Null
    Busy = Busy
    Exit = Exit
INVARIANTS
    TypeOK
    JobAlive
    NoLostWakeup
    BufferKept
PROPERTIES
    RunsJobsOnce
CHECK_DEADLOCK FALSE
