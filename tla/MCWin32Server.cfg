SPECIFICATION FairSpec
CONSTANTS
    Callers = {a, b}
    MaxThreads = 3
    Initial = 2
    Loaded = {TRUE, FALSE}
    Cygwin = TRUE
    Setters = {a}
    Settings = {0, 4}
    Stoppers = {b}
    Gang = TRUE
    MaxCalls = 2
    Nobody = Nobody
INVARIANTS
    TypeOK
    NoLostSignal
    JobAlive
    PoolCoversCount
PROPERTIES
    RunsJobsOnce
    Completion
CHECK_DEADLOCK FALSE
