SPECIFICATION FairSpec
CONSTANTS
    a = a
    b = b
    c = c
    d = d
    Threads = {a, b, c, d}
    MaxSections = 2
    MaxCalls = 1
    MaxThreads = 2
    Level3 = {a, b, c}
    Plain = {c, d}
    Team <- Teams
    Loader = a
    Adaptive = FALSE
    Setters = {c}
    Settings = {0, 1, 3}
    Forkers = {c}
    Careful = TRUE
    Regions = {1, 2, 3, 4, 5, 6, 7, 8, 9, 10, 11, 12, 13, 14, 15}
INVARIANTS
    TypeOK
    NoSharedBuffer
    SetsSuffice
PROPERTIES
    RunsJobsOnce
    CallsReturn
CHECK_DEADLOCK FALSE
