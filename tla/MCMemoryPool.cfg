SPECIFICATION FairSpec
CONSTANTS
    Threads = {a, b, c}
    NumBuffers = 1
    NewBuffers = 2
    FailLimit = 1
    Regions = {r1, r2, r3}
    None = None
INVARIANTS
    TypeOK
    NoSlotLost
    EveryRegionRegistered
PROPERTIES
    ImplementsBufferPool
    AllocEnds
CHECK_DEADLOCK FALSE
