SPECIFICATION FairSpec
CONSTANTS
    Threads = {a, b, c}
    MaxSections = 2
    Nobody = Nobody
    Unmade = Unmade
    MaxCalls = 2
INVARIANTS
    TypeOK
    NeverUnlocksFree
    LocksReady
PROPERTIES
    ImplementsSemaphore
    EntersEventually
CHECK_DEADLOCK FALSE
