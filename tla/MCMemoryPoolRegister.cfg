SPECIFICATION Spec
CONSTANTS
    Threads = {a, b}
    NumBuffers = 1
    NewBuffers = 1
    FailLimit = 1
    Regions = {r1, r2, r3, r4}
    None = None
INVARIANTS
    RegisterFits
CHECK_DEADLOCK FALSE
