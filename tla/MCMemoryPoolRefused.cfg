SPECIFICATION Spec
CONSTANTS
    Threads = {a, b, c}
    NumBuffers = 1
    NewBuffers = 2
    FailLimit = 1
    Regions = {r1, r2, r3, r4}
    None = None
PROPERTIES
    RefusedOnlyWhenFull
CHECK_DEADLOCK FALSE
