SPECIFICATION Spec
CONSTANTS
    Modulus = 4
    Threads = {t1, t2}
    Cancellers = {c1, c2}
    TLS = FALSE
    Builds = {TRUE, FALSE}
    MaxOps = 3
    MaxAge = 1
    NoToken = NoToken
SYMMETRY Symmetry
INVARIANTS
    TypeOK
    NoStrayCancelAtomic
    RequestHonoured
PROPERTIES
    CancelSticky
CHECK_DEADLOCK FALSE
