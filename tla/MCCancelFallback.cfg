SPECIFICATION Spec
CONSTANTS
    Modulus = 8
    Threads = {t1}
    Cancellers = {c1}
    TLS = TRUE
    Builds = {FALSE}
    MaxOps = 3
    MaxAge = 3
    NoToken = NoToken
INVARIANTS
    NoStrayCancel
CHECK_DEADLOCK FALSE
