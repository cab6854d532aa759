SPECIFICATION Spec
CONSTANTS
    Emails = {e1}
    Links = {l1, l2}
    Codes = {c1, c2}
    Requests = {r1, r2}
    None = None
    LinkTTL = 1
    RateWindow = 1
    RateLimit = 2
    StaleAge = 1
    MaxAttempts = 1
    MaxTime = 1
    MaxMisses = 3
    MayAbort = TRUE
SYMMETRY Symmetry
CHECK_DEADLOCK FALSE
INVARIANTS
    LockedButForRaces
