SPECIFICATION Spec
CONSTANTS
    Emails = {e1}
    Links = {l1, l2, l3}
    Codes = {c1, c2}
    Requests = {r1, r2}
    None = None
    LinkTTL = 1
    RateWindow = 1
    RateLimit = 1
    StaleAge = 1
    MaxAttempts = 1
    MaxTime = 3
    MaxMisses = 0
    MayAbort = TRUE
SYMMETRY Symmetry
CHECK_DEADLOCK FALSE
INVARIANTS
    TypeOK
    RedeemedOnce
    SupersededIsDead
    TwoUnusedOnlyIfRacing
    PruneSparesRecent
    RateBounded
