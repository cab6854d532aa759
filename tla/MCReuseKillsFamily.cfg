SPECIFICATION Spec
CONSTANTS
    Users = {u1}
    Jti = {j1, j2, j3}
    Requests = {r1, r2}
    None = None
    AccessTTL = 1
    RefreshTTL = 1
    MaxTime = 1
    MaxChanges = 0
    MayAbort = FALSE
SYMMETRY Symmetry
CHECK_DEADLOCK FALSE
INVARIANTS
    ReuseKillsFamily
