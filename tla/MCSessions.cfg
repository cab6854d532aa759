SPECIFICATION Spec
CONSTANTS
    Users = {u1}
    Jti = {j1, j2, j3}
    Requests = {r1, r2, r3}
    None = None
    AccessTTL = 1
    RefreshTTL = 1
    MaxTime = 1
    MaxChanges = 1
    MayAbort = TRUE
SYMMETRY Symmetry
CHECK_DEADLOCK FALSE
INVARIANTS
    TypeOK
    RotatedOnce
    OneLivePerLine
    SweptUnlessMoving
    OldSessionsEnd
