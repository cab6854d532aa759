SPECIFICATION Spec
CONSTANTS
    Users = {u1, u2}
    Ids = {p1, p2, p3}
    Bases = {a}
    MaxSlugAttempts = 2
    Requests = {r1, r2, r3}
    None = None
SYMMETRY Symmetry
CHECK_DEADLOCK FALSE
INVARIANTS
    TypeOK
    WantedExist
    StraysOnlyAfterReuse
