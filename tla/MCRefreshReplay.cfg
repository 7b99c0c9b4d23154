CONSTANTS
    Token = {t1, t2, t3}
    Client = {c1}
    Proc = {p1, p2}
    NoToken = NoToken
    NoClient = NoClient
    RefreshTTL = 1
    Retention = 0
    MaxTime = 0
SPECIFICATION Spec
CHECK_DEADLOCK FALSE
SYMMETRY Interchangeable
INVARIANT ReplayedFamilyDead
