CONSTANTS
    Token = {t1, t2, t3}
    Proc = {p1, p2, p3}
    NoToken = NoToken
    TTL = 1
    MaxTime = 2
SPECIFICATION Spec
SYMMETRY Interchangeable
PROPERTY ClosedByFirstAdmin
