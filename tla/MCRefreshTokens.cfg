CONSTANTS
    Token = {t1, t2, t3}
    Client = {c1, c2}
    Proc = {p1, p2}
    NoToken = NoToken
    NoClient = NoClient
    RefreshTTL = 1
    Retention = 0
    MaxTime = 1
SPECIFICATION Spec
CHECK_DEADLOCK FALSE
SYMMETRY Interchangeable
INVARIANTS
    TypeOK
    SingleLive
    OneSuccessor
    ReplayKillsSuccessor
    KilledUnlessRaced
    HeldByOwner
PROPERTY
    ImplementsFamilies
