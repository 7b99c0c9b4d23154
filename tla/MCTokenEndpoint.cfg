CONSTANTS
    Token = {t1, t2}
    Client = {c1, c2}
    Proc = {p1, p2}
    Code = {k1}
    NoToken = NoToken
    NoClient = NoClient
    NoCode = NoCode
    RefreshTTL = 2
    Retention = 0
    CodeTTL = 1
    MaxTime = 2
    Enduser = {c1, c2}
    Project = {j1}
    Permission = {x1, x2}
    Visit = {p1, p2}
    Absent = Absent
SPECIFICATION GrantSpec
SYMMETRY Interchangeable
CHECK_DEADLOCK FALSE
INVARIANTS
    OneFamilyPerCode
    GrantBoundToClient
    CodeWithinConsent
    ContinuationRevalidated
