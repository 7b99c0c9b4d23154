CONSTANTS
    Token = {t1, t2}
    Proc = {p1, p2}
    NoToken = NoToken
    TTL = 1
    MaxTime = 1
    Guest = {g1}
    Operator = {p1, p2}
SPECIFICATION IASpec
SYMMETRY Interchangeable
INVARIANT
    RedeemedOnce
PROPERTIES
    ResetWithdraws
    LastAdminKept
