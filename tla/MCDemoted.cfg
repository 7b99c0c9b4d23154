CONSTANTS
    Token = {t1}
    Proc = {p1}
    NoToken = NoToken
    TTL = 1
    MaxTime = 0
    Guest = {g1}
    Operator = {p1}
SPECIFICATION IASpec
INVARIANT DemotedLosesAccess
