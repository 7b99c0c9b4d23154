CONSTANTS
    Token = {t1, t2}
    Client = {c1}
    Proc = {p1, p2}
    NoToken = NoToken
    NoClient = NoClient
    RefreshTTL = 1
    Retention = 0
    MaxTime = 1
SPECIFICATION FairSpec
CHECK_DEADLOCK FALSE
PROPERTY RequestsFinish
