CONSTANTS
    User = {u1, u2}
    Pat = {t1, t2}
    Proc = {p1, p2}
    NoOne = NoOne
    Person = {a1, a2}
    Cookie = {s1}
    Bearer = {b1}
    Nobody = Nobody
    Address = {d1}
    Invite = {u1, u2}
    Passage = {c1}
    Visitor = {p1, p2}
    Password = own
    MagicLink = own
    Passkey = own
    Google = own
    Social = conn
    Oidc = conn
    Nothing = Nothing
    Object = {o1, o2, o3}
    Editor = {p1, p2}
    NoObject = NoObject
SPECIFICATION Spec
SYMMETRY Interchangeable
CHECK_DEADLOCK FALSE
INVARIANTS
    TokensFollowRole
    WithdrawnTokenUnlisted
    ErasureFinal
    SupersededInviteDead
    LogoServed
    NoOrphans
PROPERTIES
    SequentialChangesKeepOwner
    GateHeld
