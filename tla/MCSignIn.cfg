CONSTANTS
    Account = {a1}
    Secret = {s1, weak}
    Weak = {weak}
    ResetToken = {r1, r2, r3}
    Handler = {h1, h2}
    Unset = Unset
    Holder = {m1}
    Link = {l1, l2, l3}
    Sender = {h1, h2}
    MaxActive = 2
    NoHolder = NoHolder
    Batch = {b1, b2}
    CodeCount = 2
    Client = {h1, h2}
    NoBatch = NoBatch
    NoCode = NoCode
    Member = {u1}
    Credential = {k1, k2}
    TotpKey = {t1, t2}
    Ceremony = {y1}
    Browser = {h1, h2}
    None = None
    Caller = {q1, q2, q3}
    Limit = 3
    Window = 2
    RateTime = 5
    Builtin = {"password"}
    Kind = {"social:google"}
    GoogleKind = "social:google"
    Slug = {"oidc:acme"}
    Domain = {d1}
    Elsewhere = Elsewhere
    Request = {h1, h2}
    NoMethod = NoMethod
SPECIFICATION Spec
SYMMETRY Interchangeable
CHECK_DEADLOCK FALSE
INVARIANTS
    OneResetWins
    LinksBounded
    CodeAcceptedOnce
    RemovedPasskeyRefused
    AdmissionBounded
    PageUsable
    ConnectionGate
PROPERTIES
    RegenerationFinal
    LastPasskeyKept
