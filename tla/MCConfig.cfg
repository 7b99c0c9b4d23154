CONSTANTS
    Proc = {p1, p2}
    MaxKid = 3
    MaxTime = 3
    Interval = 2
    Overlap = 1
    Sunset = 3
    Cancellable = 1
    HardDelete = 3
    Patience = 1
    Columns <- TwoColumns
    Rotator = {p1, p2}
    MaxWrites = 2
SPECIFICATION ConfigSpec
SYMMETRY Interchangeable
CHECK_DEADLOCK FALSE
INVARIANTS
    ActiveKeyAvailable
    JWKSThroughSunset
    ResumePoint
    CutoverComplete
PROPERTY
    CancelledTenantSurvives
