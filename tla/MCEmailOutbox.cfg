CONSTANTS
    Mail = {m1, m2, m3}
    NoTenant = {m3}
    Unrenderable = {}
    Worker = {w1, w2}
    BatchSize = 2
    MaxShift = 2
    MaxFaults = 1
SPECIFICATION FairSpec
CHECK_DEADLOCK FALSE
INVARIANTS
    DuplicatesExplained
    SettledIsTrue
PROPERTY
    Drains
