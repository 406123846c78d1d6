CONSTANTS
    Keys = {a, b}
    Clients = {c1, c2, c3}
    Limits <- SmallLimits
    ExpiredCap = 1
    MaxClock = 2
SPECIFICATION Spec
SYMMETRY Symmetry
INVARIANTS
    TypeOK
    SweepFits
PROPERTIES
    ClosedForGood
    LiveKeysStay
