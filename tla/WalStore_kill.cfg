CONSTANTS
    Keys = {a, b}
    Clients = {c1}
    BatchShapes <- MixedBatches
    Doomable = {a}
    Durability = "relaxed"
    CompactMin = 1
    CrashKinds = {"kill"}
    Faults = {}
    ReopenAfter = {"crash", "close"}
    MaxHist = 4
    MaxCrashes = 1
SPECIFICATION Spec
INVARIANTS
    TypeOK
    FlushDurable
    BatchAtomic
    LogMatchesMap
PROPERTIES
    CleanCloseKeeps
    ImplementsDurable
CHECK_DEADLOCK FALSE
