CONSTANTS
    Keys = {a, b}
    Clients = {c1, c2}
    BatchShapes <- WholeBatches
    Doomable = {}
    Durability = "strict"
    CompactMin = 1
    CrashKinds = {"power"}
    Faults = {"write", "sync", "persist", "truncate"}
    ReopenAfter = {"crash"}
    MaxHist = 3
    MaxCrashes = 1
SPECIFICATION Spec
SYMMETRY Symmetry
INVARIANTS
    FlushDurable
    BatchAtomic
CHECK_DEADLOCK FALSE
