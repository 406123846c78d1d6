CONSTANTS
    Keys = {a, b}
    Clients = {c1}
    BatchShapes <- WholeBatches
    Doomable = {}
    Durability = "relaxed"
    CompactMin = 1
    CrashKinds = {"kill", "power"}
    Faults = {}
    ReopenAfter = {"crash", "close"}
    MaxHist = 4
    MaxCrashes = 1
SPECIFICATION Spec
SYMMETRY Symmetry
INVARIANTS
    BatchAtomic
CHECK_DEADLOCK FALSE
