CONSTANTS
    Keys = {a}
    Clients = {c1, c2}
    BatchShapes <- SetBatches
    Doomable = {}
    Durability = "relaxed"
    CompactMin = 1
    CrashKinds = {}
    Faults = {"persist"}
    ReopenAfter = {}
    MaxHist = 3
    MaxCrashes = 0
SPECIFICATION FairSpec
INVARIANTS
    CloseDrains
PROPERTIES
    ClosedIsFinal
    FlushAnswered
    CloseReturns
