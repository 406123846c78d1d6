CONSTANTS
    Keys = {a}
    Clients = {c1, c2}
    Limits <- OneEntry
    ExpiredCap = 1
    MaxClock = 2
SPECIFICATION FairSpec
PROPERTIES
    CloseReturns
