CONSTANTS
    Keys = {a, b}
    Clients = {c1}
    Limits <- OneEntry
    ExpiredCap = 1
    MaxClock = 1
SPECIFICATION Spec
PROPERTIES
    EvictsOnlyExcess
