CONSTANTS
    Clients = {c1, c2}
    GroupLen = 2
    MaxAppended = 3
SPECIFICATION FairSpec
INVARIANTS
    NoLostWakeup
PROPERTIES
    RecordsWritten
    FlushAnswered
    CloseJoins
