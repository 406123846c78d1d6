CONSTANTS
    Keys = {"name", "profile:name", "profile:age"}
    Values = {"old", "new"}
    Views = {"root", "profile"}
    Root = "root"
    Full <- Prefixed
    Subs = {"hook", "observer", "listener", "atom"}
    SubView <- Views0
    SubKey <- Keys0
    SubKind <- Kinds0
    Calls = {"c1", "c2", "c3", "c4"}
    Plans <- SmallPlans
    Sweepers <- WithAndWithout
SPECIFICATION FairSpec
INVARIANTS
    TypeOK
    NativeWhileNeeded
    BurstScheduled
    NoChangeLost
PROPERTIES
    NoCallWhenOff
    Scoped
    AsyncClearClears
    MirrorsStore
