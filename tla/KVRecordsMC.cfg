CONSTANTS
    Keys = {k1, k2}
    MaxLen = 3
    MaxValue = 1
SPECIFICATION Spec
INVARIANTS
    ReplayIsLoop
    FuzzySnapshotConverges
    BatchCommits
    HookTrue
CHECK_DEADLOCK FALSE
