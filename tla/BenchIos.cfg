CONSTANTS
    SelfTests = {"t1", "t2"}
    Benchmarks = {"b1", "b2"}
    Nobody = "nobody"
    Phases <- SmallPhases
    Seeding <- Trials
    MaxReports = 3
    Users <- OneDeed
    Launches = 2
    Looks = 2
SPECIFICATION FairSpec
INVARIANTS
    TypeOK
    SpinnersTrue
    Undisturbed
    FailsOnlyExcused
    ReportKept
    NewReport
PROPERTIES
    ScriptEnds
