------------------------------ MODULE BenchIos ------------------------------
(***************************************************************************)
(* scripts/bench-ios.mjs over the example app: it launches the app with    *)
(* the argument that starts the benchmark, copies the files of the example *)
(* store until they hold a report it has not seen, and so on for each      *)
(* launch.  The app writes, compacts and is tapped on meanwhile.           *)
(***************************************************************************)
EXTENDS ExampleApp

CONSTANTS
    Launches,  \* --launches
    Looks      \* how often --timeout lets waitForReport look

ASSUME BenchIosAssumption == Launches \in Nat \ {0} /\ Looks \in Nat \ {0}

VARIABLES
    spc,       \* where main is
    simulator, \* the target: a simulator or a device
    copied,    \* the report in the copy of the .snap file
    previous,  \* previousRunId
    looks,     \* how often waitForReport has looked
    fresh,     \* history: each launch so far has begun a process
    collected  \* reports, each with what it had to differ from, whether its copy is torn, fresh

scriptVars == <<spc, simulator, copied, previous, looks, fresh, collected>>
vars == <<appVars, scriptVars>>

\* What a process keeps in memory.
processVars == <<up, mode, ui, runVars, benchVars, selfVars, mem, buffer>>

Init ==
    /\ AppInit
    /\ spc = "begin" /\ simulator \in BOOLEAN
    /\ copied = 0 /\ previous = 0 /\ looks = 0 /\ fresh = TRUE /\ collected = <<>>

\* Before the script begins somebody may have opened the app, to profile a case or to use it.
OpenByHand ==
    /\ spc = "begin" /\ ~up
    /\ \E how \in {"plain", "profile"} : Started(how)
    /\ UNCHANGED <<launch, fileVars, made, user, announced, scriptVars>>

Begin ==
    /\ spc = "begin" /\ spc' = "previous"
    /\ UNCHANGED <<appVars, simulator, copied, previous, looks, fresh, collected>>

(***************************************************************************)
(* pullStore copies the two files one after the other; dump_value replays  *)
(* the copies.                                                             *)
(***************************************************************************)
CopySnap ==
    /\ spc \in {"previous", "wait"}
    /\ copied' = snap
    /\ spc' = IF spc = "previous" THEN "previousWal" ELSE "waitWal"
    /\ UNCHANGED <<appVars, simulator, previous, looks, fresh, collected>>

\* What readReport finds in its two copies: nothing when a tool fails.
ReadReport == {0, Replayed(copied, wal)}

ReadPrevious ==
    /\ spc = "previousWal"
    /\ previous' \in ReadReport
    /\ spc' = "terminate"
    /\ UNCHANGED <<appVars, simulator, copied, looks, fresh, collected>>

\* Mutant: one launch too many.
OneMoreLaunch == launch <= Launches

MoreLaunches == launch < Launches

\* simctl terminate, before each launch and at the end: whether it fails is not looked at.  On
\* a device nothing happens yet.
Terminate ==
    /\ spc = "terminate" /\ spc' = IF MoreLaunches THEN "launch" ELSE "done"
    /\ \/ simulator /\ Stopped
       \/ UNCHANGED processVars
    /\ UNCHANGED <<launch, fileVars, made, user, announced, simulator, copied, previous, looks,
                   fresh, collected>>

\* launch: a process that is there is ended first on a device (--terminate-existing), and on a
\* simulator only comes to the front.
Launch ==
    /\ spc = "launch" /\ spc' = "wait"
    /\ launch' = launch + 1
    /\ IF simulator /\ up THEN UNCHANGED processVars ELSE Started("autorun")
    /\ fresh' = (fresh /\ ~(simulator /\ up)) /\ looks' = 0
    /\ UNCHANGED <<fileVars, made, user, announced, simulator, copied, previous, collected>>

\* The tool that launches it fails, and main with it.
LaunchFails ==
    /\ spc = "launch" /\ spc' = "failed"
    /\ UNCHANGED <<appVars, simulator, copied, previous, looks, fresh, collected>>

\* Mutant: any report will do.
AnyReport(got) == got # 0

\* A report with another id than the last one seen.
NewerReport(got) == got # 0 /\ got # previous

Collected(got) ==
    /\ collected' = Append(collected, [report |-> got, since |-> previous,
                                       torn |-> copied # snap, fresh |-> fresh])
    /\ previous' = got
    /\ spc' = "terminate"
    /\ UNCHANGED looks

\* Mutant: the time is not looked at.
LookForever ==
    /\ spc = "waitWal"
    /\ \E got \in ReadReport :
          IF NewerReport(got) THEN Collected(got)
          ELSE spc' = "wait" /\ UNCHANGED <<looks, collected, previous>>
    /\ UNCHANGED <<appVars, simulator, copied, fresh>>

\* waitForReport: it looks until there is a new report, or no time left.
Look ==
    /\ spc = "waitWal"
    /\ \E got \in ReadReport :
          IF NewerReport(got) THEN Collected(got)
          ELSE /\ looks' = looks + 1
               /\ spc' = IF looks + 1 < Looks THEN "wait" ELSE "failed"
               /\ UNCHANGED <<collected, previous>>
    /\ UNCHANGED <<appVars, simulator, copied, fresh>>

Script == CopySnap \/ ReadPrevious \/ Terminate \/ Launch \/ LaunchFails \/ Look

Ended == spc \in {"done", "failed"} /\ UNCHANGED vars

Next ==
    \/ OpenByHand \/ Begin \/ Script \/ Ended
    \/ AppNext /\ UNCHANGED scriptVars

Spec == Init /\ [][Next]_vars

(***************************************************************************)
(* The script is one program that nothing stops, and the tools it runs are *)
(* taken to return; the app need not get on.                               *)
(***************************************************************************)
FairSpec == Spec /\ WF_vars(Script)

-----------------------------------------------------------------------------
Reports == 0..MaxReports
TestPCs == {"unused", "async", "listen", "ttl", "observe", "reduxGet", "reduxRemove",
            "reduxGone", "evict", "return", "benchmark", "ended"}
BenchPCs == {"unused", "frame", "first", "drainFirst", "second", "drainSecond", "compare",
             "summary", "flush", "ended"}
Data == [by : Benchmarks \cup {Nobody}, phase : 0..Len(Phases)]

TypeOK ==
    /\ up \in BOOLEAN /\ mode \in {"plain", "autorun", "profile"}
    /\ ui \in [selfRun : Nat, selfRunning : BOOLEAN, benchRun : Nat, benchRunning : BOOLEAN,
               failed : BOOLEAN, report : Reports]
    /\ test \in [SelfTests -> [pc : TestPCs, run : Nat, auto : BOOLEAN, failed : BOOLEAN,
                               excused : BOOLEAN, awaits : Benchmarks \cup {Nobody}]]
    /\ bench \in [Benchmarks -> [pc : BenchPCs, run : Nat, phase : 1..Len(Phases),
                                 first : {"scc", "mmkv"}]]
    /\ profiler \in {"off", "frame", "over"}
    /\ open \in BOOLEAN /\ scc \in Data /\ mmkv \in Data
    /\ ttl \in SelfTests \cup {Nobody} /\ redux \in BOOLEAN
    /\ mem \in Reports /\ buffer \in Reports /\ wal \in Reports /\ snap \in Reports
    /\ launch \in 0..Launches /\ made \in Seq(0..Launches) /\ Len(made) \in Reports
    /\ user \in SUBSET Deeds /\ announced \in Reports
    /\ spc \in {"begin", "previous", "previousWal", "terminate", "launch", "wait", "waitWal",
                "done", "failed"}
    /\ simulator \in BOOLEAN /\ copied \in Reports /\ previous \in Reports /\ looks \in 0..Looks
    /\ fresh \in BOOLEAN
    /\ collected \in Seq([report : Reports, since : Reports, torn : BOOLEAN, fresh : BOOLEAN])

(***************************************************************************)
(* The screen shows a self-test running exactly while the newest one is,   *)
(* and a benchmark while the newest one is; after a refresh it may show    *)
(* one that nobody is going to take back, until the next is started.       *)
(***************************************************************************)
SpinnersTrue ==
    up /\ mode # "profile" =>
        /\ ui.selfRunning <=> \E t \in InTest : test[t].run = ui.selfRun
        /\ (\E b \in InBench : bench[b].run = ui.benchRun) => ui.benchRunning
        /\ ui.benchRunning => \/ \E b \in InBench : bench[b].run = ui.benchRun
                              \/ \A b \in Benchmarks : bench[b].run # ui.benchRun

(***************************************************************************)
(* However many benchmarks are started, one that measures finds the stores *)
(* open and with its own data, SCC and MMKV alike: the registry refuses    *)
(* to recreate bench_scc under it.                                         *)
(***************************************************************************)
Undisturbed ==
    \A b \in Measuring :
        /\ open /\ scc.by = b /\ mmkv.by = b
        /\ bench[b].pc \in {"first", "compare"} => scc = mmkv

(***************************************************************************)
(* A check of the self-test fails only when a timer was late, or another   *)
(* self-test was under way.                                                *)
(***************************************************************************)
FailsOnlyExcused == \A t \in SelfTests : test[t].failed => test[t].excused

(***************************************************************************)
(* A report that was announced survives the process: what replay finds in  *)
(* the files is that report or a newer one.                                *)
(***************************************************************************)
ReportKept == announced <= Replayed(snap, wal)

(***************************************************************************)
(* "a new benchmark report" (bench-ios.mjs): each report the script        *)
(* collects is newer than the last it saw, unless the app compacted        *)
(* between its two copies.  It was made since the launch it is collected   *)
(* for, or since the one before but after the script had last looked;      *)
(* unless the copies of the time before were torn, or a process outlived a *)
(* launch, and a flush of it another.                                      *)
(***************************************************************************)
NewReport ==
    \A i \in 1..Len(collected) :
        LET c == collected[i]
        IN ~c.torn => /\ c.report > c.since
                      /\ \/ made[c.report] \in {i - 1, i}
                         \/ i > 1 /\ collected[i - 1].torn
                         \/ ~c.fresh

(***************************************************************************)
(* main ends, with a summary or with an error, whatever the app does.      *)
(***************************************************************************)
ScriptEnds == spc # "begin" ~> spc \in {"done", "failed"}
=============================================================================
