----------------------------- MODULE ExampleApp -----------------------------
(***************************************************************************)
(* The example app (example/): its self-test and its benchmark, two        *)
(* asynchronous programs over the same stores that a user, a refresh of    *)
(* the code and a launch argument start, and that one JS thread interleaves*)
(* at their awaits.  An action is what runs between two of them.           *)
(*                                                                         *)
(* Of the store `example' the model keeps the report of the last benchmark *)
(* (and the keys self-tests can trip over), in memory and in the files; of *)
(* the store `bench_scc' and of MMKV, whose data they hold.                *)
(***************************************************************************)
EXTENDS Naturals, Sequences, FiniteSets

CONSTANTS
    SelfTests, Benchmarks,  \* names for the runs of one process: how many there may be
    Nobody,
    Phases,     \* the kinds of measurement of a benchmark, in their order
    Seeding,    \* the phases that prepareStores begins: a trial's first, and two diagnostics
    MaxReports, \* bound on the reports ever made
    Users       \* what the user and the packager may do in a behaviour, each thing once

Deeds   == {"test", "benchmark", "refresh"}
Diagnostics == {"wrapper", "durable", "reopen", "reopenLarge"}
Kinds   == {"throughput", "latency"} \cup Diagnostics

ASSUME ExampleAppAssumption ==
    /\ SelfTests # {} /\ Nobody \notin SelfTests \cup Benchmarks
    /\ SelfTests \cap Benchmarks = {}
    /\ Phases \in Seq(Kinds) /\ Phases # <<>> /\ MaxReports \in Nat
    /\ Seeding \subseteq 1..Len(Phases) /\ 1 \in Seeding
    /\ \A i \in 2..Len(Phases) :
          /\ Phases[i] \in Diagnostics =>
                (i \in Seeding <=> Phases[i] \in {"wrapper", "reopenLarge"})
          /\ Phases[i] \notin Diagnostics => i \in Seeding \/ Phases[i - 1] = Phases[i]
    /\ Users \subseteq SUBSET Deeds

VARIABLES
    up,       \* the process runs
    mode,     \* its launch arguments: autorun, profile, or plain
    ui,       \* App's refs and state
    test,     \* its runs of executeSelfTest
    bench,    \* its runs of executeBenchmark
    profiler, \* runProfile
    open,     \* the registry has bench_scc
    scc, mmkv,\* whose data the benchmark stores hold, and the last phase that wrote it
    ttl,      \* the self-test that last wrote ttl_key
    redux,    \* redux_contract:state is there
    mem,      \* the last report, in the map of the example store; 0 is none
    buffer,   \* a report logged and not yet written to the WAL
    wal, snap,\* the last report in each file
    launch,   \* how many times the script has launched the app
    made,     \* made[r]: the launch since which report r was made
    user,     \* what the user may still do
    announced \* history: the newest report for which SCC_BENCH_DONE was logged

runVars   == <<test, bench, profiler>>
benchVars == <<open, scc, mmkv>>
selfVars  == <<ttl, redux>>
fileVars  == <<wal, snap>>
storeVars == <<mem, buffer, fileVars>>
appVars   == <<launch, up, mode, ui, runVars, benchVars, selfVars, storeVars, made, user,
               announced>>

Unused   == [pc |-> "unused", run |-> 0, auto |-> FALSE, failed |-> FALSE, excused |-> FALSE,
             awaits |-> Nobody]
Unopened == [pc |-> "unused", run |-> 0, phase |-> 1, first |-> "scc"]
Empty    == [by |-> Nobody, phase |-> 0]

\* The self-tests and benchmarks that are under way.
InTest == {t \in SelfTests : test[t].pc \notin {"unused", "benchmark", "ended"}}
Spare(runs) == {r \in DOMAIN runs : runs[r].pc = "unused"}
InBench == {b \in Benchmarks : bench[b].pc \notin {"unused", "ended"}}
Measuring == {b \in InBench : bench[b].pc \notin {"frame", "summary", "flush"}}

\* Replay: the WAL has the newer report.
Replayed(s, w) == IF w # 0 THEN w ELSE s

\* A run of JavaScript is not interrupted while a benchmark stores and flushes its report.
JsFree == up /\ \A b \in Benchmarks : bench[b].pc # "flush"

-----------------------------------------------------------------------------
(***************************************************************************)
(* executeSelfTest, up to its first await: the token and the state of the  *)
(* screen, then the launch counter and the synchronous checks, which read  *)
(* what they have just written.  The self-tests under way with it are      *)
(* excused: their checks share keys.                                       *)
(***************************************************************************)
Began(run, auto) ==
    LET next == CHOOSE t \in Spare(test) : TRUE
    IN [t \in SelfTests |->
           IF t = next THEN [Unused EXCEPT !.pc = "async", !.run = run, !.auto = auto,
                                           !.excused = (InTest # {})]
           ELSE [test[t] EXCEPT !.excused = @ \/ t \in InTest]]

ScreenTesting(screen, run) == [screen EXCEPT !.selfRun = run, !.selfRunning = TRUE]

\* useState, useRef and getLastBenchmark, at the first render.
FirstScreen(report) ==
    [selfRun |-> 0, selfRunning |-> TRUE, benchRun |-> 0, benchRunning |-> FALSE,
     failed |-> FALSE, report |-> report]

\* A new process: App mounts.  Its effect starts the self-test or, asked to profile a case
\* there is, prepares the stores and leaves bench_scc open.
Started(how) ==
    LET report == Replayed(snap, wal)
        first  == CHOOSE t \in SelfTests : TRUE
        fresh  == [t \in SelfTests |-> Unused]
    IN /\ up' = TRUE /\ mode' = how
       /\ bench' = [b \in Benchmarks |-> Unopened]
       /\ IF how = "profile"
          THEN /\ ui' = FirstScreen(report) /\ test' = fresh
               /\ open' \in BOOLEAN /\ profiler' = IF open' THEN "frame" ELSE "off"
          ELSE /\ ui' = ScreenTesting(FirstScreen(report), 1)
               /\ test' = [fresh EXCEPT ![first] =
                              [Unused EXCEPT !.pc = "async", !.run = 1,
                                             !.auto = (how = "autorun")]]
               /\ open' = FALSE /\ profiler' = "off"
       /\ scc' = Empty /\ mmkv' = Empty
       /\ ttl' = Nobody /\ redux' = FALSE
       /\ mem' = report /\ buffer' = 0

\* Killed: memory goes, files stay.
Stopped ==
    /\ up' = FALSE /\ mode' = "plain" /\ ui' = FirstScreen(0)
    /\ test' = [t \in SelfTests |-> Unused] /\ bench' = [b \in Benchmarks |-> Unopened]
    /\ profiler' = "off" /\ open' = FALSE /\ scc' = Empty /\ mmkv' = Empty
    /\ ttl' = Nobody /\ redux' = FALSE /\ mem' = 0 /\ buffer' = 0

\* The button of the self-test, disabled while one is running.
TapTest ==
    /\ JsFree /\ "test" \in user /\ ~ui.selfRunning
    /\ Spare(test) # {} /\ test' = Began(ui.selfRun + 1, FALSE)
    /\ ui' = ScreenTesting(ui, ui.selfRun + 1)
    /\ user' = user \ {"test"}
    /\ UNCHANGED <<up, mode, bench, profiler, benchVars, selfVars, storeVars, launch, made,
                   announced>>

\* A refresh of the code runs the cleanup of the effect, then the effect; state stays.
Refresh ==
    /\ JsFree /\ "refresh" \in user /\ mode # "profile"
    /\ Spare(test) # {} /\ test' = Began(ui.selfRun + 2, mode = "autorun")
    /\ ui' = [ScreenTesting(ui, ui.selfRun + 2) EXCEPT !.benchRun = @ + 1]
    /\ user' = user \ {"refresh"}
    /\ UNCHANGED <<up, mode, bench, profiler, benchVars, selfVars, storeVars, launch, made,
                   announced>>

-----------------------------------------------------------------------------
(***************************************************************************)
(* runSelfTest, await by await.                                            *)
(***************************************************************************)
Reached(t, from, to, bad) ==
    /\ JsFree /\ test[t].pc = from
    /\ test' = [test EXCEPT ![t].pc = to, ![t].failed = @ \/ bad]

restOfTest == <<up, mode, ui, bench, profiler, benchVars, storeVars, launch, made, user, announced>>

\* The asynchronous round trips, of keys that every self-test gives the same values, and
\* then waitForCrossHandleChange.
AsyncChecks(t) == Reached(t, "async", "listen", FALSE) /\ UNCHANGED <<restOfTest, selfVars>>

\* Its event or its timer comes first: a timer that does excuses the failure.  ttl_key is
\* set and read back.
Timed(t, from, to, late) ==
    /\ JsFree /\ test[t].pc = from
    /\ test' = [test EXCEPT ![t].pc = to, ![t].failed = @ \/ late, ![t].excused = @ \/ late]

CrossHandle(t) ==
    /\ \E late \in BOOLEAN : Timed(t, "listen", "ttl", late)
    /\ ttl' = t
    /\ UNCHANGED <<restOfTest, redux>>

\* 600 ms later the key has expired, unless somebody else has set it since.  The vault, the
\* transaction, the namespace and the prefix are checked between two awaits.
TtlOver(t) ==
    /\ \E alive \in (IF ttl = t THEN {FALSE} ELSE BOOLEAN) : Reached(t, "ttl", "observe", alive)
    /\ UNCHANGED <<restOfTest, selfVars>>

\* waitForSelectedChange, then setItem of the adapter.
Observed(t) ==
    /\ \E late \in BOOLEAN : Timed(t, "observe", "reduxGet", late)
    /\ redux' = TRUE
    /\ UNCHANGED <<restOfTest, ttl>>

ReduxGet(t) == Reached(t, "reduxGet", "reduxRemove", ~redux) /\ UNCHANGED <<restOfTest, selfVars>>

\* Mutant: a remove that removes nothing.
ReduxKeeps(t) ==
    /\ Reached(t, "reduxRemove", "reduxGone", FALSE)
    /\ UNCHANGED <<restOfTest, selfVars>>

ReduxRemove(t) ==
    /\ Reached(t, "reduxRemove", "reduxGone", FALSE)
    /\ redux' = FALSE
    /\ UNCHANGED <<restOfTest, ttl>>

\* The store in memory is filled here, and looked at 400 ms later.
ReduxGone(t) == Reached(t, "reduxGone", "evict", redux) /\ UNCHANGED <<restOfTest, selfVars>>

Evicted(t) ==
    /\ \E late \in BOOLEAN : Timed(t, "evict", "return", late)
    /\ UNCHANGED <<restOfTest, selfVars>>

-----------------------------------------------------------------------------
(***************************************************************************)
(* The rest of executeSelfTest: results of an older run are dropped, and   *)
(* a run that was asked to starts the benchmark and awaits it.             *)
(***************************************************************************)
ScreenBenching(screen) ==
    [screen EXCEPT !.benchRun = @ + 1, !.benchRunning = TRUE, !.failed = FALSE]

Framed(b, run) == [bench EXCEPT ![b] = [Unopened EXCEPT !.pc = "frame", !.run = run]]

\* Mutant: any run that ends clears the spinner.
TestReturnsLoudly(t) ==
    /\ JsFree /\ test[t].pc = "return"
    /\ test' = [test EXCEPT ![t].pc = "ended"]
    /\ ui' = [ui EXCEPT !.selfRunning = FALSE]
    /\ UNCHANGED <<up, mode, bench, profiler, benchVars, selfVars, storeVars, launch, made, user,
                   announced>>

TestReturns(t) ==
    /\ JsFree /\ test[t].pc = "return"
    /\ LET current == test[t].run = ui.selfRun
           still == IF current THEN [ui EXCEPT !.selfRunning = FALSE] ELSE ui
       IN IF current /\ test[t].auto /\ ~test[t].failed
          THEN LET b == CHOOSE b \in Spare(bench) : TRUE
               IN /\ Spare(bench) # {}
                  /\ test' = [test EXCEPT ![t].pc = "benchmark", ![t].awaits = b]
                  /\ bench' = Framed(b, ui.benchRun + 1)
                  /\ ui' = ScreenBenching(still)
          ELSE /\ test' = [test EXCEPT ![t].pc = "ended"]
               /\ ui' = still /\ UNCHANGED bench
    /\ UNCHANGED <<up, mode, profiler, benchVars, selfVars, storeVars, launch, made, user,
                   announced>>

\* The benchmark it awaited is over.
AutorunOver(t) ==
    /\ JsFree /\ test[t].pc = "benchmark" /\ bench[test[t].awaits].pc = "ended"
    /\ test' = [test EXCEPT ![t].pc = "ended"]
    /\ ui' = IF test[t].run = ui.selfRun THEN [ui EXCEPT !.selfRunning = FALSE] ELSE ui
    /\ UNCHANGED <<up, mode, bench, profiler, benchVars, selfVars, storeVars, launch, made, user,
                   announced>>

\* The button of the benchmark, disabled while the screen shows one running.
TapBenchmark ==
    /\ JsFree /\ "benchmark" \in user /\ ~ui.benchRunning
    /\ Spare(bench) # {}
    /\ bench' = Framed(CHOOSE b \in Spare(bench) : TRUE, ui.benchRun + 1)
    /\ ui' = ScreenBenching(ui)
    /\ user' = user \ {"benchmark"}
    /\ UNCHANGED <<up, mode, test, profiler, benchVars, selfVars, storeVars, launch, made,
                   announced>>

-----------------------------------------------------------------------------
(***************************************************************************)
(* runBenchmark.  prepareStores closes bench_scc, recreates it, clears     *)
(* MMKV, seeds both and compares them, without an await; the registry      *)
(* refuses to recreate a store that is open.                               *)
(***************************************************************************)
Seeded(b) == scc' = [by |-> b, phase |-> 0] /\ mmkv' = [by |-> b, phase |-> 0]

Prepared(b) == open' = TRUE /\ Seeded(b)

\* A case, of throughput or latency, tosses which library goes first.
Coin(i) == IF Phases[i] \in Diagnostics THEN {"scc"} ELSE {"scc", "mmkv"}

Over(b) == [bench EXCEPT ![b].pc = "ended"]

\* catch and finally of executeBenchmark.
ScreenOver(b, failed, report) ==
    IF bench[b].run = ui.benchRun
    THEN [ui EXCEPT !.benchRunning = FALSE, !.failed = failed, !.report = report]
    ELSE ui

\* Mutant: the store is opened inside the try, whose finally closes it by its name.
RefusedAndClosed(b) ==
    /\ JsFree /\ bench[b].pc = "frame" /\ open
    /\ bench' = Over(b) /\ ui' = ScreenOver(b, TRUE, ui.report)
    /\ open' = FALSE
    /\ UNCHANGED <<up, mode, test, profiler, scc, mmkv, selfVars, storeVars, launch, made, user,
                   announced>>

Refused(b) ==
    /\ JsFree /\ bench[b].pc = "frame" /\ open
    /\ bench' = Over(b) /\ ui' = ScreenOver(b, TRUE, ui.report)
    /\ UNCHANGED <<up, mode, test, profiler, benchVars, selfVars, storeVars, launch, made, user,
                   announced>>

\* collectBenchmark, to the first await after prepareStores.
Collect(b) ==
    /\ JsFree /\ bench[b].pc = "frame" /\ ~open
    /\ Prepared(b)
    /\ \E lib \in Coin(1) : bench' = [bench EXCEPT ![b].pc = "first", ![b].first = lib]
    /\ UNCHANGED <<up, mode, ui, test, profiler, selfVars, storeVars, launch, made, user,
                   announced>>

\* What the stores hold after a step of a case.
Left(inScc, inMmkv) == scc' = inScc /\ mmkv' = inMmkv

\* What a measurement throws, a comparison that fails or a drain that takes too long, ends
\* the benchmark; the finally closes the store.
Throws(b, inScc, inMmkv) ==
    /\ open' = FALSE /\ Left(inScc, inMmkv)
    /\ bench' = Over(b) /\ ui' = ScreenOver(b, TRUE, ui.report)

\* On to the next phase, with the data that this one leaves unless it begins a trial.
Onward(b, inScc, inMmkv) ==
    LET next == bench[b].phase + 1
    IN IF next > Len(Phases)
       THEN /\ open' = FALSE /\ Left(inScc, inMmkv)
            /\ bench' = [bench EXCEPT ![b].pc = "summary"]
       ELSE /\ IF next \in Seeding THEN Prepared(b) ELSE open' = open /\ Left(inScc, inMmkv)
            /\ \E lib \in Coin(next) :
                  bench' = [bench EXCEPT ![b].pc = "first", ![b].phase = next, ![b].first = lib]

\* The end of a phase: a comparison, and what follows.
Concluded(b, agree, inScc, inMmkv) ==
    IF agree THEN Onward(b, inScc, inMmkv) /\ UNCHANGED ui ELSE Throws(b, inScc, inMmkv)

\* The body of a case: what it leaves depends on the case and on the data it finds, not on
\* the library.
Written(data, b) == [data EXCEPT !.phase = bench[b].phase]

SccsTurn(b) == (bench[b].first = "scc") <=> (bench[b].pc = "first")
SccAfter(b)  == IF SccsTurn(b) THEN Written(scc, b) ELSE scc
MmkvAfter(b) == IF SccsTurn(b) THEN mmkv ELSE Written(mmkv, b)

(***************************************************************************)
(* measureThroughput: one library writes, its listeners are waited for and *)
(* a frame goes by, then the other; then the checksums and the state they  *)
(* left are compared.                                                      *)
(***************************************************************************)
MeasureLib(b) ==
    /\ JsFree /\ bench[b].pc \in {"first", "second"} /\ Phases[bench[b].phase] = "throughput"
    /\ Left(SccAfter(b), MmkvAfter(b))
    /\ bench' = [bench EXCEPT ![b].pc = IF @ = "first" THEN "drainFirst" ELSE "drainSecond"]
    /\ UNCHANGED <<up, mode, ui, test, profiler, open, selfVars, storeVars, launch, made, user,
                   announced>>

\* drain, with its deadline, and a frame.
Drain(b) ==
    /\ JsFree /\ bench[b].pc \in {"drainFirst", "drainSecond"}
    /\ \/ Throws(b, scc, mmkv)
       \/ /\ bench' = [bench EXCEPT ![b].pc = IF @ = "drainFirst" THEN "second" ELSE "compare"]
          /\ UNCHANGED <<ui, benchVars>>
    /\ UNCHANGED <<up, mode, test, profiler, selfVars, storeVars, launch, made, user, announced>>

\* verifyState: the two hold the same.
Agree == open /\ scc = mmkv

Compare(b) ==
    /\ JsFree /\ bench[b].pc = "compare"
    /\ Concluded(b, Agree, scc, mmkv)
    /\ UNCHANGED <<up, mode, test, profiler, selfVars, storeVars, launch, made, user, announced>>

(***************************************************************************)
(* measureLatency: one call of one library and then of the other, each     *)
(* after an idle time, over and over; the last one's task compares.        *)
(***************************************************************************)
MeasureLatency(b) ==
    /\ JsFree /\ bench[b].pc \in {"first", "second"} /\ Phases[bench[b].phase] = "latency"
    /\ \/ /\ Left(SccAfter(b), MmkvAfter(b))
          /\ bench' = [bench EXCEPT ![b].pc = IF @ = "first" THEN "second" ELSE "first"]
          /\ UNCHANGED <<ui, open>>
       \/ /\ bench[b].pc = "second"
          /\ Concluded(b, open /\ SccAfter(b) = MmkvAfter(b), SccAfter(b), MmkvAfter(b))
    /\ UNCHANGED <<up, mode, test, profiler, selfVars, storeVars, launch, made, user, announced>>

\* runDiagnostics: reads, writes that are flushed, and reopenings that count the keys.
Diagnose(b) ==
    /\ JsFree /\ bench[b].pc = "first" /\ Phases[bench[b].phase] \in Diagnostics
    /\ Concluded(b, open /\ scc.by = b, scc, mmkv)
    /\ UNCHANGED <<up, mode, test, profiler, selfVars, storeVars, launch, made, user, announced>>

\* The report is stored, then flushed; it is announced and shown when flush returns.
Store(b) ==
    /\ JsFree /\ bench[b].pc = "summary" /\ Len(made) < MaxReports
    /\ made' = Append(made, launch)
    /\ mem' = Len(made) + 1 /\ buffer' = Len(made) + 1
    /\ bench' = [bench EXCEPT ![b].pc = "flush"]
    /\ UNCHANGED <<up, mode, ui, test, profiler, benchVars, selfVars, fileVars, launch, user,
                   announced>>

\* Mutant: the report is announced without a flush.
AnnounceSoon(b) ==
    /\ up /\ bench[b].pc = "flush"
    /\ announced' = mem
    /\ bench' = Over(b) /\ ui' = ScreenOver(b, FALSE, mem)
    /\ UNCHANGED <<up, mode, test, profiler, benchVars, selfVars, storeVars, launch, made, user>>

Announce(b) ==
    /\ up /\ bench[b].pc = "flush"
    /\ wal' = Replayed(wal, buffer) /\ buffer' = 0
    /\ announced' = mem
    /\ bench' = Over(b) /\ ui' = ScreenOver(b, FALSE, mem)
    /\ UNCHANGED <<up, mode, test, profiler, benchVars, selfVars, mem, snap, launch, made, user>>

-----------------------------------------------------------------------------
\* runProfile, after its frame: it measures one library for some seconds.
Profile ==
    /\ JsFree /\ profiler = "frame"
    /\ profiler' = "over"
    /\ UNCHANGED <<up, mode, ui, test, bench, benchVars, selfVars, storeVars, launch, made, user,
                   announced>>

\* The writer thread of the example store writes when it likes, and compacts.
Write ==
    /\ up /\ buffer # 0
    /\ wal' = buffer /\ buffer' = 0
    /\ UNCHANGED <<up, mode, ui, runVars, benchVars, selfVars, mem, snap, launch, made, user,
                   announced>>

Compact ==
    /\ up /\ wal # 0
    /\ snap' = mem /\ wal' = 0
    /\ UNCHANGED <<up, mode, ui, runVars, benchVars, selfVars, mem, buffer, launch, made, user,
                   announced>>

TestStep(t) ==
    \/ AsyncChecks(t) \/ CrossHandle(t) \/ TtlOver(t) \/ Observed(t)
    \/ ReduxGet(t) \/ ReduxRemove(t) \/ ReduxGone(t) \/ Evicted(t)
    \/ TestReturns(t) \/ AutorunOver(t)

BenchStep(b) ==
    \/ Refused(b) \/ Collect(b) \/ MeasureLib(b) \/ Drain(b) \/ Compare(b)
    \/ MeasureLatency(b) \/ Diagnose(b) \/ Store(b) \/ Announce(b)

AppInit ==
    /\ up = FALSE /\ mode = "plain" /\ ui = FirstScreen(0)
    /\ test = [t \in SelfTests |-> Unused] /\ bench = [b \in Benchmarks |-> Unopened]
    /\ profiler = "off" /\ open = FALSE /\ scc = Empty /\ mmkv = Empty
    /\ ttl = Nobody /\ redux = FALSE
    /\ mem = 0 /\ buffer = 0 /\ wal = 0 /\ snap = 0
    /\ launch = 0 /\ made = <<>> /\ user \in Users /\ announced = 0

AppNext ==
    \/ TapTest \/ TapBenchmark \/ Refresh \/ Profile \/ Write \/ Compact
    \/ \E t \in SelfTests : TestStep(t)
    \/ \E b \in Benchmarks : BenchStep(b)
=============================================================================
