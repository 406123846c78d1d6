--------------------------- MODULE BenchIos_proofs ---------------------------
(***************************************************************************)
(* The example app under its user, a refresh of its code and the script    *)
(* that launches it, for any number of self-tests, benchmarks, phases,     *)
(* reports and launches.                                                   *)
(***************************************************************************)
EXTENDS BenchIos, SequenceTheorems, TLAPS

TestRun  == [pc : TestPCs, run : Nat, auto : BOOLEAN, failed : BOOLEAN, excused : BOOLEAN,
             awaits : Benchmarks \cup {Nobody}]
BenchRun == [pc : BenchPCs, run : Nat, phase : 1..Len(Phases), first : {"scc", "mmkv"}]
Screen   == [selfRun : Nat, selfRunning : BOOLEAN, benchRun : Nat, benchRunning : BOOLEAN,
             failed : BOOLEAN, report : Reports]

Collection == [report : Reports, since : Reports, torn : BOOLEAN, fresh : BOOLEAN]

OutOfTest  == {"unused", "benchmark", "ended"}
OutOfBench == {"unused", "ended"}

\* The constants are numbers, and there is a phase to measure.
LEMMA Bounds == /\ Len(Phases) \in Nat /\ Len(Phases) >= 1 /\ MaxReports \in Nat
                /\ Launches \in Nat /\ Looks \in Nat /\ Looks >= 1
                /\ \A i \in 1..Len(Phases) : Phases[i] \in Kinds
BY ExampleAppAssumption, BenchIosAssumption, EmptySeq, LenProperties

\* What a process starts with is typed.
LEMMA Fresh == /\ Unused \in TestRun /\ Unopened \in BenchRun /\ Empty \in Data
               /\ \A r \in Reports : FirstScreen(r) \in Screen
BY Bounds DEF Unused, Unopened, Empty, FirstScreen, TestRun, BenchRun, Data, Screen, Reports,
   TestPCs, BenchPCs

-----------------------------------------------------------------------------
(***************************************************************************)
(* What each part of the app does to the runs of the self-test and of the  *)
(* benchmark.                                                              *)
(***************************************************************************)
\* A self-test moves itself, keeps its token, and once excused stays so.
Moved(t, r) ==
    /\ test' = [test EXCEPT ![t] = r]
    /\ r.run = test[t].run /\ r.auto = test[t].auto
    /\ r.pc # "unused" /\ test[t].pc \notin {"unused", "ended"}
    /\ test[t].pc = "benchmark" => r.pc = "ended"
    /\ test[t].excused => r.excused

\* Every step of a self-test is one of these.
LEMMA TestMoves ==
    ASSUME TypeOK, NEW t \in SelfTests, TestStep(t)
    PROVE  \E r \in TestRun : Moved(t, r)
<1> USE DEF TestPCs
<1>0. test \in [SelfTests -> TestRun] /\ test[t] \in TestRun
  BY DEF TypeOK, TestRun
<1>1. ASSUME NEW from \in TestPCs \ OutOfTest, NEW to \in TestPCs \ {"unused"}, NEW bad,
             Reached(t, from, to, bad)
      PROVE  \E r \in TestRun : Moved(t, r)
  <2> DEFINE r == [test[t] EXCEPT !.pc = to, !.failed = @ \/ bad]
  <2>1. r \in TestRun /\ test' = [test EXCEPT ![t] = r]
    BY <1>0, <1>1 DEF Reached, TestRun
  <2>2. Moved(t, r)
    BY <1>0, <1>1, <2>1 DEF Reached, Moved, OutOfTest, TestRun
  <2> QED
    BY <2>1, <2>2
<1>2. ASSUME NEW from \in TestPCs \ OutOfTest, NEW to \in TestPCs \ {"unused"}, NEW late,
             Timed(t, from, to, late)
      PROVE  \E r \in TestRun : Moved(t, r)
  <2> DEFINE r == [test[t] EXCEPT !.pc = to, !.failed = @ \/ late, !.excused = @ \/ late]
  <2>a. r \in TestRun
    BY <1>0 DEF TestRun
  <2>b. test' = [test EXCEPT ![t] = r]
    BY <1>0, <1>2 DEF Timed
  <2>1. r \in TestRun /\ test' = [test EXCEPT ![t] = r]
    BY <2>a, <2>b
  <2>c. r.run = test[t].run /\ r.auto = test[t].auto /\ r.pc = to
    BY <1>0 DEF TestRun
  <2>d. test[t].excused => r.excused
    BY <1>0 DEF TestRun
  <2> HIDE DEF r
  <2>2. Moved(t, r)
    BY <1>0, <1>2, <2>1, <2>c, <2>d DEF Timed, Moved, OutOfTest
  <2> QED
    BY <2>1, <2>2
<1>3. CASE TestReturns(t)
  <2> DEFINE b == CHOOSE b \in Spare(bench) : TRUE
             r == [test[t] EXCEPT !.pc = "benchmark", !.awaits = b]
             s == [test[t] EXCEPT !.pc = "ended"]
  <2>1. CASE test' = [test EXCEPT ![t].pc = "benchmark", ![t].awaits = b] /\ Spare(bench) # {}
    <3>1. b \in Benchmarks
      BY <2>1 DEF Spare, TypeOK
    <3> HIDE DEF b
    <3>2. r \in TestRun /\ test' = [test EXCEPT ![t] = r]
      BY <1>0, <2>1, <3>1 DEF TestRun
    <3>3. Moved(t, r)
      BY <1>0, <1>3, <3>2 DEF TestReturns, Moved, TestRun
    <3> QED
      BY <3>2, <3>3
  <2>2. CASE test' = [test EXCEPT ![t].pc = "ended"]
    <3>1. s \in TestRun /\ test' = [test EXCEPT ![t] = s]
      BY <1>0, <2>2 DEF TestRun
    <3>2. Moved(t, s)
      BY <1>0, <1>3, <3>1 DEF TestReturns, Moved, TestRun
    <3> QED
      BY <3>1, <3>2
  <2> QED
    BY <1>3, <2>1, <2>2 DEF TestReturns
<1>4. CASE AutorunOver(t)
  <2> DEFINE s == [test[t] EXCEPT !.pc = "ended"]
  <2>1. s \in TestRun /\ test' = [test EXCEPT ![t] = s]
    BY <1>0, <1>4 DEF AutorunOver, TestRun
  <2>2. Moved(t, s)
    BY <1>0, <1>4, <2>1 DEF AutorunOver, Moved, TestRun
  <2> QED
    BY <2>1, <2>2
<1>5. CASE AsyncChecks(t) \/ ReduxGet(t) \/ ReduxRemove(t) \/ ReduxGone(t)
  BY <1>1, <1>5 DEF AsyncChecks, ReduxGet, ReduxRemove, ReduxGone, OutOfTest
<1>6. CASE TtlOver(t)
  BY <1>1, <1>6 DEF TtlOver, OutOfTest
<1>7. CASE CrossHandle(t) \/ Observed(t) \/ Evicted(t)
  BY <1>2, <1>7 DEF CrossHandle, Observed, Evicted, OutOfTest
<1> QED
  BY <1>3, <1>4, <1>5, <1>6, <1>7 DEF TestStep

\* A benchmark moves itself and keeps its token; the screen hears of its end.
Advanced(b, r) ==
    /\ bench' = [bench EXCEPT ![b] = r]
    /\ r.run = bench[b].run /\ r.pc # "unused" /\ bench[b].pc \notin OutOfBench
    /\ IF r.pc = "ended"
       THEN \E failed \in BOOLEAN, report \in Reports : ui' = ScreenOver(b, failed, report)
       ELSE ui' = ui

DataTypes == open \in BOOLEAN /\ scc \in Data /\ mmkv \in Data

\* What a benchmark seeds a store with is data.
LEMMA SeedTyped == \A b \in Benchmarks : [by |-> b, phase |-> 0] \in Data
<1>1. 0 \in 0..Len(Phases)
  BY Bounds
<1> QED
  BY <1>1 DEF Data

\* Going on to the next phase moves the benchmark, and the data stays typed.
LEMMA OnwardMoves ==
    ASSUME TypeOK, NEW b \in Benchmarks, NEW inScc \in Data, NEW inMmkv \in Data,
           bench[b].pc \notin OutOfBench, ui' = ui, Onward(b, inScc, inMmkv)
    PROVE  (\E r \in BenchRun : Advanced(b, r)) /\ DataTypes'
<1> USE Bounds DEF BenchPCs
<1>0. /\ bench \in [Benchmarks -> BenchRun] /\ bench[b] \in BenchRun /\ DataTypes
      /\ bench[b].phase \in 1..Len(Phases) /\ Len(Phases) \in Nat
  BY DEF TypeOK, BenchRun, DataTypes
<1> DEFINE next == bench[b].phase + 1
<1>1. CASE next > Len(Phases)
  <2> DEFINE r == [bench[b] EXCEPT !.pc = "summary"]
  <2>1. r \in BenchRun
    BY <1>0 DEF BenchRun
  <2>2. /\ open' = FALSE /\ scc' = inScc /\ mmkv' = inMmkv
        /\ bench' = [bench EXCEPT ![b].pc = "summary"]
    BY <1>1 DEF Onward, Left
  <2>3. bench' = [bench EXCEPT ![b] = r]
    BY <1>0, <2>2
  <2>4. r.run = bench[b].run /\ r.pc = "summary"
    BY <1>0 DEF BenchRun
  <2> HIDE DEF r
  <2> QED
    BY <1>0, <2>1, <2>2, <2>3, <2>4 DEF Advanced, DataTypes
<1>2. CASE next <= Len(Phases)
  <2>1. next \in 1..Len(Phases) /\ ~(next > Len(Phases))
    BY <1>0, <1>2
  <2>2. PICK lib \in Coin(next) : bench' = [bench EXCEPT ![b].pc = "first", ![b].phase = next,
                                                         ![b].first = lib]
    BY <2>1 DEF Onward
  <2> DEFINE r == [bench[b] EXCEPT !.pc = "first", !.phase = next, !.first = lib]
  <2>3. lib \in {"scc", "mmkv"}
    BY <2>2 DEF Coin
  <2> HIDE DEF next
  <2>4. r \in BenchRun
    BY <1>0, <2>1, <2>3 DEF BenchRun
  <2>5. bench' = [bench EXCEPT ![b] = r]
    BY <1>0, <2>2
  <2>6. r.run = bench[b].run /\ r.pc = "first"
    BY <1>0 DEF BenchRun
  <2>7. (open' = open /\ scc' = inScc /\ mmkv' = inMmkv) \/ Prepared(b)
    BY <2>1 DEF Onward, Left, next
  <2>8. DataTypes'
    BY <1>0, <2>7, SeedTyped DEF DataTypes, Prepared, Seeded
  <2> HIDE DEF r
  <2> QED
    BY <2>4, <2>5, <2>6, <2>8 DEF Advanced
<1> QED
  BY <1>0, <1>1, <1>2

\* Whatever is thrown ends the benchmark and its spinner alike.
LEMMA ThrowsMoves ==
    ASSUME TypeOK, NEW b \in Benchmarks, bench[b].pc \notin OutOfBench,
           bench' = Over(b), NEW failed \in BOOLEAN, NEW report \in Reports,
           ui' = ScreenOver(b, failed, report)
    PROVE  \E r \in BenchRun : Advanced(b, r)
<1> DEFINE r == [bench[b] EXCEPT !.pc = "ended"]
<1>0. bench \in [Benchmarks -> BenchRun] /\ bench[b] \in BenchRun
  BY DEF TypeOK, BenchRun
<1>1. r \in BenchRun
  BY <1>0 DEF BenchRun, BenchPCs
<1>2. bench' = [bench EXCEPT ![b] = r]
  BY <1>0 DEF Over
<1>3. r.run = bench[b].run /\ r.pc = "ended"
  BY <1>0 DEF BenchRun
<1> HIDE DEF r
<1> QED
  BY <1>1, <1>2, <1>3 DEF Advanced

\* Every step of a benchmark is one of these.
LEMMA BenchMoves ==
    ASSUME TypeOK, NEW b \in Benchmarks, BenchStep(b)
    PROVE  (\E r \in BenchRun : Advanced(b, r)) /\ DataTypes'
<1> USE DEF OutOfBench
<1>0. /\ bench \in [Benchmarks -> BenchRun] /\ bench[b] \in BenchRun /\ DataTypes
      /\ ui.report \in Reports /\ mem \in Reports
  BY DEF TypeOK, BenchRun, DataTypes
<1>1. ASSUME NEW pc \in BenchPCs \ {"unused", "ended"}, bench[b].pc \notin OutOfBench,
             bench' = [bench EXCEPT ![b].pc = pc], ui' = ui
      PROVE  \E r \in BenchRun : Advanced(b, r)
  <2> DEFINE r == [bench[b] EXCEPT !.pc = pc]
  <2>1. r \in BenchRun
    BY <1>0 DEF BenchRun
  <2>2. bench' = [bench EXCEPT ![b] = r]
    BY <1>0, <1>1
  <2>3. r.run = bench[b].run /\ r.pc = pc
    BY <1>0 DEF BenchRun
  <2> HIDE DEF r
  <2> QED
    BY <1>1, <2>1, <2>2, <2>3 DEF Advanced
<1>2. CASE Refused(b)
  BY <1>0, <1>2, ThrowsMoves DEF Refused, benchVars, DataTypes
<1>3. CASE Collect(b)
  <2>1. PICK lib \in Coin(1) : bench' = [bench EXCEPT ![b].pc = "first", ![b].first = lib]
    BY <1>3 DEF Collect
  <2> DEFINE r == [bench[b] EXCEPT !.pc = "first", !.first = lib]
  <2>2. lib \in {"scc", "mmkv"} /\ bench[b].pc = "frame" /\ ui' = ui /\ Prepared(b)
    BY <1>3, <2>1 DEF Coin, Collect
  <2>3. r \in BenchRun
    BY <1>0, <2>2 DEF BenchRun, BenchPCs
  <2>4. bench' = [bench EXCEPT ![b] = r]
    BY <1>0, <2>1
  <2>5. r.run = bench[b].run /\ r.pc = "first"
    BY <1>0 DEF BenchRun
  <2>6. DataTypes'
    BY <2>2, SeedTyped DEF DataTypes, Prepared, Seeded
  <2> HIDE DEF r
  <2> QED
    BY <2>2, <2>3, <2>4, <2>5, <2>6 DEF Advanced
<1>a. SccAfter(b) \in Data /\ MmkvAfter(b) \in Data /\ scc \in Data /\ mmkv \in Data
  <2>1. bench[b].phase \in 0..Len(Phases)
    BY <1>0, Bounds DEF BenchRun
  <2>2. Written(scc, b) \in Data /\ Written(mmkv, b) \in Data
    BY <1>0, <2>1 DEF Written, Data, DataTypes
  <2> QED
    BY <1>0, <2>2 DEF SccAfter, MmkvAfter, DataTypes
<1>b. ASSUME NEW pc \in BenchPCs \ {"unused", "ended"}, bench[b].pc \notin OutOfBench,
             bench' = [bench EXCEPT ![b].pc = pc], ui' = ui, open' = open,
             Left(SccAfter(b), MmkvAfter(b))
      PROVE  (\E r \in BenchRun : Advanced(b, r)) /\ DataTypes'
  BY <1>0, <1>1, <1>a, <1>b DEF Left, DataTypes
<1>4. CASE MeasureLib(b)
  <2>1. /\ bench[b].pc \notin OutOfBench /\ ui' = ui /\ open' = open
        /\ \E pc \in {"drainFirst", "drainSecond"} : bench' = [bench EXCEPT ![b].pc = pc]
        /\ Left(SccAfter(b), MmkvAfter(b))
    BY <1>4 DEF MeasureLib
  <2> QED
    BY <1>b, <2>1 DEF BenchPCs
<1>5. ASSUME NEW inScc \in Data, NEW inMmkv \in Data, bench[b].pc \notin OutOfBench,
             Throws(b, inScc, inMmkv)
      PROVE  (\E r \in BenchRun : Advanced(b, r)) /\ DataTypes'
  BY <1>0, <1>5, ThrowsMoves DEF Throws, Left, DataTypes
<1>c. ASSUME NEW inScc \in Data, NEW inMmkv \in Data, NEW agree, bench[b].pc \notin OutOfBench,
             Concluded(b, agree, inScc, inMmkv)
      PROVE  (\E r \in BenchRun : Advanced(b, r)) /\ DataTypes'
  <2>1. Throws(b, inScc, inMmkv) \/ (Onward(b, inScc, inMmkv) /\ ui' = ui)
    BY <1>c DEF Concluded
  <2> QED
    BY <1>5, <1>c, <2>1, OnwardMoves
<1>6. CASE Drain(b)
  <2>1. bench[b].pc \notin OutOfBench
    BY <1>6 DEF Drain
  <2>2. CASE Throws(b, scc, mmkv)
    BY <1>5, <1>a, <2>1, <2>2
  <2>3. CASE ~Throws(b, scc, mmkv)
    <3>1. /\ \E pc \in {"second", "compare"} : bench' = [bench EXCEPT ![b].pc = pc]
          /\ ui' = ui /\ open' = open /\ scc' = scc /\ mmkv' = mmkv
      BY <1>6, <2>3 DEF Drain, benchVars
    <3> QED
      BY <1>0, <1>1, <2>1, <3>1 DEF DataTypes, BenchPCs
  <2> QED
    BY <2>2, <2>3
<1>7. CASE Compare(b) \/ Diagnose(b)
  <2>1. bench[b].pc \notin OutOfBench /\ \E agree : Concluded(b, agree, scc, mmkv)
    BY <1>7 DEF Compare, Diagnose
  <2> QED
    BY <1>a, <1>c, <2>1
<1>d. CASE MeasureLatency(b)
  <2>1. bench[b].pc \notin OutOfBench
    BY <1>d DEF MeasureLatency
  <2>2. CASE \E agree : Concluded(b, agree, SccAfter(b), MmkvAfter(b))
    BY <1>a, <1>c, <2>1, <2>2
  <2>3. CASE /\ \E pc \in {"first", "second"} : bench' = [bench EXCEPT ![b].pc = pc]
             /\ Left(SccAfter(b), MmkvAfter(b)) /\ ui' = ui /\ open' = open
    BY <1>b, <2>1, <2>3 DEF BenchPCs
  <2> QED
    BY <1>d, <2>2, <2>3 DEF MeasureLatency
<1>8. CASE Store(b)
  BY <1>0, <1>1, <1>8 DEF Store, benchVars, DataTypes, BenchPCs
<1>9. CASE Announce(b)
  BY <1>0, <1>9, ThrowsMoves DEF Announce, benchVars, DataTypes
<1> QED
  BY <1>2, <1>3, <1>4, <1>6, <1>7, <1>8, <1>9, <1>d DEF BenchStep

-----------------------------------------------------------------------------
(***************************************************************************)
(* Type correctness.                                                       *)
(***************************************************************************)
RunTypes ==
    /\ up \in BOOLEAN /\ mode \in {"plain", "autorun", "profile"} /\ ui \in Screen
    /\ test \in [SelfTests -> TestRun] /\ bench \in [Benchmarks -> BenchRun]
    /\ profiler \in {"off", "frame", "over"} /\ DataTypes
    /\ ttl \in SelfTests \cup {Nobody} /\ redux \in BOOLEAN

FileTypes ==
    /\ mem \in Reports /\ buffer \in Reports /\ wal \in Reports /\ snap \in Reports
    /\ launch \in 0..Launches /\ made \in Seq(0..Launches) /\ Len(made) \in Reports
    /\ user \in SUBSET Deeds /\ announced \in Reports

ScriptTypes ==
    /\ spc \in {"begin", "previous", "previousWal", "terminate", "launch", "wait", "waitWal",
                "done", "failed"}
    /\ simulator \in BOOLEAN /\ copied \in Reports /\ previous \in Reports /\ looks \in 0..Looks
    /\ fresh \in BOOLEAN
    /\ collected \in Seq(Collection)

\* The type invariant, by who its variables belong to.
LEMMA TypeParts == TypeOK <=> RunTypes /\ FileTypes /\ ScriptTypes
BY DEF TypeOK, RunTypes, FileTypes, ScriptTypes, Screen, TestRun, BenchRun, DataTypes, Collection

\* The script launches the app no more often than it was asked to, and looks no longer than
\* it may.
WithinBounds == /\ spc = "launch" => launch < Launches
                /\ spc \in {"wait", "waitWal"} => looks < Looks

\* A self-test begins under one of the spare names.
LEMMA Begins ==
    ASSUME RunTypes, Spare(test) # {}, NEW run \in Nat, NEW auto \in BOOLEAN
    PROVE  \E next \in SelfTests :
              /\ test[next].pc = "unused"
              /\ Began(run, auto) \in [SelfTests -> TestRun]
              /\ Began(run, auto)[next].pc = "async" /\ Began(run, auto)[next].run = run
              /\ ~Began(run, auto)[next].failed
              /\ Began(run, auto)[next].excused <=> InTest # {}
              /\ \A t \in SelfTests \ {next} :
                    /\ Began(run, auto)[t].pc = test[t].pc
                    /\ Began(run, auto)[t].run = test[t].run
                    /\ Began(run, auto)[t].failed = test[t].failed
                    /\ Began(run, auto)[t].excused <=> test[t].excused \/ t \in InTest
<1> DEFINE next == CHOOSE t \in Spare(test) : TRUE
           new == [Unused EXCEPT !.pc = "async", !.run = run, !.auto = auto,
                                 !.excused = (InTest # {})]
           old(t) == [test[t] EXCEPT !.excused = @ \/ t \in InTest]
<1>0. test \in [SelfTests -> TestRun] /\ \A t \in SelfTests : test[t] \in TestRun
  BY DEF RunTypes
<1>1. next \in SelfTests /\ test[next].pc = "unused"
  BY <1>0 DEF Spare
<1>2. Began(run, auto) = [t \in SelfTests |-> IF t = next THEN new ELSE old(t)]
  BY DEF Began
<1> HIDE DEF next
<1>3. /\ new \in TestRun /\ new.pc = "async" /\ new.run = run /\ new.failed = FALSE
      /\ new.excused = (InTest # {})
  BY DEF Unused, TestRun, TestPCs
<1>4. ASSUME NEW t \in SelfTests
      PROVE  /\ old(t) \in TestRun /\ old(t).pc = test[t].pc /\ old(t).run = test[t].run
             /\ old(t).failed = test[t].failed
             /\ old(t).excused <=> test[t].excused \/ t \in InTest
  <2>1. test[t] \in TestRun /\ test[t].excused \in BOOLEAN
    BY <1>0 DEF TestRun
  <2> QED
    BY <2>1 DEF TestRun
<1> HIDE DEF new, old
<1>5. Began(run, auto) \in [SelfTests -> TestRun]
  BY <1>2, <1>3, <1>4
<1>6. Began(run, auto)[next] = new
  BY <1>1, <1>2
<1>7. ASSUME NEW t \in SelfTests \ {next}
      PROVE  /\ Began(run, auto)[t].pc = test[t].pc
             /\ Began(run, auto)[t].run = test[t].run
             /\ Began(run, auto)[t].failed = test[t].failed
             /\ Began(run, auto)[t].excused <=> test[t].excused \/ t \in InTest
  <2>1. Began(run, auto)[t] = old(t)
    BY <1>2
  <2> QED
    BY <1>4, <2>1
<1>8. /\ Began(run, auto)[next].pc = "async" /\ Began(run, auto)[next].run = run
      /\ ~Began(run, auto)[next].failed
      /\ Began(run, auto)[next].excused <=> InTest # {}
  BY <1>3, <1>6
<1> QED
  BY <1>1, <1>5, <1>7, <1>8

\* What the app sets on its screen keeps it typed.
LEMMA Screens ==
    ASSUME NEW s \in Screen
    PROVE  /\ s.selfRun + 1 \in Nat /\ s.selfRun + 2 \in Nat /\ s.benchRun + 1 \in Nat
           /\ \A run \in Nat : ScreenTesting(s, run) \in Screen
           /\ [s EXCEPT !.selfRunning = FALSE] \in Screen
           /\ [s EXCEPT !.benchRun = @ + 1] \in Screen
           /\ ScreenBenching(s) \in Screen
<1>1. s.selfRun \in Nat /\ s.benchRun \in Nat
  BY DEF Screen
<1>2. s.selfRun + 1 \in Nat /\ s.selfRun + 2 \in Nat /\ s.benchRun + 1 \in Nat
  BY <1>1
<1>3. \A run \in Nat : ScreenTesting(s, run) \in Screen
  BY DEF ScreenTesting, Screen
<1>4. [s EXCEPT !.selfRunning = FALSE] \in Screen
  BY DEF Screen
<1>5. \A n \in Nat : [s EXCEPT !.benchRun = n] \in Screen
  BY DEF Screen
<1>6. \A n \in Nat :
         [s EXCEPT !.benchRun = n, !.benchRunning = TRUE, !.failed = FALSE] \in Screen
  BY DEF Screen
<1>7. [s EXCEPT !.benchRun = @ + 1] \in Screen
  BY <1>2, <1>5
<1>8. ScreenBenching(s) \in Screen
  BY <1>2, <1>6 DEF ScreenBenching
<1> QED
  BY <1>2, <1>3, <1>4, <1>7, <1>8

\* So does a benchmark.
LEMMA Frames ==
    ASSUME RunTypes, Spare(bench) # {}, NEW run \in Nat,
           bench' = Framed(CHOOSE b \in Spare(bench) : TRUE, run)
    PROVE  \E b \in Benchmarks, r \in BenchRun :
              /\ bench[b].pc = "unused" /\ r.pc = "frame" /\ r.run = run
              /\ bench' = [bench EXCEPT ![b] = r]
<1> DEFINE b == CHOOSE b \in Spare(bench) : TRUE
           r == [Unopened EXCEPT !.pc = "frame", !.run = run]
<1>1. b \in Benchmarks /\ bench[b].pc = "unused"
  BY DEF Spare, RunTypes
<1>2. bench' = [bench EXCEPT ![b] = r]
  BY DEF Framed
<1>3. r \in BenchRun /\ r.pc = "frame" /\ r.run = run
  <2>1. Unopened \in BenchRun
    BY Fresh
  <2> QED
    BY <2>1 DEF BenchRun, BenchPCs
<1> HIDE DEF b, r
<1> QED
  BY <1>1, <1>2, <1>3

\* A process that starts is typed, and has begun at most one self-test.
LEMMA Starts ==
    ASSUME FileTypes, NEW how \in {"plain", "autorun", "profile"}, Started(how)
    PROVE  /\ RunTypes' /\ mem' = Replayed(snap, wal) /\ mem' \in Reports /\ buffer' = 0
           /\ bench' = [b \in Benchmarks |-> Unopened]
           /\ \A t \in SelfTests : test'[t].pc \in {"unused", "async"} /\ ~test'[t].failed
           /\ up' /\ mode' = how
<1> DEFINE report == Replayed(snap, wal)
           first  == CHOOSE t \in SelfTests : TRUE
           unused == [t \in SelfTests |-> Unused]
           auto   == [Unused EXCEPT !.pc = "async", !.run = 1, !.auto = (how = "autorun")]
<1>1. report \in Reports
  BY DEF FileTypes, Replayed
<1>2. /\ auto \in TestRun /\ auto.pc = "async" /\ auto.failed = FALSE
      /\ Unused \in TestRun /\ Unused.pc = "unused" /\ Unused.failed = FALSE
  BY DEF Unused, TestRun, TestPCs
<1>3. FirstScreen(report) \in Screen /\ ScreenTesting(FirstScreen(report), 1) \in Screen
  BY <1>1 DEF FirstScreen, ScreenTesting, Screen
<1>4. /\ test' \in {unused, [unused EXCEPT ![first] = auto]}
      /\ ui' \in {FirstScreen(report), ScreenTesting(FirstScreen(report), 1)}
      /\ open' \in BOOLEAN /\ profiler' \in {"off", "frame"} /\ scc' = Empty /\ mmkv' = Empty
      /\ ttl' = Nobody /\ redux' = FALSE /\ mem' = report /\ buffer' = 0 /\ up' = TRUE
      /\ mode' = how /\ bench' = [b \in Benchmarks |-> Unopened]
  BY DEF Started
<1> HIDE DEF report, auto, first
<1>5. test' \in [SelfTests -> TestRun]
  BY <1>2, <1>4
<1>6. \A t \in SelfTests : test'[t].pc \in {"unused", "async"} /\ ~test'[t].failed
  BY <1>2, <1>4
<1>7. RunTypes'
  BY <1>3, <1>4, <1>5, Fresh DEF RunTypes, DataTypes
<1> QED
  BY <1>1, <1>4, <1>6, <1>7 DEF report

\* A process that stops leaves nothing in memory.
LEMMA Stops ==
    ASSUME Stopped
    PROVE  RunTypes' /\ mem' = 0 /\ buffer' = 0 /\ ~up'
<1>1. 0 \in Reports
  BY Bounds DEF Reports
<1> QED
  BY <1>1, Fresh DEF Stopped, RunTypes, DataTypes

\* Of the self-test only its end reaches the screen and the benchmark.
LEMMA TestTypes ==
    ASSUME TypeOK, NEW t \in SelfTests, TestStep(t)
    PROVE  RunTypes' /\ FileTypes'
<1>0. RunTypes /\ FileTypes /\ ui \in Screen /\ bench \in [Benchmarks -> BenchRun]
  BY TypeParts DEF RunTypes
<1>1. test' \in [SelfTests -> TestRun]
  <2>1. PICK r \in TestRun : Moved(t, r)
    BY TestMoves
  <2> QED
    BY <1>0, <2>1 DEF Moved, RunTypes
<1>2. ui' \in Screen /\ bench' \in [Benchmarks -> BenchRun]
  <2>1. CASE ui' = ui /\ bench' = bench
    BY <1>0, <2>1
  <2>2. [ui EXCEPT !.selfRunning = FALSE] \in Screen
    BY <1>0, Screens
  <2>3. \A s \in Screen : ScreenBenching(s) \in Screen
    BY Screens
  <2>4. CASE TestReturns(t)
    <3>1. ui.benchRun + 1 \in Nat
      BY <1>0, Screens
    <3>2. ui' \in Screen
      BY <1>0, <2>2, <2>3, <2>4 DEF TestReturns
    <3>3. \/ bench' = bench
          \/ /\ Spare(bench) # {}
             /\ bench' = Framed(CHOOSE b \in Spare(bench) : TRUE, ui.benchRun + 1)
      BY <2>4 DEF TestReturns
    <3> QED
      BY <1>0, <3>1, <3>2, <3>3, Frames
  <2>5. CASE AutorunOver(t)
    BY <1>0, <2>2, <2>5 DEF AutorunOver
  <2>6. CASE ~TestReturns(t) /\ ~AutorunOver(t)
    BY <2>1, <2>6 DEF TestStep, AsyncChecks, CrossHandle, TtlOver, Observed, ReduxGet,
       ReduxRemove, ReduxGone, Evicted, restOfTest
  <2> QED
    BY <2>4, <2>5, <2>6
<1>3. /\ up' = up /\ mode' = mode /\ profiler' = profiler /\ benchVars' = benchVars
      /\ ttl' \in {ttl, t} /\ redux' \in {redux, TRUE, FALSE}
      /\ UNCHANGED <<storeVars, launch, made, user, announced>>
  BY DEF TestStep, AsyncChecks, CrossHandle, TtlOver, Observed, ReduxGet, ReduxRemove,
     ReduxGone, Evicted, TestReturns, AutorunOver, restOfTest, selfVars
<1> QED
  BY <1>0, <1>1, <1>2, <1>3 DEF RunTypes, FileTypes, DataTypes, benchVars, storeVars, fileVars

\* A benchmark stores one report at most, and the bound leaves room for it.
LEMMA BenchTypes ==
    ASSUME TypeOK, NEW b \in Benchmarks, BenchStep(b)
    PROVE  RunTypes' /\ FileTypes'
<1>0. RunTypes /\ FileTypes /\ ui \in Screen /\ bench \in [Benchmarks -> BenchRun]
  BY TypeParts DEF RunTypes
<1>1. PICK r \in BenchRun : Advanced(b, r)
  BY BenchMoves
<1>2. DataTypes'
  BY BenchMoves
<1>3. ui' \in Screen
  <2>1. ASSUME NEW failed \in BOOLEAN, NEW report \in Reports
        PROVE  ScreenOver(b, failed, report) \in Screen
    BY <1>0 DEF ScreenOver, Screen
  <2> QED
    BY <1>0, <1>1, <2>1 DEF Advanced
<1>4. bench' \in [Benchmarks -> BenchRun]
  BY <1>0, <1>1 DEF Advanced
<1>5. /\ up' = up /\ mode' = mode /\ profiler' = profiler /\ test' = test
      /\ UNCHANGED <<selfVars, launch, user>>
  BY DEF BenchStep, Refused, Collect, MeasureLib, Drain, Compare, MeasureLatency, Diagnose,
     Store, Announce, selfVars
<1>6. RunTypes'
  BY <1>0, <1>2, <1>3, <1>4, <1>5 DEF RunTypes, selfVars
<1>7. CASE Store(b)
  <2>1. Len(made) \in Nat /\ Len(made) < MaxReports /\ launch \in 0..Launches
    BY <1>0, <1>7 DEF Store, FileTypes, Reports
  <2>2. Len(made) + 1 \in Reports
    BY <2>1, Bounds DEF Reports
  <2>3. made' \in Seq(0..Launches) /\ Len(made') = Len(made) + 1
    BY <1>0, <1>7, <2>1, AppendProperties DEF Store, FileTypes
  <2> QED
    BY <1>0, <1>5, <1>6, <1>7, <2>2, <2>3 DEF Store, FileTypes, fileVars
<1>8. CASE Announce(b)
  <2>1. 0 \in Reports /\ Replayed(wal, buffer) \in Reports
    BY <1>0, Bounds DEF FileTypes, Replayed, Reports
  <2> QED
    BY <1>0, <1>5, <1>6, <1>8, <2>1 DEF Announce, FileTypes
<1>9. CASE ~Store(b) /\ ~Announce(b)
  <2>1. UNCHANGED <<storeVars, made, announced>>
    BY <1>9 DEF BenchStep, Refused, Collect, MeasureLib, Drain, Compare, MeasureLatency, Diagnose
  <2> QED
    BY <1>0, <1>5, <1>6, <2>1 DEF FileTypes, storeVars, fileVars
<1> QED
  BY <1>7, <1>8, <1>9

\* No step of the app leaves the types.
LEMMA AppTypes ==
    ASSUME TypeOK, AppNext
    PROVE  RunTypes' /\ FileTypes'
<1>0. RunTypes /\ FileTypes /\ ui \in Screen
  BY TypeParts DEF RunTypes
<1>1. CASE TapTest \/ Refresh
  <2>1. ui.selfRun + 1 \in Nat /\ ui.selfRun + 2 \in Nat
    BY <1>0, Screens
  <2>2. Spare(test) # {}
    BY <1>1 DEF TapTest, Refresh
  <2>3. \E run \in Nat, auto \in BOOLEAN : test' = Began(run, auto)
    BY <1>1, <2>1 DEF TapTest, Refresh
  <2>4. test' \in [SelfTests -> TestRun]
    BY <1>0, <2>2, <2>3, Begins
  <2>5. ui' \in Screen
    <3>1. \A run \in Nat : ScreenTesting(ui, run) \in Screen
      BY <1>0, Screens
    <3>2. \A s \in Screen : [s EXCEPT !.benchRun = @ + 1] \in Screen
      BY Screens
    <3> QED
      BY <1>1, <2>1, <3>1, <3>2 DEF TapTest, Refresh
  <2>6. /\ UNCHANGED <<up, mode, bench, profiler, benchVars, selfVars, storeVars, launch, made,
                       announced>>
        /\ user' \subseteq user
    BY <1>1 DEF TapTest, Refresh
  <2> QED
    BY <1>0, <2>4, <2>5, <2>6 DEF RunTypes, FileTypes, DataTypes, benchVars, selfVars, storeVars,
       fileVars
<1>2. CASE TapBenchmark
  <2>1. ui.benchRun + 1 \in Nat
    BY <1>0, Screens
  <2>a. /\ Spare(bench) # {}
        /\ bench' = Framed(CHOOSE b \in Spare(bench) : TRUE, ui.benchRun + 1)
    BY <1>2 DEF TapBenchmark
  <2>b. \E b \in Benchmarks, r \in BenchRun : bench' = [bench EXCEPT ![b] = r]
    BY <1>0, <2>1, <2>a, Frames
  <2>2. bench' \in [Benchmarks -> BenchRun]
    BY <1>0, <2>b DEF RunTypes
  <2>3. ui' \in Screen
    BY <1>0, <1>2, Screens DEF TapBenchmark
  <2> QED
    BY <1>0, <1>2, <2>2, <2>3 DEF TapBenchmark, RunTypes, FileTypes, DataTypes, benchVars,
       selfVars, storeVars, fileVars
<1>3. CASE Profile \/ Write \/ Compact
  <2>1. 0 \in Reports
    BY Bounds DEF Reports
  <2>2. UNCHANGED <<up, mode, ui, test, bench, benchVars, selfVars, launch, made, user, announced>>
    BY <1>3 DEF Profile, Write, Compact, runVars
  <2>3. profiler' \in {profiler, "over"}
    BY <1>3 DEF Profile, Write, Compact, runVars
  <2>4. /\ mem' = mem /\ buffer' \in {buffer, 0} /\ wal' \in {wal, buffer, 0}
        /\ snap' \in {snap, mem}
    BY <1>3 DEF Profile, Write, Compact, storeVars, fileVars
  <2>5. RunTypes'
    BY <1>0, <2>2, <2>3 DEF RunTypes, DataTypes, benchVars, selfVars
  <2>6. FileTypes'
    BY <1>0, <2>1, <2>2, <2>4 DEF FileTypes
  <2> QED
    BY <2>5, <2>6
<1> QED
  BY <1>1, <1>2, <1>3, TestTypes, BenchTypes DEF AppNext

\* Whatever moment the copies are of, the script reads a report that was made, or none.
LEMMA ReportsRead ==
    ASSUME TypeOK
    PROVE  ReadReport \subseteq Reports
BY Bounds DEF ReadReport, Replayed, TypeOK, Reports

TypeInv == RunTypes /\ FileTypes /\ ScriptTypes /\ WithinBounds

\* Types and the script's bounds survive every step, of the app or of the script.
LEMMA TypeStep ==
    ASSUME TypeInv, [Next]_vars
    PROVE  TypeInv'
<1> USE DEF WithinBounds, TypeInv
<1>0. RunTypes /\ FileTypes /\ ScriptTypes /\ TypeOK
  BY TypeParts
<1>1. CASE AppNext /\ UNCHANGED scriptVars
  <2>1. launch' = launch
    BY <1>1 DEF AppNext, TapTest, TapBenchmark, Refresh, Profile, Write, Compact, TestStep,
       BenchStep, AsyncChecks, CrossHandle, TtlOver, Observed, ReduxGet, ReduxRemove, ReduxGone,
       Evicted, TestReturns, AutorunOver, restOfTest, Refused, Collect, MeasureLib, Drain,
       Compare, MeasureLatency, Diagnose, Store, Announce
  <2> QED
    BY <1>0, <1>1, <2>1, AppTypes DEF scriptVars, ScriptTypes
<1>2. CASE OpenByHand
  <2>1. PICK how \in {"plain", "profile"} : Started(how)
    BY <1>2 DEF OpenByHand
  <2>2. RunTypes' /\ mem' \in Reports /\ buffer' = 0 /\ 0 \in Reports
    BY <1>0, <2>1, Starts, Bounds DEF Reports
  <2>3. UNCHANGED <<launch, fileVars, made, user, announced, scriptVars>>
    BY <1>2 DEF OpenByHand
  <2> QED
    BY <1>0, <2>2, <2>3 DEF FileTypes, ScriptTypes, fileVars, scriptVars
<1>3. CASE Terminate
  <2>1. RunTypes' /\ mem' \in Reports /\ buffer' \in Reports
    <3>1. CASE Stopped
      BY <3>1, Stops, Bounds DEF Reports
    <3>2. CASE UNCHANGED processVars
      BY <1>0, <3>2 DEF processVars, RunTypes, FileTypes, DataTypes, runVars, benchVars, selfVars
    <3> QED
      BY <1>3, <3>1, <3>2 DEF Terminate
  <2>2. /\ UNCHANGED <<launch, fileVars, made, user, announced, simulator, copied, previous,
                       looks, fresh, collected>>
        /\ spc' = IF MoreLaunches THEN "launch" ELSE "done"
    BY <1>3 DEF Terminate
  <2> QED
    BY <1>0, <2>1, <2>2 DEF FileTypes, ScriptTypes, fileVars, MoreLaunches
<1>4. CASE Launch
  <2>1. /\ RunTypes' /\ mem' \in Reports /\ buffer' \in Reports
        /\ 0 \in 0..Looks /\ 0 < Looks
    <3>1. CASE Started("autorun")
      BY <1>0, <3>1, Starts, Bounds DEF Reports
    <3>2. CASE UNCHANGED processVars
      BY <1>0, <3>2, Bounds DEF processVars, RunTypes, FileTypes, DataTypes, runVars, benchVars,
         selfVars
    <3> QED
      BY <1>4, <3>1, <3>2 DEF Launch
  <2>2. launch' \in 0..Launches
    BY <1>0, <1>4, Bounds DEF Launch, FileTypes
  <2>3. /\ UNCHANGED <<fileVars, made, user, announced, simulator, copied, previous, collected>>
        /\ spc' = "wait" /\ looks' = 0 /\ fresh' \in BOOLEAN
    BY <1>0, <1>4 DEF Launch, ScriptTypes
  <2> QED
    BY <1>0, <2>1, <2>2, <2>3 DEF FileTypes, ScriptTypes, fileVars
<1>5. CASE Begin \/ CopySnap \/ ReadPrevious \/ LaunchFails \/ Ended \/ UNCHANGED vars
  <2>1. UNCHANGED appVars
    BY <1>5 DEF Begin, CopySnap, ReadPrevious, LaunchFails, Ended, vars
  <2>2. RunTypes' /\ FileTypes'
    BY <1>0, <2>1 DEF appVars, RunTypes, FileTypes, DataTypes, runVars, benchVars, selfVars,
       storeVars, fileVars
  <2>3. UNCHANGED <<simulator, looks, fresh, collected>>
    BY <1>5 DEF Begin, CopySnap, ReadPrevious, LaunchFails, Ended, vars, scriptVars
  <2>4. copied' \in Reports /\ previous' \in Reports
    BY <1>0, <1>5, ReportsRead DEF Begin, CopySnap, ReadPrevious, LaunchFails, Ended, vars,
       scriptVars, FileTypes, ScriptTypes
  <2>5. spc' = spc \/ spc' \in {"previous", "previousWal", "waitWal", "terminate", "failed"}
    BY <1>5 DEF Begin, CopySnap, ReadPrevious, LaunchFails, Ended, vars, scriptVars
  <2>6. WithinBounds' /\ launch' = launch
    BY <1>5, <2>1, <2>3 DEF Begin, CopySnap, ReadPrevious, LaunchFails, Ended, vars, scriptVars,
       appVars
  <2> QED
    BY <1>0, <2>2, <2>3, <2>4, <2>5, <2>6 DEF ScriptTypes
<1>6. CASE Look
  <2>1. UNCHANGED <<appVars, simulator, copied, fresh>>
    BY <1>6 DEF Look
  <2>2. RunTypes' /\ FileTypes'
    BY <1>0, <2>1 DEF appVars, RunTypes, FileTypes, DataTypes, runVars, benchVars, selfVars,
       storeVars, fileVars
  <2>3. PICK got \in ReadReport :
           IF NewerReport(got) THEN Collected(got)
           ELSE /\ looks' = looks + 1
                /\ spc' = IF looks + 1 < Looks THEN "wait" ELSE "failed"
                /\ UNCHANGED <<collected, previous>>
    BY <1>6 DEF Look
  <2>4. got \in Reports
    BY <1>0, <2>3, ReportsRead
  <2>5. CASE Collected(got)
    <3>1. [report |-> got, since |-> previous, torn |-> copied # snap, fresh |-> fresh]
             \in Collection
      BY <1>0, <2>4 DEF ScriptTypes, Collection
    <3>2. collected' \in Seq(Collection)
      BY <1>0, <2>5, <3>1, AppendProperties DEF Collected, ScriptTypes
    <3> QED
      BY <1>0, <2>1, <2>2, <2>4, <2>5, <3>2 DEF Collected, ScriptTypes
  <2>6. CASE ~Collected(got)
    <3>1. looks \in Nat /\ looks < Looks /\ Looks \in Nat
      BY <1>0, <1>6, Bounds DEF Look, ScriptTypes
    <3>2. looks' \in 0..Looks /\ (looks + 1 < Looks => looks' < Looks)
      BY <2>3, <2>6, <3>1
    <3> QED
      BY <1>0, <2>1, <2>2, <2>3, <2>6, <3>2 DEF ScriptTypes
  <2> QED
    BY <2>5, <2>6
<1> QED
  BY <1>1, <1>2, <1>3, <1>4, <1>5, <1>6 DEF Next, Script

\* Nothing is reported, launched or looked for beyond its bound, and every run, screen and
\* file keeps its type, whatever the user, the packager and the script do.
THEOREM BenchTypeCorrect == Spec => []TypeOK
<1>1. Init => TypeInv
  <2> SUFFICES ASSUME Init PROVE TypeInv
    OBVIOUS
  <2>1. 0 \in Reports /\ 0 \in 0..Launches /\ 0 \in 0..Looks /\ Len(<<>>) = 0
    BY Bounds, EmptySeq DEF Reports
  <2>2. RunTypes
    BY <2>1, Fresh DEF Init, AppInit, RunTypes, DataTypes
  <2>3. FileTypes
    BY <2>1, ExampleAppAssumption, EmptySeq DEF Init, AppInit, FileTypes
  <2>4. ScriptTypes
    BY <2>1, EmptySeq DEF Init, ScriptTypes
  <2> QED
    BY <2>2, <2>3, <2>4 DEF Init, WithinBounds, TypeInv
<1>2. TypeInv /\ [Next]_vars => TypeInv'
  BY TypeStep
<1>3. TypeInv => TypeOK
  BY TypeParts DEF TypeInv
<1> QED
  BY <1>1, <1>2, <1>3, PTL DEF Spec

-----------------------------------------------------------------------------
(***************************************************************************)
(* The screen.  What it shows is about the run with the newest token, so   *)
(* it matters that no two runs of a process have the same one.             *)
(***************************************************************************)
TestTokens ==
    /\ \A t \in SelfTests : test[t].run <= ui.selfRun
    /\ \A t, u \in SelfTests :
          t # u /\ test[t].pc # "unused" /\ test[u].pc # "unused" => test[t].run # test[u].run

BenchTokens ==
    /\ \A b \in Benchmarks : bench[b].run <= ui.benchRun
    /\ \A b, c \in Benchmarks :
          b # c /\ bench[b].pc # "unused" /\ bench[c].pc # "unused" => bench[b].run # bench[c].run

TestShown ==
    up /\ mode # "profile" =>
        (ui.selfRunning <=> \E t \in InTest : test[t].run = ui.selfRun)

BenchShown ==
    up /\ mode # "profile" =>
        /\ (\E b \in InBench : bench[b].run = ui.benchRun) => ui.benchRunning
        /\ ui.benchRunning => \/ \E b \in InBench : bench[b].run = ui.benchRun
                              \/ \A b \in Benchmarks : bench[b].run # ui.benchRun

TestScreen  == TestTokens /\ TestShown
BenchScreen == BenchTokens /\ BenchShown

\* The part of the screen a step does not touch stays true.
LEMMA TestScreenKept ==
    ASSUME TestScreen, test' = test, ui'.selfRun = ui.selfRun, ui'.selfRunning = ui.selfRunning,
           up' => up /\ mode' = mode
    PROVE  TestScreen'
BY DEF TestScreen, TestTokens, TestShown, InTest

\* The same for the benchmarks.
LEMMA BenchScreenKept ==
    ASSUME BenchScreen, bench' = bench, ui'.benchRun = ui.benchRun,
           ui'.benchRunning = ui.benchRunning, up' => up /\ mode' = mode
    PROVE  BenchScreen'
BY DEF BenchScreen, BenchTokens, BenchShown, InBench

\* A self-test begins with a token of its own.
LEMMA BegunShown ==
    ASSUME RunTypes, TestScreen, Spare(test) # {}, NEW run \in Nat, run > ui.selfRun,
           NEW auto \in BOOLEAN, test' = Began(run, auto), ui'.selfRun = run,
           ui'.selfRunning = TRUE
    PROVE  TestScreen'
<1>1. PICK next \in SelfTests :
         /\ test'[next].pc = "async" /\ test'[next].run = run
         /\ \A t \in SelfTests \ {next} : test'[t].pc = test[t].pc /\ test'[t].run = test[t].run
  BY Begins
<1>2. ui.selfRun \in Nat /\ \A t \in SelfTests : test[t].run \in Nat /\ test[t].run < run
  BY DEF RunTypes, Screen, TestRun, TestScreen, TestTokens
<1>3. TestTokens'
  BY <1>1, <1>2 DEF TestScreen, TestTokens
<1>4. next \in InTest'
  BY <1>1 DEF InTest
<1> QED
  BY <1>1, <1>3, <1>4 DEF TestScreen, TestShown

\* So does a benchmark.
LEMMA FramedShown ==
    ASSUME RunTypes, BenchScreen, Spare(bench) # {},
           bench' = Framed(CHOOSE b \in Spare(bench) : TRUE, ui.benchRun + 1),
           ui'.benchRun = ui.benchRun + 1, ui'.benchRunning = TRUE
    PROVE  BenchScreen'
<1>0. ui.benchRun \in Nat /\ ui.benchRun + 1 \in Nat
  BY DEF RunTypes, Screen
<1>1. PICK b \in Benchmarks, r \in BenchRun :
         r.pc = "frame" /\ r.run = ui.benchRun + 1 /\ bench' = [bench EXCEPT ![b] = r]
  BY <1>0, Frames
<1>2. \A c \in Benchmarks : bench[c].run \in Nat /\ bench[c].run <= ui.benchRun
  BY DEF RunTypes, BenchRun, BenchScreen, BenchTokens
<1>3. bench'[b] = r /\ \A c \in Benchmarks \ {b} : bench'[c] = bench[c]
  BY <1>1 DEF RunTypes
<1>4. BenchTokens'
  <2>1. bench'[b].run = ui'.benchRun /\ ui'.benchRun \in Nat
    BY <1>0, <1>1, <1>3
  <2>2. \A c \in Benchmarks \ {b} : bench'[c].run < ui'.benchRun /\ bench'[c].run \in Nat
    BY <1>0, <1>2, <1>3
  <2>3. \A c \in Benchmarks : bench'[c].run <= ui'.benchRun
    BY <2>1, <2>2
  <2>4. ASSUME NEW c \in Benchmarks, NEW d \in Benchmarks, c # d,
               bench'[c].pc # "unused", bench'[d].pc # "unused"
        PROVE  bench'[c].run # bench'[d].run
    <3>1. CASE c = b \/ d = b
      BY <2>1, <2>2, <2>4, <3>1
    <3>2. CASE c # b /\ d # b
      BY <1>3, <2>4, <3>2 DEF BenchScreen, BenchTokens
    <3> QED
      BY <3>1, <3>2
  <2> QED
    BY <2>3, <2>4 DEF BenchTokens
<1>5. b \in InBench' /\ bench'[b].run = ui'.benchRun
  BY <1>1, <1>3 DEF InBench
<1> QED
  BY <1>4, <1>5 DEF BenchScreen, BenchShown

\* A self-test that moves keeps its token; it is out of the test when it returns.
LEMMA TestSteps ==
    ASSUME TypeOK, NEW t \in SelfTests, TestStep(t)
    PROVE  /\ \A u \in SelfTests \ {t} : test'[u] = test[u]
           /\ test'[t].run = test[t].run /\ test[t].pc # "unused" /\ test'[t].pc # "unused"
           /\ InTest' = IF TestReturns(t) THEN InTest \ {t} ELSE InTest
           /\ test[t].excused => test'[t].excused
<1>0. test \in [SelfTests -> TestRun]
  BY TypeParts DEF RunTypes
<1>1. PICK r \in TestRun : Moved(t, r)
  BY TestMoves
<1>2. test'[t] = r /\ \A u \in SelfTests \ {t} : test'[u] = test[u]
  BY <1>0, <1>1 DEF Moved
<1>3. CASE TestReturns(t)
  <2>1. test[t].pc = "return" /\ test'[t].pc \in {"benchmark", "ended"}
    <3>1. test' \in {[test EXCEPT ![t].pc = "benchmark",
                                   ![t].awaits = CHOOSE b \in Spare(bench) : TRUE],
                     [test EXCEPT ![t].pc = "ended"]}
      BY <1>3 DEF TestReturns
    <3>2. test[t] \in TestRun
      BY <1>0
    <3> QED
      BY <1>0, <1>3, <3>1, <3>2 DEF TestReturns, TestRun
  <2> QED
    BY <1>1, <1>2, <1>3, <2>1 DEF Moved, InTest
<1>4. CASE AutorunOver(t)
  <2>1. test[t].pc = "benchmark" /\ r.pc = "ended"
    BY <1>1, <1>4 DEF AutorunOver, Moved
  <2> QED
    BY <1>1, <1>2, <1>4, <2>1 DEF Moved, InTest, TestReturns
<1>5. ASSUME ~TestReturns(t), ~AutorunOver(t)
      PROVE  test[t].pc \notin OutOfTest /\ test'[t].pc \notin OutOfTest
  <2>1. test[t] \in TestRun
    BY <1>0
  <2>2. ASSUME NEW from \in TestPCs \ OutOfTest, NEW to \in TestPCs \ OutOfTest, NEW bad,
               Reached(t, from, to, bad) \/ Timed(t, from, to, bad)
        PROVE  test[t].pc \notin OutOfTest /\ test'[t].pc \notin OutOfTest
    BY <1>0, <2>1, <2>2 DEF Reached, Timed, TestRun
  <2>3. CASE AsyncChecks(t) \/ ReduxGet(t) \/ ReduxRemove(t) \/ ReduxGone(t) \/ TtlOver(t)
    BY <2>2, <2>3 DEF AsyncChecks, ReduxGet, ReduxRemove, ReduxGone, TtlOver, TestPCs, OutOfTest
  <2>4. CASE CrossHandle(t) \/ Observed(t) \/ Evicted(t)
    BY <2>2, <2>4 DEF CrossHandle, Observed, Evicted, TestPCs, OutOfTest
  <2> QED
    BY <1>5, <2>3, <2>4 DEF TestStep
<1> QED
  BY <1>1, <1>2, <1>3, <1>4, <1>5 DEF Moved, InTest, OutOfTest

\* A benchmark that moves keeps its token, until it is over.
LEMMA BenchSteps ==
    ASSUME TypeOK, NEW b \in Benchmarks, BenchStep(b)
    PROVE  /\ \A c \in Benchmarks \ {b} : bench'[c] = bench[c]
           /\ bench'[b].run = bench[b].run /\ bench[b].pc # "unused" /\ bench'[b].pc # "unused"
           /\ b \in InBench
           /\ \/ InBench' = InBench /\ ui' = ui
              \/ /\ InBench' = InBench \ {b}
                 /\ \E failed \in BOOLEAN, report \in Reports : ui' = ScreenOver(b, failed, report)
<1>0. bench \in [Benchmarks -> BenchRun]
  BY TypeParts DEF RunTypes
<1>1. PICK r \in BenchRun : Advanced(b, r)
  BY BenchMoves
<1>2. bench'[b] = r /\ \A c \in Benchmarks \ {b} : bench'[c] = bench[c]
  BY <1>0, <1>1 DEF Advanced
<1> QED
  BY <1>1, <1>2 DEF Advanced, InBench, OutOfBench

\* A self-test turns its spinner off only if the spinner is its own.
LEMMA TestStepShown ==
    ASSUME TypeOK, TestScreen, BenchScreen, NEW t \in SelfTests, TestStep(t)
    PROVE  TestScreen' /\ BenchScreen'
<1>0. RunTypes /\ ui \in Screen /\ ui.selfRun \in Nat
  BY TypeParts DEF RunTypes, Screen
<1>1. /\ \A u \in SelfTests \ {t} : test'[u] = test[u]
      /\ test'[t].run = test[t].run /\ test[t].pc # "unused" /\ test'[t].pc # "unused"
      /\ InTest' = IF TestReturns(t) THEN InTest \ {t} ELSE InTest
  BY TestSteps
<1>2. up' = up /\ mode' = mode
  BY DEF TestStep, AsyncChecks, CrossHandle, TtlOver, Observed, ReduxGet, ReduxRemove,
     ReduxGone, Evicted, TestReturns, AutorunOver, restOfTest
<1>3. \A u \in SelfTests : test'[u].run = test[u].run
                           /\ (test'[u].pc # "unused" <=> test[u].pc # "unused")
  BY <1>1
<1>4. ui'.selfRun = ui.selfRun => TestTokens'
  BY <1>3 DEF TestScreen, TestTokens
<1>5. \A u \in InTest : u # t => test[u].run # test[t].run
  BY <1>1 DEF TestScreen, TestTokens, InTest
<1>6. CASE TestReturns(t)
  <2> DEFINE still == [ui EXCEPT !.selfRunning = FALSE]
  <2>1. /\ still.selfRun = ui.selfRun /\ ~still.selfRunning
        /\ still.benchRun = ui.benchRun /\ still.benchRunning = ui.benchRunning
    BY <1>0 DEF Screen
  <2>2. ASSUME NEW s \in {ui, still}
        PROVE  /\ ScreenBenching(s).selfRun = ui.selfRun
               /\ ScreenBenching(s).selfRunning = s.selfRunning
               /\ ScreenBenching(s).benchRun = ui.benchRun + 1
               /\ ScreenBenching(s).benchRunning = TRUE
    <3>1. s \in Screen
      BY <1>0, Screens
    <3> QED
      BY <2>1, <3>1 DEF ScreenBenching, Screen
  <2> HIDE DEF still
  <2>3. LET s == IF test[t].run = ui.selfRun THEN still ELSE ui
        IN \/ ui' = s /\ bench' = bench
           \/ /\ ui' = ScreenBenching(s) /\ Spare(bench) # {}
              /\ bench' = Framed(CHOOSE b \in Spare(bench) : TRUE, ui.benchRun + 1)
    BY <1>6 DEF TestReturns, still
  <2>4. /\ ui'.selfRun = ui.selfRun
        /\ ui'.selfRunning <=> ui.selfRunning /\ test[t].run # ui.selfRun
    BY <2>1, <2>2, <2>3
  <2>5. TestShown'
    <3>1. \A u \in InTest' : u # t /\ u \in InTest /\ test'[u].run = test[u].run
      BY <1>1, <1>6 DEF InTest
    <3>2. \A u \in InTest : u # t => u \in InTest'
      BY <1>1, <1>6
    <3> QED
      BY <1>1, <1>2, <1>5, <2>4, <3>1, <3>2 DEF TestScreen, TestShown
  <2>6. BenchScreen'
    <3>1. CASE bench' = bench /\ ui'.benchRun = ui.benchRun /\ ui'.benchRunning = ui.benchRunning
      BY <1>2, <3>1, BenchScreenKept
    <3>2. CASE /\ Spare(bench) # {} /\ ui'.benchRun = ui.benchRun + 1 /\ ui'.benchRunning = TRUE
               /\ bench' = Framed(CHOOSE b \in Spare(bench) : TRUE, ui.benchRun + 1)
      BY <1>0, <3>2, FramedShown
    <3> QED
      BY <2>1, <2>2, <2>3, <3>1, <3>2
  <2> QED
    BY <1>4, <2>4, <2>5, <2>6 DEF TestScreen
<1>7. CASE AutorunOver(t)
  <2>1. /\ bench' = bench /\ t \notin InTest /\ InTest' = InTest
        /\ ui' = IF test[t].run = ui.selfRun THEN [ui EXCEPT !.selfRunning = FALSE] ELSE ui
    BY <1>1, <1>7 DEF AutorunOver, TestReturns, InTest
  <2>2. /\ ui'.selfRun = ui.selfRun
        /\ ui'.benchRun = ui.benchRun /\ ui'.benchRunning = ui.benchRunning
        /\ ui'.selfRunning <=> ui.selfRunning /\ test[t].run # ui.selfRun
    BY <1>0, <2>1 DEF Screen
  <2>3. TestShown'
    <3>1. \A u \in InTest : u # t /\ test'[u].run = test[u].run
      BY <1>3, <2>1 DEF InTest
    <3> QED
      BY <1>1, <1>2, <1>5, <2>1, <2>2, <3>1 DEF TestScreen, TestShown
  <2> QED
    BY <1>2, <1>4, <2>1, <2>2, <2>3, BenchScreenKept DEF TestScreen
<1>8. CASE ~TestReturns(t) /\ ~AutorunOver(t)
  <2>1. ui' = ui /\ bench' = bench /\ InTest' = InTest
    BY <1>1, <1>8 DEF TestStep, AsyncChecks, CrossHandle, TtlOver, Observed, ReduxGet,
       ReduxRemove, ReduxGone, Evicted, restOfTest
  <2>2. TestShown'
    BY <1>2, <1>3, <2>1 DEF TestScreen, TestShown, InTest
  <2> QED
    BY <1>2, <1>4, <2>1, <2>2, BenchScreenKept DEF TestScreen
<1> QED
  BY <1>6, <1>7, <1>8

\* A benchmark that ends turns off the spinner it owns, and no other.
LEMMA BenchStepShown ==
    ASSUME TypeOK, TestScreen, BenchScreen, NEW b \in Benchmarks, BenchStep(b)
    PROVE  TestScreen' /\ BenchScreen'
<1>0. RunTypes /\ ui \in Screen
  BY TypeParts DEF RunTypes
<1>1. /\ \A c \in Benchmarks \ {b} : bench'[c] = bench[c]
      /\ bench'[b].run = bench[b].run /\ bench[b].pc # "unused" /\ bench'[b].pc # "unused"
      /\ b \in InBench
      /\ \/ InBench' = InBench /\ ui' = ui
         \/ /\ InBench' = InBench \ {b}
            /\ \E failed \in BOOLEAN, report \in Reports : ui' = ScreenOver(b, failed, report)
  BY BenchSteps
<1>2. up' = up /\ mode' = mode /\ test' = test
  BY DEF BenchStep, Refused, Collect, MeasureLib, Drain, Compare, MeasureLatency, Diagnose,
     Store, Announce
<1>3. \A failed, report : LET s == ScreenOver(b, failed, report) IN
         /\ s.selfRun = ui.selfRun /\ s.selfRunning = ui.selfRunning
         /\ s.benchRun = ui.benchRun
         /\ IF bench[b].run = ui.benchRun THEN ~s.benchRunning
            ELSE s.benchRunning = ui.benchRunning
  BY <1>0 DEF ScreenOver, Screen
<1>4. /\ ui'.selfRun = ui.selfRun /\ ui'.selfRunning = ui.selfRunning
      /\ ui'.benchRun = ui.benchRun
  BY <1>1, <1>3
<1>5. TestScreen'
  BY <1>2, <1>4, TestScreenKept
<1>6. \A c \in Benchmarks : bench'[c].run = bench[c].run
                            /\ (bench'[c].pc # "unused" <=> bench[c].pc # "unused")
  BY <1>1
<1>7. BenchTokens'
  BY <1>4, <1>6 DEF BenchScreen, BenchTokens
<1>8. BenchShown'
  <2>1. CASE InBench' = InBench /\ ui' = ui
    BY <1>2, <1>6, <2>1 DEF BenchScreen, BenchShown, InBench
  <2>2. CASE InBench' = InBench \ {b} /\ bench[b].run = ui.benchRun /\ ~ui'.benchRunning
    <3>1. \A c \in InBench' : bench'[c].run # ui.benchRun
      BY <1>1, <1>6, <2>2 DEF BenchScreen, BenchTokens, InBench
    <3> QED
      BY <1>4, <2>2, <3>1 DEF BenchShown
  <2>3. CASE /\ InBench' = InBench \ {b} /\ bench[b].run # ui.benchRun
             /\ ui'.benchRunning = ui.benchRunning
    BY <1>2, <1>4, <1>6, <2>3 DEF BenchScreen, BenchShown, InBench
  <2> QED
    BY <1>1, <1>3, <2>1, <2>2, <2>3
<1> QED
  BY <1>5, <1>7, <1>8 DEF BenchScreen

\* A process that starts shows its self-test, or, asked to profile, need not.
LEMMA StartShown ==
    ASSUME FileTypes, NEW how \in {"plain", "autorun", "profile"}, Started(how)
    PROVE  TestScreen' /\ BenchScreen'
<1> DEFINE first  == CHOOSE t \in SelfTests : TRUE
           unused == [t \in SelfTests |-> Unused]
           auto   == [Unused EXCEPT !.pc = "async", !.run = 1, !.auto = (how = "autorun")]
           blank  == FirstScreen(Replayed(snap, wal))
           shown  == ScreenTesting(blank, 1)
<1>1. first \in SelfTests
  BY ExampleAppAssumption
<1>2. /\ blank.selfRun = 0 /\ blank.benchRun = 0 /\ ~blank.benchRunning
      /\ shown.selfRun = 1 /\ shown.selfRunning /\ shown.benchRun = 0 /\ ~shown.benchRunning
  BY DEF FirstScreen, ScreenTesting
<1>3. auto.pc = "async" /\ auto.run = 1 /\ Unused.pc = "unused" /\ Unused.run = 0
  BY DEF Unused
<1>4. bench' = [b \in Benchmarks |-> Unopened] /\ mode' = how
  BY DEF Started
<1>5. IF how = "profile" THEN ui' = blank /\ test' = unused
      ELSE ui' = shown /\ test' = [unused EXCEPT ![first] = auto]
  BY DEF Started
<1> HIDE DEF first, auto, blank, shown
<1>6. BenchScreen'
  <2>1. \A b \in Benchmarks : bench'[b].pc = "unused" /\ bench'[b].run = 0
    BY <1>4 DEF Unopened
  <2>2. ui'.benchRun = 0 /\ ~ui'.benchRunning
    BY <1>2, <1>5
  <2> QED
    BY <2>1, <2>2 DEF BenchScreen, BenchTokens, BenchShown, InBench
<1>7. TestScreen'
  <2>1. CASE how = "profile"
    BY <1>2, <1>3, <1>4, <1>5, <2>1 DEF TestScreen, TestTokens, TestShown
  <2>2. CASE how # "profile"
    <3>1. test'[first] = auto /\ \A t \in SelfTests \ {first} : test'[t] = Unused
      BY <1>1, <1>5, <2>2
    <3>2. ui'.selfRun = 1 /\ ui'.selfRunning
      BY <1>2, <1>5, <2>2
    <3>3. first \in InTest'
      BY <1>1, <1>3, <3>1 DEF InTest
    <3> QED
      BY <1>3, <3>1, <3>2, <3>3 DEF TestScreen, TestTokens, TestShown
  <2> QED
    BY <2>1, <2>2
<1> QED
  BY <1>6, <1>7

\* Without a process there is nothing to show.
LEMMA StopShown ==
    ASSUME Stopped
    PROVE  TestScreen' /\ BenchScreen'
BY DEF Stopped, FirstScreen, Unused, Unopened, TestScreen, TestTokens, TestShown, BenchScreen,
   BenchTokens, BenchShown

\* The screen stays true through every step: mounting, refresh, exit and launch included.
LEMMA ScreenStep ==
    ASSUME TypeOK, TestScreen, BenchScreen, [Next]_vars
    PROVE  TestScreen' /\ BenchScreen'
<1>0. RunTypes /\ FileTypes /\ ui \in Screen /\ ui.selfRun \in Nat /\ ui.benchRun \in Nat
  BY TypeParts DEF RunTypes, Screen
<1>1. CASE TapTest
  <2>1. /\ Spare(test) # {} /\ test' = Began(ui.selfRun + 1, FALSE) /\ bench' = bench
        /\ ui' = ScreenTesting(ui, ui.selfRun + 1) /\ up' = up /\ mode' = mode
    BY <1>1 DEF TapTest
  <2>2. /\ ui'.selfRun = ui.selfRun + 1 /\ ui'.selfRunning = TRUE
        /\ ui'.benchRun = ui.benchRun /\ ui'.benchRunning = ui.benchRunning
    BY <1>0, <2>1 DEF ScreenTesting, Screen
  <2>3. ui.selfRun + 1 \in Nat /\ ui.selfRun + 1 > ui.selfRun
    BY <1>0
  <2>4. TestScreen'
    BY <1>0, <2>1, <2>2, <2>3, BegunShown
  <2> QED
    BY <2>1, <2>2, <2>4, BenchScreenKept
<1>2. CASE Refresh
  <2>1. /\ Spare(test) # {} /\ test' = Began(ui.selfRun + 2, mode = "autorun") /\ bench' = bench
        /\ ui' = [ScreenTesting(ui, ui.selfRun + 2) EXCEPT !.benchRun = @ + 1]
        /\ up' = up /\ mode' = mode
    BY <1>2 DEF Refresh
  <2>2. ui'.selfRun = ui.selfRun + 2 /\ ui'.selfRunning = TRUE /\ ui'.benchRun = ui.benchRun + 1
    BY <1>0, <2>1 DEF ScreenTesting, Screen
  <2>3. TestScreen'
    <3>1. /\ ui.selfRun + 2 \in Nat /\ ui.selfRun + 2 > ui.selfRun
          /\ (mode = "autorun") \in BOOLEAN
      BY <1>0
    <3> QED
      BY <1>0, <2>1, <2>2, <3>1, BegunShown
  <2>4. \A b \in Benchmarks : bench[b].run \in Nat /\ bench[b].run < ui'.benchRun
    BY <1>0, <2>2 DEF RunTypes, BenchRun, BenchScreen, BenchTokens
  <2>5. BenchScreen'
    <3>1. ui'.benchRun \in Nat
      BY <1>0, <2>2
    <3>2. \A b \in Benchmarks : bench[b].run <= ui'.benchRun /\ bench[b].run # ui'.benchRun
      BY <2>4, <3>1
    <3> QED
      BY <2>1, <3>2 DEF BenchScreen, BenchTokens, BenchShown, InBench
  <2> QED
    BY <2>3, <2>5
<1>3. CASE TapBenchmark
  <2>1. /\ Spare(bench) # {} /\ test' = test /\ up' = up /\ mode' = mode
        /\ bench' = Framed(CHOOSE b \in Spare(bench) : TRUE, ui.benchRun + 1)
        /\ ui' = ScreenBenching(ui)
    BY <1>3 DEF TapBenchmark
  <2>2. /\ ui'.selfRun = ui.selfRun /\ ui'.selfRunning = ui.selfRunning
        /\ ui'.benchRun = ui.benchRun + 1 /\ ui'.benchRunning = TRUE
    BY <1>0, <2>1 DEF ScreenBenching, Screen
  <2> QED
    BY <1>0, <2>1, <2>2, FramedShown, TestScreenKept
<1>4. ASSUME UNCHANGED <<up, mode, ui, test, bench>>
      PROVE  TestScreen' /\ BenchScreen'
  BY <1>4, TestScreenKept, BenchScreenKept
<1>5. CASE Profile \/ Write \/ Compact
  BY <1>4, <1>5 DEF Profile, Write, Compact, runVars
<1>a. CASE UNCHANGED processVars
  BY <1>4, <1>a DEF processVars, runVars
<1>6. CASE OpenByHand \/ Launch
  BY <1>0, <1>6, <1>a, StartShown DEF OpenByHand, Launch
<1>7. CASE Terminate
  BY <1>7, <1>a, StopShown DEF Terminate
<1>8. CASE Begin \/ CopySnap \/ ReadPrevious \/ LaunchFails \/ Look \/ Ended \/ UNCHANGED vars
  BY <1>4, <1>8 DEF Begin, CopySnap, ReadPrevious, LaunchFails, Look, Ended, vars, appVars,
     runVars
<1> QED
  BY <1>1, <1>2, <1>3, <1>5, <1>6, <1>7, <1>8, TestStepShown, BenchStepShown
     DEF Next, AppNext, Script

\* No interleaving of taps, refreshes and awaits leaves a spinner that nothing will take
\* back, or takes one back too soon (the tokens of executeSelfTest and executeBenchmark).
THEOREM ScreenTells == Spec => []SpinnersTrue
<1>1. Init => TestScreen /\ BenchScreen
  BY DEF Init, AppInit, FirstScreen, Unused, Unopened, TestScreen, TestTokens, TestShown,
     BenchScreen, BenchTokens, BenchShown
<1>2. TypeOK /\ TestScreen /\ BenchScreen /\ [Next]_vars => TestScreen' /\ BenchScreen'
  BY ScreenStep
<1>3. TestScreen /\ BenchScreen => SpinnersTrue
  BY DEF TestScreen, BenchScreen, TestShown, BenchShown, SpinnersTrue
<1> QED
  BY <1>1, <1>2, <1>3, BenchTypeCorrect, PTL DEF Spec

-----------------------------------------------------------------------------
(***************************************************************************)
(* Self-tests that share keys.  One that nothing excuses is alone, so what *)
(* it reads between two awaits is what it wrote.                           *)
(***************************************************************************)
Sound(t, tst, last, there) ==
    ~tst[t].excused => /\ ~tst[t].failed
                       /\ tst[t].pc = "ttl" => last = t
                       /\ tst[t].pc = "reduxGet" => there
                       /\ tst[t].pc = "reduxGone" => ~there

ExcuseInv ==
    /\ \A t, u \in InTest : t # u => test[t].excused
    /\ \A t \in SelfTests : Sound(t, test, ttl, redux)

\* Steps that touch neither the self-tests nor what they check excuse nobody.
LEMMA ExcuseKept ==
    ASSUME ExcuseInv, UNCHANGED <<test, ttl, redux>>
    PROVE  ExcuseInv'
BY DEF ExcuseInv, Sound, InTest

\* What a step of a self-test makes of itself.
LEMMA SoundStep ==
    ASSUME TypeOK, NEW t \in SelfTests, Sound(t, test, ttl, redux), TestStep(t)
    PROVE  Sound(t, test', ttl', redux')
<1>0. test \in [SelfTests -> TestRun] /\ test[t] \in TestRun
  BY TypeParts DEF RunTypes
<1>1. ASSUME NEW from, NEW to, NEW bad \in BOOLEAN, Reached(t, from, to, bad)
      PROVE  /\ test[t].pc = from /\ test'[t].pc = to
             /\ test'[t].failed <=> test[t].failed \/ bad
             /\ test'[t].excused <=> test[t].excused
  BY <1>0, <1>1 DEF Reached, TestRun
<1>2. ASSUME NEW from, NEW to, NEW late \in BOOLEAN, Timed(t, from, to, late)
      PROVE  /\ test[t].pc = from /\ test'[t].pc = to
             /\ test'[t].failed <=> test[t].failed \/ late
             /\ test'[t].excused <=> test[t].excused \/ late
  BY <1>0, <1>2 DEF Timed, TestRun
<1>3. CASE AsyncChecks(t) \/ ReduxRemove(t)
  <2>1. /\ test[t].pc \in {"async", "reduxRemove"} /\ test'[t].pc \in {"listen", "reduxGone"}
        /\ test'[t].failed <=> test[t].failed
        /\ test'[t].excused <=> test[t].excused
        /\ test'[t].pc = "reduxGone" => ~redux'
    <3>1. CASE AsyncChecks(t)
      <4>1. Reached(t, "async", "listen", FALSE) /\ FALSE \in BOOLEAN
        BY <3>1 DEF AsyncChecks
      <4>2. /\ test[t].pc = "async" /\ test'[t].pc = "listen"
            /\ test'[t].failed <=> test[t].failed \/ FALSE
            /\ test'[t].excused <=> test[t].excused
        BY <1>1, <4>1, Zenon
      <4> QED
        BY <4>2
    <3>2. CASE ReduxRemove(t)
      <4>1. Reached(t, "reduxRemove", "reduxGone", FALSE) /\ FALSE \in BOOLEAN /\ ~redux'
        BY <3>2 DEF ReduxRemove
      <4>2. /\ test[t].pc = "reduxRemove" /\ test'[t].pc = "reduxGone"
            /\ test'[t].failed <=> test[t].failed \/ FALSE
            /\ test'[t].excused <=> test[t].excused
        BY <1>1, <4>1, Zenon
      <4> QED
        BY <4>1, <4>2
    <3> QED
      BY <1>3, <3>1, <3>2
  <2> QED
    BY <2>1 DEF Sound
<1>4. CASE CrossHandle(t)
  <2>1. PICK late \in BOOLEAN : Timed(t, "listen", "ttl", late)
    BY <1>4 DEF CrossHandle
  <2>2. ttl' = t
    BY <1>4 DEF CrossHandle
  <2> QED
    BY <1>2, <2>1, <2>2 DEF Sound
<1>5. CASE TtlOver(t)
  <2>1. PICK alive \in (IF ttl = t THEN {FALSE} ELSE BOOLEAN) : Reached(t, "ttl", "observe", alive)
    BY <1>5 DEF TtlOver
  <2>2. alive \in BOOLEAN /\ (alive => ttl # t)
    BY <2>1
  <2> QED
    BY <1>1, <2>1, <2>2 DEF Sound
<1>6. CASE Observed(t)
  <2>1. PICK late \in BOOLEAN : Timed(t, "observe", "reduxGet", late)
    BY <1>6 DEF Observed
  <2>2. redux'
    BY <1>6 DEF Observed
  <2>3. /\ test'[t].pc = "reduxGet"
        /\ test'[t].failed <=> test[t].failed \/ late
        /\ test'[t].excused <=> test[t].excused \/ late
    BY <1>2, <2>1
  <2> QED
    BY <2>2, <2>3 DEF Sound
<1>7. CASE ReduxGet(t)
  <2>1. Reached(t, "reduxGet", "reduxRemove", ~redux) /\ (~redux) \in BOOLEAN
    BY <1>7 DEF ReduxGet
  <2>2. /\ test[t].pc = "reduxGet" /\ test'[t].pc = "reduxRemove"
        /\ test'[t].failed <=> test[t].failed \/ ~redux
        /\ test'[t].excused <=> test[t].excused
    BY <1>1, <2>1, Zenon
  <2> QED
    BY <2>2 DEF Sound
<1>8. CASE ReduxGone(t)
  <2>1. Reached(t, "reduxGone", "evict", redux) /\ redux \in BOOLEAN
    BY <1>8, TypeParts DEF ReduxGone, RunTypes
  <2>2. /\ test[t].pc = "reduxGone" /\ test'[t].pc = "evict"
        /\ test'[t].failed <=> test[t].failed \/ redux
        /\ test'[t].excused <=> test[t].excused
    BY <1>1, <2>1, Zenon
  <2> QED
    BY <2>2 DEF Sound
<1>9. CASE Evicted(t)
  <2>1. PICK late \in BOOLEAN : Timed(t, "evict", "return", late)
    BY <1>9 DEF Evicted
  <2> QED
    BY <1>2, <2>1 DEF Sound
<1>10. CASE TestReturns(t) \/ AutorunOver(t)
  <2>1. /\ test'[t].pc \in {"benchmark", "ended"}
        /\ test'[t].failed = test[t].failed /\ test'[t].excused = test[t].excused
    <3>1. test' \in {[test EXCEPT ![t].pc = "benchmark",
                                   ![t].awaits = CHOOSE b \in Spare(bench) : TRUE],
                     [test EXCEPT ![t].pc = "ended"]}
      BY <1>10 DEF TestReturns, AutorunOver
    <3> QED
      BY <1>0, <3>1 DEF TestRun
  <2> QED
    BY <2>1 DEF Sound
<1> QED
  BY <1>3, <1>4, <1>5, <1>6, <1>7, <1>8, <1>9, <1>10 DEF TestStep

\* A self-test that moves leaves the others as sound as they were.
LEMMA ExcuseTestStep ==
    ASSUME TypeOK, ExcuseInv, NEW t \in SelfTests, TestStep(t)
    PROVE  ExcuseInv'
<1>1. /\ \A u \in SelfTests \ {t} : test'[u] = test[u]
      /\ InTest' = IF TestReturns(t) THEN InTest \ {t} ELSE InTest
      /\ test[t].excused => test'[t].excused
  BY TestSteps
<1>2. InTest' \subseteq InTest /\ InTest \subseteq SelfTests
  BY <1>1 DEF InTest
<1>3. \A u, v \in InTest' : u # v => test'[u].excused
  BY <1>1, <1>2 DEF ExcuseInv
<1>4. Sound(t, test', ttl', redux')
  BY SoundStep DEF ExcuseInv
<1>5. ASSUME NEW u \in SelfTests \ {t}
      PROVE  Sound(u, test', ttl', redux')
  <2>1. test'[u] = test[u] /\ Sound(u, test, ttl, redux)
    BY <1>1 DEF ExcuseInv
  <2>2. CASE ttl' = ttl /\ redux' = redux
    BY <2>1, <2>2 DEF Sound
  <2>3. CASE u \in InTest /\ t \in InTest
    BY <2>1, <2>3 DEF Sound, ExcuseInv
  <2>4. CASE u \notin InTest
    BY <2>1, <2>4 DEF Sound, InTest
  <2>5. CASE t \notin InTest
    <3>1. test[t].pc \in OutOfTest
      BY <2>5 DEF InTest, OutOfTest
    <3>2. ~CrossHandle(t) /\ ~Observed(t) /\ ~ReduxRemove(t)
      BY <3>1 DEF CrossHandle, Observed, ReduxRemove, Reached, Timed, OutOfTest
    <3> QED
      BY <2>2, <3>2 DEF TestStep, AsyncChecks, TtlOver, ReduxGet, ReduxGone, Evicted,
         TestReturns, AutorunOver, selfVars
  <2> QED
    BY <2>2, <2>3, <2>4, <2>5
<1> QED
  BY <1>3, <1>4, <1>5 DEF ExcuseInv

\* Those under way when another begins are excused, and so is that one.
LEMMA ExcuseBegins ==
    ASSUME RunTypes, ExcuseInv, Spare(test) # {}, NEW run \in Nat, NEW auto \in BOOLEAN,
           test' = Began(run, auto), ttl' = ttl, redux' = redux
    PROVE  ExcuseInv'
<1>1. PICK next \in SelfTests :
         /\ test[next].pc = "unused" /\ test'[next].pc = "async" /\ ~test'[next].failed
         /\ test'[next].excused <=> InTest # {}
         /\ \A t \in SelfTests \ {next} :
               /\ test'[t].pc = test[t].pc /\ test'[t].failed = test[t].failed
               /\ test'[t].excused <=> test[t].excused \/ t \in InTest
  BY Begins
<1>2. InTest' = InTest \cup {next} /\ next \notin InTest /\ InTest \subseteq SelfTests
  BY <1>1 DEF InTest
<1>3. \A t, u \in InTest' : t # u => test'[t].excused
  BY <1>1, <1>2
<1>4. ASSUME NEW t \in SelfTests PROVE Sound(t, test', ttl', redux')
  <2>1. CASE t = next
    BY <1>1, <2>1 DEF Sound
  <2>2. CASE t # next
    BY <1>1, <2>2 DEF Sound, ExcuseInv
  <2> QED
    BY <2>1, <2>2
<1> QED
  BY <1>3, <1>4 DEF ExcuseInv

\* The self-test of a new process is alone, and has found nothing yet.
LEMMA ExcuseStarts ==
    ASSUME FileTypes, NEW how \in {"plain", "autorun", "profile"}, Started(how)
    PROVE  ExcuseInv'
<1> DEFINE first  == CHOOSE t \in SelfTests : TRUE
           unused == [t \in SelfTests |-> Unused]
           auto   == [Unused EXCEPT !.pc = "async", !.run = 1, !.auto = (how = "autorun")]
<1>1. \A t \in SelfTests : test'[t].pc \in {"unused", "async"} /\ ~test'[t].failed
  BY Starts
<1>2. test' \in {unused, [unused EXCEPT ![first] = auto]} /\ Unused.pc = "unused"
  BY DEF Started, Unused
<1> HIDE DEF first, auto
<1>3. \A t \in SelfTests : test'[t].pc # "unused" => t = first
  BY <1>2
<1> QED
  BY <1>1, <1>3 DEF ExcuseInv, Sound, InTest

\* Every failure stays excused through every step.
LEMMA ExcuseStep ==
    ASSUME TypeOK, ExcuseInv, [Next]_vars
    PROVE  ExcuseInv'
<1>0. RunTypes /\ FileTypes /\ ui \in Screen
  BY TypeParts DEF RunTypes
<1>1. CASE TapTest \/ Refresh
  <2>1. /\ ui.selfRun + 1 \in Nat /\ ui.selfRun + 2 \in Nat
        /\ FALSE \in BOOLEAN /\ (mode = "autorun") \in BOOLEAN
    BY <1>0, Screens
  <2>2. Spare(test) # {} /\ ttl' = ttl /\ redux' = redux
    BY <1>1 DEF TapTest, Refresh, selfVars
  <2>3. test' \in {Began(ui.selfRun + 1, FALSE), Began(ui.selfRun + 2, mode = "autorun")}
    BY <1>1 DEF TapTest, Refresh
  <2> QED
    BY <1>0, <2>1, <2>2, <2>3, ExcuseBegins
<1>2. CASE TapBenchmark \/ Profile \/ Write \/ Compact
  BY <1>2, ExcuseKept DEF TapBenchmark, Profile, Write, Compact, selfVars, runVars
<1>3. ASSUME NEW b \in Benchmarks, BenchStep(b)
      PROVE  ExcuseInv'
  <2>1. UNCHANGED <<test, ttl, redux>>
    BY <1>3 DEF BenchStep, Refused, Collect, MeasureLib, Drain, Compare, MeasureLatency,
       Diagnose, Store, Announce, selfVars
  <2> QED
    BY <2>1, ExcuseKept
<1>a. CASE UNCHANGED processVars
  BY <1>a, ExcuseKept DEF processVars, runVars, selfVars
<1>4. CASE OpenByHand \/ Launch
  BY <1>0, <1>4, <1>a, ExcuseStarts DEF OpenByHand, Launch
<1>5. CASE Terminate
  <2>1. CASE Stopped
    BY <2>1 DEF Stopped, Unused, ExcuseInv, Sound, InTest
  <2> QED
    BY <1>5, <1>a, <2>1 DEF Terminate
<1>6. CASE Begin \/ CopySnap \/ ReadPrevious \/ LaunchFails \/ Look \/ Ended \/ UNCHANGED vars
  BY <1>6, ExcuseKept DEF Begin, CopySnap, ReadPrevious, LaunchFails, Look, Ended, vars,
     appVars, runVars, selfVars
<1> QED
  BY <1>1, <1>2, <1>3, <1>4, <1>5, <1>6, ExcuseTestStep DEF Next, AppNext, Script

\* A self-test fails only when a timer was late or another was under way, however many are
\* started and whenever (the checks of runSelfTest over ttl_key and redux_contract:state).
THEOREM FailuresExcused == Spec => []FailsOnlyExcused
<1>1. Init => ExcuseInv
  BY DEF Init, AppInit, Unused, ExcuseInv, Sound, InTest
<1>2. TypeOK /\ ExcuseInv /\ [Next]_vars => ExcuseInv'
  BY ExcuseStep
<1>3. ExcuseInv => FailsOnlyExcused
  BY DEF ExcuseInv, Sound, FailsOnlyExcused
<1> QED
  BY <1>1, <1>2, <1>3, BenchTypeCorrect, PTL DEF Spec

-----------------------------------------------------------------------------
(***************************************************************************)
(* Benchmarks that share two stores.  Whoever measures has them to itself, *)
(* and of two libraries that take turns the first is a phase ahead.        *)
(***************************************************************************)
Mine(b) ==
    /\ open /\ scc.by = b /\ mmkv.by = b
    /\ bench[b].pc \in {"first", "drainSecond", "compare"} => scc = mmkv
    /\ bench[b].pc \in {"drainFirst", "second"} =>
          (IF bench[b].first = "scc" THEN scc.phase ELSE mmkv.phase) = bench[b].phase

MeasureInv == \A b \in Measuring : Mine(b)

\* Whoever goes on measuring, undisturbed, still measures its own stores.
LEMMA MeasureKept ==
    ASSUME MeasureInv, UNCHANGED benchVars,
           \A c \in Measuring' : c \in Measuring /\ bench'[c] = bench[c]
    PROVE  MeasureInv'
BY DEF MeasureInv, Mine, benchVars

\* Only one benchmark measures, and it alone when the stores are its own.
LEMMA MeasuresAlone ==
    ASSUME MeasureInv, NEW b \in Benchmarks, b \in Measuring \/ ~open
    PROVE  \A c \in Measuring : c = b
BY DEF MeasureInv, Mine

\* What b does, when nobody else measures, is all there is to look at.
LEMMA MeasureMine ==
    ASSUME NEW b \in Benchmarks, \A c \in Measuring : c = b,
           \A c \in Benchmarks \ {b} : bench'[c] = bench[c],
           b \in Measuring' => Mine(b)'
    PROVE  MeasureInv'
<1>1. \A c \in Measuring' : c = b
  BY DEF Measuring, InBench
<1> QED
  BY <1>1 DEF MeasureInv

\* A case that is over leaves the stores to the next, to be prepared or as they are.
LEMMA OnwardMine ==
    ASSUME TypeOK, NEW b \in Benchmarks, NEW inScc, NEW inMmkv, Onward(b, inScc, inMmkv),
           open, inScc.by = b, inScc = inMmkv
    PROVE  b \in Measuring' => Mine(b)'
<1>0. bench \in [Benchmarks -> BenchRun] /\ Len(Phases) \in Nat /\ bench[b] \in BenchRun
  BY TypeParts, Bounds DEF RunTypes
<1> DEFINE next == bench[b].phase + 1
<1>1. CASE next > Len(Phases)
  <2>1. bench' = [bench EXCEPT ![b].pc = "summary"]
    BY <1>1 DEF Onward
  <2>2. bench'[b].pc = "summary"
    BY <1>0, <2>1 DEF BenchRun
  <2> QED
    BY <2>2 DEF Measuring
<1>2. CASE ~(next > Len(Phases))
  <2>1. PICK lib \in Coin(next) : bench' = [bench EXCEPT ![b].pc = "first", ![b].phase = next,
                                                         ![b].first = lib]
    BY <1>2 DEF Onward
  <2> HIDE DEF next
  <2>2. bench'[b].pc = "first"
    BY <1>0, <2>1 DEF BenchRun
  <2>3. (open' = open /\ scc' = inScc /\ mmkv' = inMmkv) \/ Prepared(b)
    BY <1>2 DEF Onward, Left, next
  <2>4. CASE Prepared(b)
    <3>1. open' /\ scc' = [by |-> b, phase |-> 0] /\ mmkv' = [by |-> b, phase |-> 0]
      BY <2>4 DEF Prepared, Seeded
    <3> QED
      BY <2>2, <3>1 DEF Mine
  <2>5. CASE open' = open /\ scc' = inScc /\ mmkv' = inMmkv
    BY <2>2, <2>5 DEF Mine
  <2> QED
    BY <2>3, <2>4, <2>5
<1> QED
  BY <1>1, <1>2

\* A library that has its turn leaves data of its own benchmark: what the other is to leave
\* after the first's, and the same as the other after the second's.
LEMMA TurnMine ==
    ASSUME TypeOK, NEW b \in Benchmarks, Mine(b), bench[b].pc \in {"first", "second"}
    PROVE  /\ SccAfter(b).by = b /\ MmkvAfter(b).by = b
           /\ bench[b].pc = "first" =>
                 (IF bench[b].first = "scc" THEN SccAfter(b).phase ELSE MmkvAfter(b).phase)
                    = bench[b].phase
           /\ bench[b].pc = "second" => SccAfter(b) = MmkvAfter(b)
<1>0. scc \in Data /\ mmkv \in Data
  BY TypeParts DEF RunTypes, DataTypes
<1>1. scc = [by |-> b, phase |-> scc.phase] /\ mmkv = [by |-> b, phase |-> mmkv.phase]
  BY <1>0 DEF Mine, Data
<1>2. \A d \in {scc, mmkv} : Written(d, b) = [by |-> b, phase |-> bench[b].phase]
  BY <1>1 DEF Written
<1>3. CASE SccsTurn(b)
  <2>1. SccAfter(b) = [by |-> b, phase |-> bench[b].phase] /\ MmkvAfter(b) = mmkv
    BY <1>2, <1>3 DEF SccAfter, MmkvAfter
  <2>2. bench[b].pc = "second" => mmkv.phase = bench[b].phase
    BY <1>3 DEF SccsTurn, Mine
  <2> QED
    BY <1>1, <1>3, <2>1, <2>2 DEF SccsTurn
<1>4. CASE ~SccsTurn(b)
  <2>1. MmkvAfter(b) = [by |-> b, phase |-> bench[b].phase] /\ SccAfter(b) = scc
    BY <1>2, <1>4 DEF SccAfter, MmkvAfter
  <2>2. bench[b].pc = "second" => scc.phase = bench[b].phase
    BY <1>4 DEF SccsTurn, Mine
  <2> QED
    BY <1>1, <1>4, <2>1, <2>2 DEF SccsTurn
<1> QED
  BY <1>3, <1>4

\* A step of a benchmark leaves the one that measures with stores of its own.
LEMMA MeasureStep ==
    ASSUME TypeOK, MeasureInv, NEW b \in Benchmarks, BenchStep(b)
    PROVE  MeasureInv'
<1>0. /\ bench \in [Benchmarks -> BenchRun] /\ bench[b] \in BenchRun
      /\ scc \in Data /\ mmkv \in Data
  BY TypeParts DEF RunTypes, DataTypes
<1>1. \A c \in Benchmarks \ {b} : bench'[c] = bench[c]
  BY BenchSteps
<1>2. ASSUME bench' = Over(b)
      PROVE  b \notin Measuring'
  <2>1. bench'[b].pc = "ended"
    BY <1>0, <1>2 DEF Over, BenchRun
  <2> QED
    BY <2>1 DEF Measuring, InBench
<1>3. ASSUME UNCHANGED benchVars, b \notin Measuring'
      PROVE  MeasureInv'
  <2>1. \A c \in Measuring' : c \in Measuring /\ bench'[c] = bench[c]
    BY <1>1, <1>3 DEF Measuring, InBench
  <2> QED
    BY <1>3, <2>1, MeasureKept
<1>4. CASE Refused(b) \/ Announce(b)
  BY <1>2, <1>3, <1>4 DEF Refused, Announce
<1>5. CASE Store(b)
  <2>1. bench'[b].pc = "flush"
    BY <1>0, <1>5 DEF Store, BenchRun
  <2> QED
    BY <1>3, <1>5, <2>1 DEF Store, Measuring
<1>6. CASE Collect(b)
  <2>1. ~open /\ Prepared(b)
    BY <1>6 DEF Collect
  <2>2. PICK lib \in Coin(1) : bench' = [bench EXCEPT ![b].pc = "first", ![b].first = lib]
    BY <1>6 DEF Collect
  <2>3. bench'[b].pc = "first"
    BY <1>0, <2>2 DEF BenchRun
  <2>4. open' /\ scc' = [by |-> b, phase |-> 0] /\ mmkv' = [by |-> b, phase |-> 0]
    BY <2>1 DEF Prepared, Seeded
  <2>5. Mine(b)'
    BY <2>3, <2>4 DEF Mine
  <2> QED
    BY <1>1, <2>1, <2>5, MeasuresAlone, MeasureMine
<1>7. ASSUME b \in Measuring, b \in Measuring' => Mine(b)'
      PROVE  MeasureInv'
  BY <1>1, <1>7, MeasuresAlone, MeasureMine
<1>8. CASE MeasureLib(b)
  <2>1. bench[b].pc \in {"first", "second"}
    BY <1>8 DEF MeasureLib
  <2>2. b \in Measuring /\ Mine(b)
    BY <2>1 DEF Measuring, InBench, MeasureInv
  <2>3. /\ bench'[b].pc = (IF bench[b].pc = "first" THEN "drainFirst" ELSE "drainSecond")
        /\ bench'[b].phase = bench[b].phase /\ bench'[b].first = bench[b].first
    BY <1>0, <1>8 DEF MeasureLib, BenchRun
  <2>4. open' = open /\ scc' = SccAfter(b) /\ mmkv' = MmkvAfter(b)
    BY <1>8 DEF MeasureLib, Left
  <2>5. Mine(b)'
    BY <2>1, <2>2, <2>3, <2>4, TurnMine DEF Mine
  <2> QED
    BY <1>7, <2>2, <2>5
<1>9. CASE Drain(b)
  <2>1. bench[b].pc \in {"drainFirst", "drainSecond"}
    BY <1>9 DEF Drain
  <2>2. b \in Measuring /\ Mine(b)
    BY <2>1 DEF Measuring, InBench, MeasureInv
  <2>3. CASE Throws(b, scc, mmkv)
    BY <1>2, <1>7, <2>2, <2>3 DEF Throws
  <2>4. CASE ~Throws(b, scc, mmkv)
    <3>1. /\ bench' = [bench EXCEPT ![b].pc = IF @ = "drainFirst" THEN "second" ELSE "compare"]
          /\ UNCHANGED benchVars
      BY <1>9, <2>4 DEF Drain
    <3>2. /\ bench'[b].pc = (IF bench[b].pc = "drainFirst" THEN "second" ELSE "compare")
          /\ bench'[b].phase = bench[b].phase /\ bench'[b].first = bench[b].first
      BY <1>0, <3>1 DEF BenchRun
    <3>3. Mine(b)'
      BY <2>1, <2>2, <3>1, <3>2 DEF Mine, benchVars
    <3> QED
      BY <1>7, <2>2, <3>3
  <2> QED
    BY <2>3, <2>4
<1>10. ASSUME NEW inScc, NEW inMmkv, NEW agree, b \in Measuring, open, inScc.by = b,
              inScc = inMmkv, Concluded(b, agree, inScc, inMmkv)
       PROVE  MeasureInv'
  <2>1. CASE Throws(b, inScc, inMmkv)
    BY <1>2, <1>7, <1>10, <2>1 DEF Throws
  <2>2. CASE Onward(b, inScc, inMmkv)
    BY <1>7, <1>10, <2>2, OnwardMine
  <2> QED
    BY <1>10, <2>1, <2>2 DEF Concluded
<1>11. CASE Compare(b) \/ Diagnose(b)
  <2>1. bench[b].pc \in {"compare", "first"} /\ \E agree : Concluded(b, agree, scc, mmkv)
    BY <1>11 DEF Compare, Diagnose
  <2>2. b \in Measuring /\ open /\ scc.by = b /\ scc = mmkv
    BY <2>1 DEF Measuring, InBench, MeasureInv, Mine
  <2> QED
    BY <1>10, <2>1, <2>2
<1>12. CASE MeasureLatency(b)
  <2>1. bench[b].pc \in {"first", "second"}
    BY <1>12 DEF MeasureLatency
  <2>2. b \in Measuring /\ Mine(b) /\ open
    BY <2>1 DEF Measuring, InBench, MeasureInv, Mine
  <2>3. CASE bench[b].pc = "second" /\ \E agree : Concluded(b, agree, SccAfter(b), MmkvAfter(b))
    BY <1>10, <2>1, <2>2, <2>3, TurnMine
  <2>4. CASE /\ Left(SccAfter(b), MmkvAfter(b)) /\ UNCHANGED <<ui, open>>
             /\ bench' = [bench EXCEPT ![b].pc = IF @ = "first" THEN "second" ELSE "first"]
    <3>1. /\ bench'[b].pc = (IF bench[b].pc = "first" THEN "second" ELSE "first")
          /\ bench'[b].phase = bench[b].phase /\ bench'[b].first = bench[b].first
      BY <1>0, <2>4 DEF BenchRun
    <3>2. open' = open /\ scc' = SccAfter(b) /\ mmkv' = MmkvAfter(b)
      BY <2>4 DEF Left
    <3>3. Mine(b)'
      BY <2>1, <2>2, <3>1, <3>2, TurnMine DEF Mine
    <3> QED
      BY <1>7, <2>2, <3>3
  <2> QED
    BY <1>12, <2>3, <2>4 DEF MeasureLatency
<1> QED
  BY <1>4, <1>5, <1>6, <1>8, <1>9, <1>11, <1>12 DEF BenchStep

\* A benchmark that begins does not measure yet, and a process that starts has none.
LEMMA MeasureOthers ==
    ASSUME TypeOK, MeasureInv, [Next]_vars, \A b \in Benchmarks : ~BenchStep(b)
    PROVE  MeasureInv'
<1>0. RunTypes /\ FileTypes /\ bench \in [Benchmarks -> BenchRun] /\ ui \in Screen
  BY TypeParts DEF RunTypes
<1>1. ASSUME UNCHANGED <<bench, benchVars>>
      PROVE  MeasureInv'
  BY <1>1, MeasureKept DEF Measuring, InBench
<1>2. ASSUME Spare(bench) # {}, UNCHANGED benchVars,
             bench' = Framed(CHOOSE b \in Spare(bench) : TRUE, ui.benchRun + 1)
      PROVE  MeasureInv'
  <2>1. PICK b \in Benchmarks, r \in BenchRun : r.pc = "frame" /\ bench' = [bench EXCEPT ![b] = r]
    BY <1>0, <1>2, Screens, Frames
  <2>2. \A c \in Measuring' : c \in Measuring /\ bench'[c] = bench[c]
    BY <1>0, <2>1 DEF Measuring, InBench
  <2> QED
    BY <1>2, <2>2, MeasureKept
<1>3. ASSUME bench' = [b \in Benchmarks |-> Unopened]
      PROVE  MeasureInv'
  BY <1>3 DEF Unopened, MeasureInv, Measuring, InBench
<1>4. CASE TapTest \/ Refresh \/ Profile \/ Write \/ Compact
  BY <1>1, <1>4 DEF TapTest, Refresh, Profile, Write, Compact, runVars
<1>5. CASE TapBenchmark
  BY <1>2, <1>5 DEF TapBenchmark
<1>6. ASSUME NEW t \in SelfTests, TestStep(t)
      PROVE  MeasureInv'
  BY <1>1, <1>2, <1>6 DEF TestStep, AsyncChecks, CrossHandle, TtlOver, Observed, ReduxGet,
     ReduxRemove, ReduxGone, Evicted, TestReturns, AutorunOver, restOfTest
<1>a. CASE UNCHANGED processVars
  BY <1>1, <1>a DEF processVars, runVars
<1>7. CASE OpenByHand \/ Launch
  BY <1>0, <1>3, <1>7, <1>a, Starts DEF OpenByHand, Launch
<1>8. CASE Terminate
  BY <1>3, <1>8, <1>a DEF Terminate, Stopped
<1>9. CASE Begin \/ CopySnap \/ ReadPrevious \/ LaunchFails \/ Look \/ Ended \/ UNCHANGED vars
  BY <1>1, <1>9 DEF Begin, CopySnap, ReadPrevious, LaunchFails, Look, Ended, vars, appVars,
     runVars
<1> QED
  BY <1>4, <1>5, <1>6, <1>7, <1>8, <1>9 DEF Next, AppNext, Script

\* Whoever measures finds the stores open and with its own data, SCC and MMKV alike, in every
\* phase of every benchmark, however many are started (prepareStores, executeBenchmark).
THEOREM MeasuresUndisturbed == Spec => []Undisturbed
<1>1. Init => MeasureInv
  BY DEF Init, AppInit, Unopened, MeasureInv, Measuring, InBench
<1>2. TypeOK /\ MeasureInv /\ [Next]_vars => MeasureInv'
  BY MeasureStep, MeasureOthers
<1>3. MeasureInv => Undisturbed
  BY DEF MeasureInv, Mine, Undisturbed
<1> QED
  BY <1>1, <1>2, <1>3, BenchTypeCorrect, PTL DEF Spec

-----------------------------------------------------------------------------
(***************************************************************************)
(* The report.  Newest is the one that replay finds in the files.          *)
(***************************************************************************)
Newest == Replayed(snap, wal)

FileInv ==
    /\ announced <= Newest /\ Newest <= Len(made) /\ snap <= Newest
    /\ up => /\ mem = IF buffer # 0 THEN buffer ELSE Newest
             /\ Newest <= mem /\ mem <= Len(made)

\* Reports come from the process that runs, and reach the files through its memory.
FileMove ==
    /\ Newest <= Newest' /\ snap <= snap'
    /\ Newest' = Newest \/ (up /\ Newest' = mem)
    /\ made' = made \/ made' = Append(made, launch)
    /\ launch' \in {launch, launch + 1}
    /\ fresh' => fresh
    /\ up' => \/ up /\ mem' = mem /\ made' = made /\ (launch' = launch \/ ~fresh')
              \/ mem' = Newest /\ Newest' = Newest /\ made' = made
              \/ /\ mem' = Len(made') /\ made' = Append(made, launch)
                 /\ Newest' = Newest /\ launch' = launch

\* The numbers this section compares are numbers.
LEMMA FileTyped ==
    ASSUME TypeOK
    PROVE  /\ mem \in Nat /\ buffer \in Nat /\ wal \in Nat /\ snap \in Nat /\ announced \in Nat
           /\ Newest \in Nat /\ Len(made) \in Nat /\ launch \in Nat
           /\ made \in Seq(0..Launches) /\ launch \in 0..Launches
           /\ \A r \in 1..Len(made) : made[r] \in Nat
<1>1. FileTypes
  BY TypeParts
<1>2. Reports \subseteq Nat /\ 0..Launches \subseteq Nat
  BY Bounds DEF Reports
<1>3. \A r \in 1..Len(made) : made[r] \in 0..Launches
  BY <1>1, ElementOfSeq DEF FileTypes
<1> QED
  BY <1>1, <1>2, <1>3 DEF FileTypes, Newest, Replayed

\* The files, the process and the reports made so far stay as they are.
LEMMA FilesKept ==
    ASSUME TypeOK, FileInv, UNCHANGED <<storeVars, made, announced>>, up' => up,
           fresh' => fresh, launch' = launch \/ (launch' = launch + 1 /\ ~fresh')
    PROVE  FileInv' /\ FileMove
<1>1. UNCHANGED <<mem, buffer, wal, snap, Newest>>
  BY DEF storeVars, fileVars, Newest
<1> QED
  BY <1>1, FileTyped DEF FileInv, FileMove

\* So do they when a process ends or another starts, which reads the files.
LEMMA FilesOutlive ==
    ASSUME TypeOK, FileInv, UNCHANGED <<fileVars, made, announced>>,
           launch' \in {launch, launch + 1}, fresh' => fresh,
           up' => mem' = Newest /\ buffer' = 0
    PROVE  FileInv' /\ FileMove
<1>1. UNCHANGED <<wal, snap, Newest>>
  BY DEF fileVars, Newest
<1> QED
  BY <1>1, FileTyped DEF FileInv, FileMove

\* A benchmark that makes, stores and announces its report keeps the files in step with it.
LEMMA FileBenchStep ==
    ASSUME TypeOK, FileInv, NEW b \in Benchmarks, BenchStep(b), fresh' = fresh
    PROVE  FileInv' /\ FileMove
<1>0. /\ mem \in Nat /\ buffer \in Nat /\ wal \in Nat /\ snap \in Nat /\ announced \in Nat
      /\ Newest \in Nat /\ Len(made) \in Nat /\ made \in Seq(0..Launches) /\ launch \in 0..Launches
  BY FileTyped
<1>1. CASE Store(b)
  <2>1. /\ up /\ up' = up /\ UNCHANGED <<wal, snap, announced, launch>>
        /\ made' = Append(made, launch) /\ mem' = Len(made) + 1 /\ buffer' = Len(made) + 1
    BY <1>1 DEF Store, JsFree, fileVars
  <2>2. Len(made') = Len(made) + 1 /\ Newest' = Newest
    BY <1>0, <2>1, AppendProperties DEF Newest
  <2> HIDE DEF Newest
  <2> QED
    BY <1>0, <2>1, <2>2 DEF FileInv, FileMove
<1>2. CASE Announce(b)
  <2>1. /\ up /\ up' = up /\ UNCHANGED <<mem, snap, made, launch>>
        /\ wal' = Replayed(wal, buffer) /\ buffer' = 0 /\ announced' = mem
    BY <1>2 DEF Announce
  <2>2. Newest' = mem
    BY <2>1 DEF FileInv, Newest, Replayed
  <2> HIDE DEF Newest
  <2> QED
    BY <1>0, <2>1, <2>2 DEF FileInv, FileMove
<1>3. CASE ~Store(b) /\ ~Announce(b)
  <2>1. UNCHANGED <<storeVars, made, announced, launch, up>>
    BY <1>3 DEF BenchStep, Refused, Collect, MeasureLib, Drain, Compare, MeasureLatency,
       Diagnose
  <2> QED
    BY <2>1, FilesKept
<1> QED
  BY <1>1, <1>2, <1>3

\* What was announced is in the files, after every step.
LEMMA FileStep ==
    ASSUME TypeOK, FileInv, [Next]_vars
    PROVE  FileInv' /\ FileMove
<1>0. /\ mem \in Nat /\ buffer \in Nat /\ wal \in Nat /\ snap \in Nat /\ announced \in Nat
      /\ Newest \in Nat /\ Len(made) \in Nat /\ launch \in Nat /\ FileTypes
  BY FileTyped, TypeParts
<1>a. AppNext /\ UNCHANGED scriptVars => fresh' = fresh
  BY DEF scriptVars
<1>1. CASE (TapTest \/ TapBenchmark \/ Refresh \/ Profile) /\ fresh' = fresh
  <2>1. UNCHANGED <<storeVars, made, announced, launch, up>>
    BY <1>1 DEF TapTest, TapBenchmark, Refresh, Profile
  <2> QED
    BY <1>1, <2>1, FilesKept
<1>2. ASSUME NEW t \in SelfTests, TestStep(t), fresh' = fresh
      PROVE  FileInv' /\ FileMove
  <2>1. UNCHANGED <<storeVars, made, announced, launch, up>>
    BY <1>2 DEF TestStep, AsyncChecks, CrossHandle, TtlOver, Observed, ReduxGet,
       ReduxRemove, ReduxGone, Evicted, TestReturns, AutorunOver, restOfTest
  <2> QED
    BY <1>2, <2>1, FilesKept
<1>3. CASE Write /\ fresh' = fresh
  <2>1. /\ up /\ up' = up /\ buffer # 0 /\ wal' = buffer /\ buffer' = 0
        /\ UNCHANGED <<mem, snap, made, launch, announced, fresh>>
    BY <1>3 DEF Write
  <2>2. Newest' = mem
    BY <2>1 DEF FileInv, Newest, Replayed
  <2> HIDE DEF Newest
  <2> QED
    BY <1>0, <2>1, <2>2 DEF FileInv, FileMove
<1>4. CASE Compact /\ fresh' = fresh
  <2>1. /\ up /\ up' = up /\ snap' = mem /\ wal' = 0
        /\ UNCHANGED <<mem, buffer, made, launch, announced, fresh>>
    BY <1>4 DEF Compact
  <2>2. Newest' = mem
    BY <2>1 DEF FileInv, Newest, Replayed
  <2> HIDE DEF Newest
  <2> QED
    BY <1>0, <2>1, <2>2 DEF FileInv, FileMove
<1>5. CASE OpenByHand
  <2>1. PICK how \in {"plain", "profile"} : Started(how)
    BY <1>5 DEF OpenByHand
  <2>2. mem' = Newest /\ buffer' = 0
    BY <1>0, <2>1, Starts DEF Newest
  <2> QED
    BY <1>5, <2>2, FilesOutlive DEF OpenByHand, scriptVars
<1>6. CASE Launch
  <2>1. /\ launch' = launch + 1 /\ UNCHANGED <<fileVars, made, announced>>
        /\ fresh' = (fresh /\ ~(simulator /\ up))
    BY <1>6 DEF Launch
  <2>2. CASE Started("autorun")
    <3>1. mem' = Newest /\ buffer' = 0
      BY <1>0, <2>2, Starts DEF Newest
    <3> QED
      BY <2>1, <3>1, FilesOutlive
  <2>3. CASE simulator /\ up /\ UNCHANGED processVars
    BY <2>1, <2>3, FilesKept DEF processVars, storeVars
  <2> QED
    BY <1>6, <2>2, <2>3 DEF Launch
<1>7. CASE Terminate
  <2>1. UNCHANGED <<launch, fileVars, made, announced, fresh>>
    BY <1>7 DEF Terminate
  <2>2. CASE Stopped
    BY <2>1, <2>2, Stops, FilesOutlive
  <2>3. CASE UNCHANGED processVars
    BY <2>1, <2>3, FilesKept DEF processVars, storeVars
  <2> QED
    BY <1>7, <2>2, <2>3 DEF Terminate
<1>8. CASE Begin \/ CopySnap \/ ReadPrevious \/ LaunchFails \/ Look \/ Ended \/ UNCHANGED vars
  BY <1>8, FilesKept DEF Begin, CopySnap, ReadPrevious, LaunchFails, Look, Ended, vars, appVars,
     scriptVars
<1>9. CASE AppNext /\ UNCHANGED scriptVars
  <2>1. fresh' = fresh
    BY <1>9 DEF scriptVars
  <2> QED
    BY <1>1, <1>2, <1>3, <1>4, <1>9, <2>1, FileBenchStep DEF AppNext
<1> QED
  BY <1>5, <1>6, <1>7, <1>8, <1>9 DEF Next, Script

\* A report that was announced survives the process, whenever it ends and whenever its
\* writer writes and compacts (the flush in executeBenchmark).
THEOREM AnnouncedKept == Spec => []ReportKept
<1>1. Init => FileInv
  BY EmptySeq DEF Init, AppInit, FileInv, Newest, Replayed
<1>2. TypeOK /\ FileInv /\ [Next]_vars => FileInv'
  BY FileStep
<1>3. FileInv => ReportKept
  BY DEF FileInv, Newest, ReportKept
<1> QED
  BY <1>1, <1>2, <1>3, BenchTypeCorrect, PTL DEF Spec

-----------------------------------------------------------------------------
(***************************************************************************)
(* What the script collects.  A report made in one launch may be lost with *)
(* the process; only one that is in the files, or made later, is found     *)
(* afterwards, as long as each launch begins a process.                    *)
(***************************************************************************)
Counted ==
    /\ Len(collected) <= launch
    /\ spc \in {"wait", "waitWal"} => launch = Len(collected) + 1
    /\ spc \notin {"wait", "waitWal", "failed"} => launch = Len(collected)
    /\ spc \in {"begin", "previous", "previousWal"} => Len(collected) = 0

\* Since a launch: newer reports than p are of launch n, or a later one.
NewerBy(p, n) == /\ Newest > p => made[Newest] >= n
                 /\ up /\ mem > p => made[mem] >= n

MadeInv ==
    /\ \A r \in 1..Len(made) : made[r] <= launch
    /\ fresh => NewerBy(Newest, launch)
    /\ copied <= snap /\ previous <= Newest
    /\ fresh /\ Len(collected) > 0 /\ ~collected[Len(collected)].torn =>
          NewerBy(previous, Len(collected))
    /\ \A i \in 1..Len(collected) : collected[i].report \in 1..Len(made)

\* What is newer stays so, whatever is stored and wherever it is copied.
LEMMA NewerStays ==
    ASSUME TypeOK, FileInv, FileMove, NEW p \in Nat, NEW n \in Nat, n <= launch, NewerBy(p, n)
    PROVE  NewerBy(p, n)'
<1>0. /\ Newest \in Nat /\ Len(made) \in Nat /\ launch \in Nat /\ mem \in Nat
      /\ made \in Seq(0..Launches) /\ launch \in 0..Launches
      /\ Newest <= Len(made) /\ (up => mem <= Len(made))
  BY FileTyped DEF FileInv
<1> HIDE DEF Newest
<1>1. \A r \in 1..Len(made) : made'[r] = made[r]
  BY <1>0, AppendProperties DEF FileMove
<1>2. made' = Append(made, launch) => Len(made') = Len(made) + 1 /\ made'[Len(made) + 1] = launch
  BY <1>0, AppendProperties
<1>3. Newest' > p => made'[Newest'] >= n
  BY <1>0, <1>1 DEF FileMove, NewerBy
<1>4. up' /\ mem' > p => made'[mem'] >= n
  BY <1>0, <1>1, <1>2 DEF FileMove, NewerBy
<1> QED
  BY <1>3, <1>4 DEF NewerBy

ReportInv == FileInv /\ Counted /\ MadeInv /\ NewReport

\* The numbers the script compares are numbers.
LEMMA CollectedTyped ==
    ASSUME TypeOK
    PROVE  /\ Len(collected) \in Nat /\ previous \in Nat /\ copied \in Nat
           /\ collected \in Seq(Collection)
           /\ \A i \in 1..Len(collected) : collected[i].report \in Nat
<1>1. ScriptTypes
  BY TypeParts
<1>2. Reports \subseteq Nat
  BY Bounds DEF Reports
<1>3. \A i \in 1..Len(collected) :
         collected[i] \in Collection
  BY <1>1, ElementOfSeq DEF ScriptTypes
<1>4. \A i \in 1..Len(collected) : collected[i].report \in Nat
  BY <1>2, <1>3 DEF Collection
<1>5. previous \in Nat /\ copied \in Nat
  BY <1>1, <1>2 DEF ScriptTypes
<1>6. collected \in Seq(Collection)
  BY <1>1 DEF ScriptTypes
<1>7. Len(collected) \in Nat
  BY <1>6, LenProperties
<1> QED
  BY <1>4, <1>5, <1>6, <1>7

\* A report once made keeps its number and its launch.
LEMMA MadeGrows ==
    ASSUME TypeOK, FileMove
    PROVE  /\ Len(made) <= Len(made') /\ Len(made') \in Nat
           /\ \A r \in 1..Len(made) : made'[r] = made[r]
           /\ \A r \in 1..Len(made') : r \in 1..Len(made) \/ made'[r] = launch
<1>1. Len(made) \in Nat /\ made \in Seq(0..Launches) /\ launch \in 0..Launches
  BY FileTyped
<1>2. CASE made' = made
  BY <1>1, <1>2
<1>3. CASE made' = Append(made, launch)
  <2>1. /\ Len(made') = Len(made) + 1 /\ made'[Len(made) + 1] = launch
        /\ \A r \in 1..Len(made) : made'[r] = made[r]
    BY <1>1, <1>3, AppendProperties
  <2> QED
    BY <1>1, <2>1
<1> QED
  BY <1>2, <1>3 DEF FileMove

\* The part of it that is about the files, whatever the script does.
LEMMA MadeMoves ==
    ASSUME TypeOK, FileInv, MadeInv, FileInv', FileMove
    PROVE  (\A r \in 1..Len(made) : made[r] <= launch)' /\ (fresh => NewerBy(Newest, launch))'
<1>0. /\ Newest \in Nat /\ Len(made) \in Nat /\ launch \in Nat /\ mem \in Nat
      /\ made \in Seq(0..Launches) /\ \A r \in 1..Len(made) : made[r] \in Nat
      /\ Newest <= Len(made) /\ (up => mem <= Len(made))
  BY FileTyped DEF FileInv
<1>1. /\ Len(made) <= Len(made') /\ Len(made') \in Nat
      /\ \A r \in 1..Len(made) : made'[r] = made[r]
      /\ \A r \in 1..Len(made') : r \in 1..Len(made) \/ made'[r] = launch
  BY MadeGrows
<1> HIDE DEF Newest
<1>2. \A r \in 1..Len(made') : made'[r] <= launch'
  BY <1>0, <1>1 DEF FileMove, MadeInv
<1>3. Newest' \in Nat /\ Newest <= Newest'
  BY <1>0 DEF FileMove
<1>4. ASSUME fresh', up', mem' > Newest' PROVE made'[mem'] >= launch'
  <2>1. CASE up /\ mem' = mem /\ made' = made /\ launch' = launch
    BY <1>0, <1>3, <1>4, <2>1 DEF MadeInv, NewerBy, FileMove
  <2>2. CASE mem' = Newest /\ Newest' = Newest
    BY <1>0, <1>4, <2>2
  <2>3. CASE mem' = Len(made') /\ made' = Append(made, launch) /\ launch' = launch
    <3>1. Len(made') = Len(made) + 1 /\ made'[Len(made) + 1] = launch
      BY <1>0, <2>3, AppendProperties, FileTyped
    <3> QED
      BY <1>0, <2>3, <3>1
  <2> QED
    BY <1>4, <2>1, <2>2, <2>3 DEF FileMove
<1> QED
  BY <1>2, <1>3, <1>4 DEF NewerBy

\* The part about what is collected, while the script collects nothing.
LEMMA CollectedStays ==
    ASSUME TypeOK, ReportInv, FileInv', FileMove, UNCHANGED collected
    PROVE  /\ NewReport'
           /\ (\A i \in 1..Len(collected) : collected[i].report \in 1..Len(made))'
<1>0. Len(collected) \in Nat /\ Len(made) \in Nat
  BY CollectedTyped, FileTyped
<1>1. /\ Len(made) <= Len(made') /\ Len(made') \in Nat
      /\ \A r \in 1..Len(made) : made'[r] = made[r]
  BY MadeGrows
<1>2. \A i \in 1..Len(collected) :
         collected[i].report \in 1..Len(made) /\ collected[i].report \in 1..Len(made')
  BY <1>0, <1>1 DEF ReportInv, MadeInv
<1>3. NewReport'
  BY <1>1, <1>2 DEF ReportInv, NewReport
<1> QED
  BY <1>2, <1>3

\* What the script knows stays true while it collects nothing.
LEMMA QuietScript ==
    ASSUME TypeOK, snap' \in Nat, ReportInv, FileInv', FileMove,
           UNCHANGED <<collected, previous, copied>>
    PROVE  MadeInv' /\ NewReport'
<1>0. /\ Len(collected) \in Nat /\ previous \in Nat /\ copied \in Nat
      /\ Newest \in Nat /\ snap \in Nat /\ launch \in Nat /\ mem \in Nat
  BY CollectedTyped, FileTyped
<1>1. (\A r \in 1..Len(made) : made[r] <= launch)' /\ (fresh => NewerBy(Newest, launch))'
  BY MadeMoves DEF ReportInv
<1>2. /\ NewReport'
      /\ (\A i \in 1..Len(collected) : collected[i].report \in 1..Len(made))'
  BY CollectedStays
<1>3. Newest' \in Nat /\ Newest <= Newest' /\ snap <= snap'
  BY <1>0 DEF FileMove
<1>4. copied <= snap' /\ previous <= Newest'
  BY <1>0, <1>3 DEF ReportInv, MadeInv
<1>5. (fresh /\ Len(collected) > 0 /\ ~collected[Len(collected)].torn =>
          NewerBy(previous, Len(collected)))'
  <2>1. Len(collected) <= launch
    BY DEF ReportInv, Counted
  <2>2. NewerBy(previous, Len(collected)) =>
           /\ Newest' > previous => made'[Newest'] >= Len(collected)
           /\ up' /\ mem' > previous => made'[mem'] >= Len(collected)
    BY <1>0, <2>1, NewerStays DEF ReportInv, NewerBy
  <2> QED
    BY <2>2 DEF ReportInv, MadeInv, NewerBy, FileMove
<1> QED
  BY <1>1, <1>2, <1>4, <1>5 DEF MadeInv

\* A copy of the files holds nothing newer than they do.
LEMMA ReadsKnown ==
    ASSUME TypeOK, FileInv, copied <= snap, NEW got \in ReadReport
    PROVE  got \in Nat /\ got <= Newest /\ (copied = snap /\ got # 0 => got = Newest)
<1>0. wal \in Nat /\ snap \in Nat /\ copied \in Nat /\ Newest \in Nat
  BY FileTyped, CollectedTyped
<1>1. got \in {0, Replayed(copied, wal)}
  BY DEF ReadReport
<1> QED
  BY <1>0, <1>1 DEF Replayed, Newest

\* What the script collects is new, unless its copy of the files was torn.
LEMMA CollectStep ==
    ASSUME TypeOK, ReportInv, UNCHANGED <<appVars, copied, fresh>>, spc = "waitWal",
           NEW got \in ReadReport, NewerReport(got), Collected(got)
    PROVE  Counted' /\ MadeInv' /\ NewReport'
<1>0. /\ Len(collected) \in Nat /\ previous \in Nat /\ copied \in Nat
      /\ collected \in Seq(Collection)
      /\ \A i \in 1..Len(collected) : collected[i].report \in Nat
      /\ Newest \in Nat /\ launch \in Nat /\ Len(made) \in Nat /\ mem \in Nat
      /\ made \in Seq(0..Launches) /\ launch \in 0..Launches
  BY CollectedTyped, FileTyped
<1>1. got \in Nat /\ got <= Newest /\ (copied = snap /\ got # 0 => got = Newest)
  BY ReadsKnown DEF ReportInv, MadeInv
<1>2. got # 0 /\ got # previous /\ previous <= Newest /\ launch = Len(collected) + 1
  BY DEF NewerReport, ReportInv, MadeInv, Counted
<1>3. UNCHANGED <<Newest, up, mem, made, launch, snap>>
  BY DEF appVars, storeVars, fileVars, Newest
<1> DEFINE n == Len(collected)
           c == [report |-> got, since |-> previous, torn |-> copied # snap,
                fresh |-> fresh]
<1>4. c \in Collection
  <2>1. got \in Reports /\ previous \in Reports /\ fresh \in BOOLEAN
    BY ReportsRead, TypeParts DEF ScriptTypes
  <2> QED
    BY <2>1 DEF Collection
<1>5. collected' = Append(collected, c) /\ previous' = got /\ spc' = "terminate"
  BY DEF Collected
<1> HIDE DEF c, Newest
<1>6. /\ Len(collected') = n + 1 /\ collected'[n + 1] = c
      /\ \A i \in 1..n : collected'[i] = collected[i]
  BY <1>0, <1>4, <1>5, AppendProperties
<1>7. Counted'
  BY <1>0, <1>2, <1>3, <1>5, <1>6 DEF Counted
<1>8. got \in 1..Len(made)
  BY <1>0, <1>1, <1>2 DEF ReportInv, FileInv
<1>9. /\ c.report = got /\ c.since = previous /\ (c.torn <=> copied # snap)
      /\ (c.fresh <=> fresh)
  BY DEF c
<1>10. ~c.torn => got = Newest /\ Newest > previous
  BY <1>0, <1>1, <1>2, <1>9
<1>11. made[got] \in Nat /\ made[got] <= n + 1
  <2>1. \A r \in 1..Len(made) : made[r] \in Nat /\ made[r] <= launch
    BY FileTyped DEF ReportInv, MadeInv
  <2> QED
    BY <1>2, <1>8, <2>1
<1>12. NewReport'
  <2> SUFFICES ASSUME NEW i \in 1..(n + 1), ~collected'[i].torn
               PROVE  /\ collected'[i].report > collected'[i].since
                      /\ \/ made[collected'[i].report] \in {i - 1, i}
                         \/ i > 1 /\ collected'[i - 1].torn
                         \/ ~collected'[i].fresh
    BY <1>3, <1>6 DEF NewReport
  <2>1. CASE i <= n
    <3>1. i \in 1..n /\ collected'[i] = collected[i]
          /\ (i > 1 => i - 1 \in 1..n /\ collected'[i - 1] = collected[i - 1])
      BY <1>0, <1>6, <2>1
    <3> QED
      BY <3>1 DEF ReportInv, NewReport
  <2>2. CASE i = n + 1
    <3>1. ~c.torn /\ collected'[i] = c
      BY <1>6, <2>2
    <3>2. n = 0 => made[got] \in {0, 1}
      BY <1>0, <1>11
    <3>3. fresh /\ n > 0 /\ ~collected[n].torn => made[got] >= n
      BY <1>10, <3>1 DEF ReportInv, MadeInv, NewerBy
    <3>4. n > 0 => i > 1 /\ collected'[i - 1] = collected[n]
      BY <1>0, <1>6, <2>2
    <3> QED
      BY <1>0, <1>9, <1>10, <1>11, <2>2, <3>1, <3>2, <3>3, <3>4
  <2> QED
    BY <1>0, <2>1, <2>2
<1>13. MadeInv'
  <2>1. \A r \in 1..Len(made) : made[r] <= launch
    BY DEF ReportInv, MadeInv
  <2>2. (fresh => NewerBy(Newest, launch))'
    BY <1>3 DEF ReportInv, MadeInv, NewerBy
  <2>3. copied <= snap /\ got <= Newest
    BY <1>1 DEF ReportInv, MadeInv
  <2>4. fresh /\ ~c.torn => NewerBy(previous, Len(collected))'
    <3> SUFFICES ASSUME fresh, ~c.torn PROVE NewerBy(previous, Len(collected))'
      OBVIOUS
    <3>1. got = Newest /\ Len(collected') = launch
      BY <1>0, <1>2, <1>6, <1>10
    <3> QED
      BY <1>0, <1>3, <1>5, <3>1 DEF ReportInv, MadeInv, NewerBy
  <2>5. \A i \in 1..(n + 1) : collected'[i].report \in 1..Len(made)
    <3>1. \A i \in 1..n : collected'[i].report \in 1..Len(made)
      BY <1>6 DEF ReportInv, MadeInv
    <3>2. collected'[n + 1].report \in 1..Len(made)
      BY <1>6, <1>8, <1>9
    <3>3. \A i \in 1..(n + 1) : i \in 1..n \/ i = n + 1
      BY <1>0
    <3> QED
      BY <3>1, <3>2, <3>3
  <2> QED
    BY <1>3, <1>5, <1>6, <2>1, <2>2, <2>3, <2>4, <2>5 DEF MadeInv
<1> QED
  BY <1>7, <1>12, <1>13

\* The script's picture of the reports survives every step.
LEMMA ReportStep ==
    ASSUME TypeOK, TypeOK', ReportInv, [Next]_vars
    PROVE  ReportInv'
<1>0. /\ Len(collected) \in Nat /\ launch \in Nat /\ previous \in Nat /\ copied \in Nat
      /\ snap \in Nat /\ Newest \in Nat
  BY CollectedTyped, FileTyped
<1>1. FileInv' /\ FileMove
  BY FileStep DEF ReportInv
<1>2. snap' \in Nat
  BY Bounds DEF TypeOK, Reports
<1>3. UNCHANGED <<collected, previous, copied>> => MadeInv' /\ NewReport'
  BY <1>1, <1>2, QuietScript
<1>4. CASE (AppNext \/ OpenByHand) /\ UNCHANGED scriptVars
  <2>1. launch' = launch
    BY <1>4 DEF OpenByHand, AppNext, TapTest, TapBenchmark, Refresh, Profile, Write, Compact,
       TestStep, BenchStep, AsyncChecks, CrossHandle, TtlOver, Observed, ReduxGet, ReduxRemove,
       ReduxGone, Evicted, TestReturns, AutorunOver, restOfTest, Refused, Collect, MeasureLib,
       Drain, Compare, MeasureLatency, Diagnose, Store, Announce
  <2>2. Counted'
    BY <1>4, <2>1 DEF ReportInv, Counted, scriptVars
  <2> QED
    BY <1>1, <1>3, <1>4, <2>2 DEF ReportInv, scriptVars
<1>5. CASE Begin \/ Terminate \/ Launch \/ LaunchFails \/ Ended \/ UNCHANGED vars
  <2>1. UNCHANGED <<collected, previous, copied>>
    BY <1>5 DEF Begin, Terminate, Launch, LaunchFails, Ended, vars, scriptVars
  <2>2. Counted'
    <3>1. CASE Launch
      BY <1>0, <3>1 DEF Launch, ReportInv, Counted
    <3>2. CASE ~Launch
      BY <1>0, <1>5, <3>2 DEF Begin, Terminate, LaunchFails, Ended, vars, appVars, scriptVars,
         ReportInv, Counted
    <3> QED
      BY <3>1, <3>2
  <2> QED
    BY <1>1, <1>3, <2>1, <2>2 DEF ReportInv
<1>6. CASE CopySnap
  <2>1. /\ UNCHANGED <<appVars, collected, previous, fresh>> /\ copied' = snap
        /\ spc' = IF spc = "previous" THEN "previousWal" ELSE "waitWal"
        /\ spc \in {"previous", "wait"}
    BY <1>6 DEF CopySnap
  <2>2. UNCHANGED <<up, mem, made, launch, snap, Newest>>
    BY <2>1 DEF appVars, storeVars, fileVars, Newest
  <2>3. Counted'
    BY <2>1, <2>2 DEF ReportInv, Counted
  <2>4. MadeInv' /\ NewReport'
    BY <1>0, <2>1, <2>2 DEF ReportInv, MadeInv, NewerBy, NewReport
  <2> QED
    BY <1>1, <2>3, <2>4 DEF ReportInv
<1>7. CASE ReadPrevious
  <2>1. /\ UNCHANGED <<appVars, collected, copied, fresh>> /\ previous' \in ReadReport
        /\ spc = "previousWal" /\ spc' = "terminate"
    BY <1>7 DEF ReadPrevious
  <2>2. UNCHANGED <<up, mem, made, launch, snap, Newest>>
    BY <2>1 DEF appVars, storeVars, fileVars, Newest
  <2>3. Counted' /\ Len(collected') = 0
    BY <2>1, <2>2 DEF ReportInv, Counted
  <2>4. previous' <= Newest
    BY <2>1, ReadsKnown DEF ReportInv, MadeInv
  <2>5. MadeInv' /\ NewReport'
    BY <2>1, <2>2, <2>3, <2>4 DEF ReportInv, MadeInv, NewerBy, NewReport
  <2> QED
    BY <1>1, <2>3, <2>5 DEF ReportInv
<1>8. CASE Look
  <2>1. spc = "waitWal" /\ UNCHANGED <<appVars, simulator, copied, fresh>>
    BY <1>8 DEF Look
  <2>2. PICK got \in ReadReport :
           IF NewerReport(got) THEN Collected(got)
           ELSE /\ looks' = looks + 1
                /\ spc' = IF looks + 1 < Looks THEN "wait" ELSE "failed"
                /\ UNCHANGED <<collected, previous>>
    BY <1>8 DEF Look
  <2>3. CASE NewerReport(got)
    BY <1>1, <2>1, <2>2, <2>3, CollectStep DEF ReportInv
  <2>4. CASE ~NewerReport(got)
    <3>1. spc' \in {"wait", "failed"} /\ launch' = launch /\ UNCHANGED <<collected, previous>>
      BY <2>1, <2>2, <2>4 DEF appVars
    <3>2. Counted'
      BY <1>0, <2>1, <3>1 DEF ReportInv, Counted
    <3> QED
      BY <1>1, <1>3, <2>1, <3>1, <3>2 DEF ReportInv
  <2> QED
    BY <2>3, <2>4
<1> QED
  BY <1>4, <1>5, <1>6, <1>7, <1>8 DEF Next, Script, OpenByHand

\* Each report the script collects is newer than the last it saw, and made by the process it
\* launched or by the one before, unless a compaction came between its two copies, now or the
\* time before, or a process outlived a launch; whatever launches fail, and whatever the app
\* does meanwhile (waitForReport).
THEOREM CollectsNew == Spec => []NewReport
<1>1. Init => ReportInv
  BY EmptySeq DEF Init, AppInit, ReportInv, FileInv, Counted, MadeInv, NewerBy, NewReport,
     Newest, Replayed
<1>2. TypeOK /\ TypeOK' /\ ReportInv /\ [Next]_vars => ReportInv'
  BY ReportStep
<1>3. ReportInv => NewReport
  BY DEF ReportInv
<1> QED
  BY <1>1, <1>2, <1>3, BenchTypeCorrect, PTL DEF Spec
=============================================================================
