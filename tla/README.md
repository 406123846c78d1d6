# Specifications of react-native-scc

TLA+ specifications of the key-value store of `react-native-scc`, TLC
configurations that check them on small instances, and TLAPS proofs of the
properties that matter most. The paths below are those of the repository; unless
a path says otherwise it is under `src/crates/kv-core/src/`.

## 1. The system

A React Native app talks to a `KV` object in TypeScript; C++ HybridObjects marshal
its calls over JSI; a C FFI hands them to the Rust core, which keeps a concurrent
hash map and, for a store on disk, a write-ahead log and snapshots.

| Component | State | Operations | Talks to | What is hard |
|---|---|---|---|---|
| Records (`record.rs`, `value.rs`, `store/recovery.rs`, `snapshot.rs`) | the WAL, the snapshot | encode, decode, replay, cut the torn tail, capture, persist | store, writer | torn tails; a snapshot taken while keys change; replay of a log the snapshot already contains |
| Persistent store (`store.rs`, `store/mutation.rs`, `wal.rs`) | the map; `Log` (bytes, flush acks, closed) under one lock; the compaction gate | set, delete, clear, set_many, apply_batch, flush, close, open | the writer, by the log, the `armed` flag and unpark | log order against map order; flush and close against a dying writer |
| WAL writer (`wal/writer.rs`, `wal/compact.rs`, `wal/sweep.rs`) | pending buffer, file, dirty flag, deadlines | one loop: collect, write, fsync, answer, compact, sweep, park | the log, the map, the files | every I/O step can fail or be the last; lost wake-ups; compaction against transactions |
| Recovery (`store.rs`, `store/recovery.rs`) | the two files | load snapshot, replay WAL, truncate | files | kill or power loss between any two steps, also of recovery's own making |
| In-memory store (`store.rs`, `sweeper.rs`, `lib.rs`) | the map; closed bit and in-flight count in one atomic; mutation gate; close gate; stop flag | mutations, close, the sweeper's scan and removals | the sweeper thread | close against admitted mutations; scans without the gate |
| Listeners (`notify.rs`, `store/mutation.rs`) | listener map and count | add, remove, notify | C++ trampoline | a listener added while a batch is applied; notification order |
| Registry (`registry.rs`) | process-wide map of open stores | open_or_get, in_memory, close | stores | handles that share or outlive a store |
| Encryption and frames (`crypto.rs`, `wal/framing.rs`) | cipher, header, frames | seal, open, scan | recovery | a torn first frame reads as a wrong key |
| C FFI (`src/crates/kv-ffi/`) | handles, thread-local error | marshalling, batch decoding | core | buffer sizes, decoding bounds |
| C++ objects (`src/cpp/`) | handle, listener boxes with pending keys | trampoline, take changes, async calls on a pool | JSI, FFI | only the first change of a burst schedules a delivery |
| TypeScript (`src/src/kv.ts`) | listener sets, staged writes, prefix, closed flag | KV API, transactions, namespaces, `deliverChanges` | C++ | callbacks that subscribe or unsubscribe; async operations of several steps |
| Hooks (`src/src/hooks.ts`) | snapshot, subscription | getSnapshot, subscribe, invalidate | KV | a write between the first read and the subscription |
| Adapters (`src/src/adapters/`) | none of their own | get, set, remove, subscribe | KV | the jotai atom reads, and subscribes later |
| Example app (`src/example/`) | run tokens and flags of the screen, bench_scc and MMKV, the stored report | self-test, benchmark, profiler, refresh | KV, registry | two asynchronous programs over shared stores |
| Benchmark script (`src/example/scripts/bench-ios.mjs`) | the copies, the last run id | kill, launch, copy the files, wait | the app's process and files | copies files that are being compacted; polls; kills |
| Bindings, platform glue | none | - | - | - |

**Correctness, by component.** Records: replay is the loop over records; a fuzzy
snapshot plus the log is the map. Store and writer: log order is map order; a flush
that returned survives any crash; a transaction is recovered whole or not at all;
a closed store does not change and leaves nothing unwritten; every flush and close
returns; no wake-up is lost. In-memory store: close is a barrier; a sweep removes
what it should and no more. Listeners and hooks: everyone who subscribed learns of
the last change and nobody who left is called; what React is given is made of what
is stored. Registry: one store per id. Example and script: runs do not disturb one
another; a report that was announced survives the kill. `PROJECT.json` lists the hazards
behind these, each at its line, with the properties that cover it.

## 2. The modules

```
KVRecords ── WalStore ── WalStoreMC        WalPark            MemStore ── MemStoreMC
    │         ║ │                             │                   │
    │         ║ WalStore_proofs          WalPark_proofs     MemStore_proofs
    │         ║ └─ WalStoreCrash_proofs
    │       DurableStore
    ├─ KVRecords_proofs ── KVRecordsMC_proofs
    └─ KVRecordsMC ── BatchCodec, KVSelector

KVMirror ══ KVClient ── KVClientMC         ExampleApp ── BenchIos ── BenchIosMC
               │                                            │
           KVClient_proofs                             BenchIos_proofs

                                           ── extends    ══ implements
```

### KVRecords
The algebra of records, as pure operators. The key is what each record *does*: a
record is a function from keys to what it writes there (`Untouched`, `Missing`
for a delete, or a value), so a set, a delete, a batch and a clear are one type,
and `Torn` is bytes that do not decode. `Replay` is defined by the last readable
write to each key; `KVRecordsMC!ReplayLoop` is the loop of `replay_wal`, and TLC
compares the two. `Fuzzy` is a snapshot whose every key was captured at a moment
of its own.

### WalStore
The persistent store: client threads, the log, the writer thread and the two
files, with kills, power losses, failing I/O and reopening.

| State | Code |
|---|---|
| `map` | `Store.map` |
| `log`, `flushes`, `closed`, `failed` | `wal::Log` and `Shared.error`/`failed` |
| `cpc`, `todo`, `flushAt` | where each client thread is between two lock regions |
| `wpc`, `pending`, `taken`, `closing`, `dirty`, `captured` | the locals and fields of `Writer` |
| `wal`, `stable` | the WAL as the OS has it, and its fsynced prefix |
| `snap`, `stableSnap` | the snapshot file, and what a power loss may bring back |
| `hist`, `txs`, `acked`, `crashes` | history, for the properties and bounds |

A mutation that takes the log lock once is one action (`Set`, `Delete`); one whose
effects other threads can watch halfway takes several: `clear` empties the map and
then logs (`Clear`, `ClearRemove`, `ClearLog`), a batch logs and then applies key
by key under the compaction gate (`GateEnter`, `BatchLog`, `BatchApply`,
`Release`), `set_many` logs and applies per key (`ManyLock`, `ManyApply`). The
writer has one action for each step that another thread, a failure or a crash can
come between: `Collect`, `Write`, the fsyncs, `Ack`, and the compaction from
`CompactGate` to `TruncateSync`. `Kill` loses memory and may tear the write in
progress; `PowerLoss` also loses what was not fsynced; `Reopen` is `Store::open`.

A value in the map is the index in `hist` of the state that wrote it, so a
recovered map tells how old each of its keys is: that is what `FlushDurable` and
`BatchAtomic` compare. Both quantify over `Recovered`, everything a crash *in this
very state* could bring back, so every reachable state is also a crash test.

### DurableStore
What a persistent store promises its callers ("Durability model" and "Transactions"
in `src/README.md`), with no thread and no file in it: the map goes through states
(`past`); a flush that answers Ok, or a close without an error, moves the durable point;
a store that is opened again finds each key as it was at some moment since that point,
each at a moment of its own, and if it finds one key of a batch it finds the others no
older (`Recover`). Two things it says plainly that the documentation does not: after a
crash the map need not be *one* earlier state, since writes to different keys are
captured and kept separately; and a flush may answer with an error only once an error
is recorded, which sticks until the store is opened again.

`WalStore!Durable` is the refinement mapping: `past` is `hist`, `durable` is `acked`,
`batches` is `txs`, `waiting` is what each client in a flush waits for, `broken` is the
recorded error, and `mode` is `down` without a process, else `closed` or `open` by the
flag in the log. The writer's fsyncs and compactions, a batch's way through the gate, a
`clear` between its two halves are then invisible; `Collect`, `Capture`, `Persist` or
`Truncate` can be wrong only in what `Reopen` finds afterwards.

### WalPark
How a client wakes the writer and how the writer goes to sleep: WalStore takes
for granted that the writer runs, this module is about whether it does. Records
are only counted; every access to the `armed` flag and the unpark token is a step
of its own (`LoadArmed`, `SwapArmed`, `Unpark`, `Disarm`, `LastLook`, `Deadline`).
`soon` says that the current park ends with the group window; a park with a
distant deadline (sweep, fsync, 3600 s) may as well never end.

### MemStore
Both in-memory kinds, chosen in `Init`: ungated (`in_memory`: an atomic word that
holds the in-flight count and the closed bit) and gated (`in_memory_evicting`: a
mutex and the sweeper thread). `close` is cut where another thread can come in
between: `CloseEnter`, `CloseBit`, `CloseMark`, `Drained`; `CloseLock`,
`SignalStop`, `Unpark`, `Join`. The sweeper scans without the gate, key by key
(`Scan`, `Pick`), and removes under it (`SweepLock`, `RemoveExpired`,
`RemoveEvicted`).

### KVClient, and KVMirror
The KV objects of TypeScript over one store: from the thread that changes a key
over `notify.rs`, the listener box of C++ and the queue of the JS thread to
`deliverChanges` and those who subscribed; and the calls that take several steps.

| State | Code |
|---|---|
| `slot`, `storeClosed` | the store: value and expiry by key, and its closed flag |
| `hasSweeper` | whether something sweeps: the writer of a store on disk, or `Store.sweeper` |
| `pc`, `todo`, `collect` | where each call is, what it has yet to write, whether a batch collects its keys |
| `tell`, `visit` | changes a thread has made and not yet told, and the listeners it has yet to visit |
| `native`, `pending`, `scheduled` | native subscriptions by view, `ListenerBox.pending`, `onChange` calls dispatched |
| `phase`, `shown` | subscribers, in `listeners` and `keyListeners` or not, and what each shows |
| `js`, `frame` | the call the JS thread is in, and the `deliverChanges` it is in |
| `unheard`, `rewritten` | history, for the properties |

Every call is a process: `Issue` takes it from the behaviour's plan, at top level
or inside a callback of `deliverChanges`, and `Step` goes on with it. An
asynchronous call runs on a thread of its own. `Sample` is the look at
`is_active()` that comes before a batch, `ApplyKey` its keys one by one in view of
readers, `Notify` and `Visit` the loop over the listeners and the trampoline,
`Deliver`, `CallListener` and `NextChange` the loop of `deliverChanges` over sets
that its own callbacks change. `ListKeys`, `ResumeClear`, `RemoveOne`, `Removed` are
`clearAllAsync` of a namespace. Four kinds of subscriber differ in when they read:
a hook before and after it is attached, an observer after, a jotai atom before, and
a listener not at all. `Detach` is `unsubscribe`, called for itself and by an
`observeJSON` whose first read throws.

`KVMirror` is what all of it promises: an owner of a subscription shows only what
was stored, and what is out of date is read again in the end, except under keys of
which the owner was never told (`deaf`). The refinement maps `stored` to what a
reader would get now and `deaf` to `unheard`: keys of a batch that began when nobody
listened, keys an atom missed before it was attached, keys that expire where nothing
sweeps: in a store that is closed, or in memory and without a sweeper (`Swept`).

### KVSelector
What a hook gives React, by identity: the readers, the snapshot that is kept while
nothing changes, and `createSelectionGetter` with its memory and the selection on
the screen. A value is its content and the number of its object; numbers are reused
when nothing holds the object, so that the states are finite. The application's
selector may return the value, a primitive, or a new object each time, and its
comparison may be `Object.is`, of contents, or not even transitive.

### BatchCodec
A transaction's staged writes, the reads that see them, `encodeBatch` and
`utf8Encode` with and without `TextEncoder`, and `decode_batch`. Strings are
UTF-16 code units, numbers the eight bytes of their double. `Utf8From` and `TextsFrom`
encode and read a text from any place on, `Written` and `OpsRead` a batch up to any
write, so that the proofs can follow them.

### ExampleApp and BenchIos
ExampleApp is the example app, task by task: `executeSelfTest` and `runSelfTest`
(`Began` to `TestReturns`), `executeBenchmark` and `collectBenchmark` (`Refused`,
`Collect`, `MeasureLib` to `Store` and `Announce`), the profiler, the user's two
buttons and a refresh of the code. `Phases` are the cases of a benchmark in their
order; `Seeding` says before which of them `prepareStores` runs, once a trial and in
two diagnostics, so that the other cases find what the one before left. A latency
case is one call of one library a step, as often as it likes. Of the stores it keeps
whose data the benchmark stores hold, the two keys on which self-tests can trip over
each other, and the report of the last benchmark, in memory, in the log and in the
two files. BenchIos adds the script: it kills and launches the process (`Terminate`,
`Launch`), copies one file and then the other (`CopySnap`, then `ReadPrevious` or
`Look`), and collects what it takes for new reports. A `simctl terminate` that fails
leaves the process there, and the launch then brings it to the front: `fresh`
remembers whether each launch has begun a process.

## 3. What the runs check

| Run | Question | Bounds |
|---|---|---|
| `kvrecords` | Is the last-write form of replay the loop of `replay_wal`? Does a fuzzy snapshot converge? Does a batch commit what its transaction read (`BatchCommits`)? Does a hook give React what is stored, and the same object while nothing changes (`HookTrue`)? | every log of up to 3 records over 2 keys and 2 values; writes of 15 values, of 1 to 4 bytes a character and half a pair, under 2 keys; 5 texts, 3 selectors, 3 comparisons |
| `wal_kill` | Flushes, transactions and log order under kills, with every operation, compaction and eviction. Is a cleanly closed store opened again as it was (`CleanCloseKeeps`)? Does all of it implement DurableStore (`ImplementsDurable`)? | 1 client, 2 keys, 4 states of the map, 1 kill and the kill of the property |
| `wal_power` | The same promises under power loss and failing I/O, strict durability | 2 clients, 2 keys, 3 states, every fault but the directory's fsync |
| `wal_live` | Is every flush answered, does every close return, drained? | 2 clients, 1 key, failing compactions |
| `wal_killpower_flush` | *violated*: a flush after a kill and a reopen survives a power loss | 1 client, 2 keys |
| `wal_killpower_batch` | *violated*: so does a transaction | 1 client, 2 keys |
| `wal_park` | No lost wake-up; every record, flush and close gets through without distant timers | 2 clients, groups of 2, 3 records |
| `mem_store` | Is close a barrier? Does a sweep take what it should? | 3 clients, 2 keys, limits none and 1, times 1 and 2 |
| `mem_live` | Does every close return without waiting for the sweep interval? | 2 clients, 1 key |
| `mem_evict` | *violated*: live keys are evicted only from a store that is too large | 1 client, 2 keys |
| `js_client` | Is every change seen, is nobody called who has left, does a namespace stay in its scope, and does it all implement the mirror, in the end too? | 10 mixes of 4 calls in any order, 3 keys, 2 views, 4 subscribers, with and without a sweeper |
| `bench_ios` | Do benchmarks and self-tests leave each other alone? Does the script collect new reports, and end? | 2 launches, 2 looks each, 2 self-tests and 2 benchmarks a process, 3 reports, 1 deed of the user |

**Why the bounds suffice.** Two keys are what a half-applied transaction, an order
of two writes, or an excess of one needs; one key more repeats the same cases. Four
states of the map allow a value to be flushed, overwritten in a transaction, and
compacted in between. `ImplementsDurable` judges a recovery when the store is opened
again, which is a state of its own: that leaves two writes before it, one of them a
transaction, where `FlushDurable` and `BatchAtomic` look at three. One crash plus the
hypothetical one of `Recovered` makes two crashes in a row, which is what both
divergences need. Two clients give every race
between a mutation or a flush and a close; three are needed for a second close to
overtake the first while a mutation is still inside (a store without the close
gate passes with two). `CompactMin = 1` lets compaction start at any time; a group
of two records tells a full group from one that waits for its window. The
`ExpiredCap` of one stands for 4096, so that the cap is reached. `MaxHist`,
`MaxCrashes`, `MaxAppended` and `MaxClock` bound a behaviour and nothing else.
A mix of `js_client` is about one thing that can go wrong between a subscription,
two writers and a fourth call (unsubscribe, close, clear); three keys, of which two
lie in the namespace, tell a scoped operation from one that is not and leave half a
namespace when a store is closed between two removals, and four subscribers are one of
each kind. Only mixes in which a key expires have both kinds of store: nothing else
asks for the sweeper. Two launches of `bench_ios` make one report the
previous one of the next; two benchmarks are what it takes to disturb one, and its
four phases are a trial of throughput, a trial of two latency cases, the second on the
data the first leaves, and a diagnostic. Both runs have no other bound than
their constants: two launches and one deed make three reports at most.
Symmetry over keys and clients is used only in safety runs. Deadlock is checked in
`wal_live`, `wal_park` and the runs of MemStore; in the others the system really
may stop (the last crash of a behaviour, the end of the log of `kvrecords`). `js_client` and
`bench_ios` check it too: a behaviour may end only where every call is over and
every queue is empty (`Done`), or the script is (`Ended`).

**Fairness.** *WalStore*: weak fairness for a client inside an operation, strong
fairness for the writer, because it competes for the compaction gate with a stream of
batches: `std::sync::RwLock` blocks new readers while a writer waits. *WalPark*: weak
fairness for both, strong fairness for `Write`, because the group window elapses and
the writer cannot hold a group in every turn; none for the distant deadlines.
*MemStore*: weak fairness, strong for the steps that lock the mutation gate; refused
callers do not call for ever (`RefusalsEnd`), without which an ungated close need
never see a zero count (TLC finds that behaviour); none for the sweep interval.
*KVClient*: weak fairness for every call that has been issued, for each thread that
has changes to tell, for the JS thread's queue, and for the sweeper of a store that
has one; each is a thread or a queue that is served. A store made by
`Store::in_memory` has none (`registry.rs:118-125`), and there nothing is assumed of a
key that has expired. *BenchIos*: weak fairness for the script, one program that
nothing stops, and none for the app: `ScriptEnds` must hold whatever the app does.
That the tools it spawns return is an assumption, as `spawnSync` and `execFileSync`
are called without a timeout. No fairness is asked of calls: nobody has to mutate,
flush or close.

**Divergences found.**
1. `wal_killpower_flush`: `Writer::new` starts with `dirty: false`
   (`wal/writer.rs:51`) although the WAL it appends to may never have been fsynced
   by the process that was killed. A flush after the reopen skips the fsync and
   returns Ok; a power loss then takes writes that `src/README.md:310` promises are
   on disk.
2. `wal_killpower_batch`: for the same reason the compaction's fsync
   (`wal/compact.rs:26`) is skipped, and a power loss after the rename replays a
   stale prefix of the WAL over the newer snapshot, the very case the comment of
   `wal/compact.rs:25` names. Half of a transaction is taken back, against
   `src/README.md:171`.
3. `mem_evict`: victims are chosen by a scan without the gate and removed without
   another look (`sweeper.rs:63`, `sweeper.rs:79`), so that keys deleted in between
   let the sweep evict live keys from a store that already fits, against
   `src/README.md:158`.

**Seen while modelling, without a run of their own.** The properties state what
holds all the same, with these cases as their exceptions.
- An atom of jotai reads when it is mounted and subscribes later; a write in between
  is shown only with the next change of its key (`adapters/jotai.ts:24`). A hook
  reads again (`hooks.ts:53`).
- A batch that samples `is_active()` before a listener is added tells it nothing,
  though its writes come after (`store/mutation.rs:104`).
- Without `TextEncoder`, half of a surrogate pair makes `decode_batch` refuse the
  whole transaction; with it, U+FFFD is committed where the transaction's own read
  gave the half back (`kv.ts:76`).
- A benchmark started while another measures is refused by the registry, and the
  screen then shows a failure and nothing running while the first goes on. A refresh
  during a benchmark leaves the screen showing one until the next is started
  (`example/App.tsx:117`).
- A key that expires in a store in memory without a sweeper reads as missing, but no hook
  or listener is told until it is written again (`registry.rs:118`).
- `Store::open` creates the WAL (`wal.rs:94`) and nobody fsyncs its directory until the
  first compaction: on a file system that does not keep a new file's entry with its
  data, a power loss takes the WAL with everything that was flushed to it.
- A `simctl terminate` that fails is ignored (`bench-ios.mjs:131`), and the launch then
  brings the old process to the front: it is not one of the "fresh launches" of
  `example/BENCHMARK.md:31`, and what it reports may have been measured two launches ago.
- A copy torn by a compaction may give the script an older report or none
  (`bench-ios.mjs:149`); a report made by the killed process after the script last
  looked passes for the next launch's (`bench-ios.mjs:196`).

## 4. What is proved

The proofs hold for every set of keys and clients, every durability, fault and
crash kind and every bound, under the named assumptions on the constants
(`WalStoreAssumption`, `WalParkAssumption`, `MemStoreAssumption`,
`KVClientAssumption`, `ExampleAppAssumption`, `BenchIosAssumption`,
`KVRecordsMCAssumption`), which TLC evaluates in the passing runs, and what a theorem
assumes in its own statement; KVRecords assumes nothing. Those of KVClient hold for
every set of keys and views, every number of subscribers and any plans of well-formed
calls.

**KVRecords_proofs.** `ReplayTruncated`: cutting a log at its first torn record
changes nothing that replay returns. `ReplayAppend`: to append a record and replay
is to replay and apply it. `FuzzySnapshot`: a snapshot that caught each key after
some prefix of the log replays to the same map. `CutLogGrows`: after the cut, new
records are replayed. They rest on what the last readable write to a key is.

**KVRecordsMC_proofs.** `LoopReplays`, and with it `LoopIsReplay` (`ReplayIsLoop`): the
loop of `replay_wal` leaves what `Replay` says, for every map and every log. The
function `[i |-> replay of the first i records]` satisfies the equation of the loop, so
the loop is a solution of it, and at the least index where the two differed the
equation would make them equal. `FuzzyConverges` is `FuzzySnapshot` of this run's logs.
`HooksTell` (`HookTrue`): a hook that has been asked once is `Settled`, that is, what
its getter remembers is of the very snapshot it holds and was made of its text up to
the comparison, and is what React was given; a new snapshot has a number nothing held
has (`FreeNumberFree`, a pigeonhole), so that nothing remembered is taken for made of
it. Mounting, asking, rendering, a new selector and a new key keep that.
`BatchesCommit` (`BatchCommits`) is the last of four theorems, the others of which are
about every transaction, not only those of the run:
- `TextRoundTrip`: `from_utf8` makes of an encoded text the text itself if every half in
  it belongs to a pair; otherwise another text when `TextEncoder` encoded it, and nothing
  when the loop of `utf8Encode` did. From each unit at which a character begins, what
  is left of the bytes is read as what is left of the text (`ReadsFrom`).
- `BatchRoundTrip`: `decode_batch` makes of an encoded batch its writes, in order, or
  refuses it, exactly if a text in it is refused. Where each write begins is where
  the one before ends (`WrittenLies`), and each is read alone (`DecodeOpIs`).
- `TransactionReadsTrue`: over any store, each typed read inside the transaction is what
  the same read gives after the commit, texts with half a pair excepted.

They assume what the code relies on: a key is staged once and is well-formed text, a
string has fewer than 2^30 units, and the writes and a buffer number fewer than 2^32
(`Batch`, `Op`, `Values`; 32-bit lengths). The run's values are among those (`SpecStaged`).

The recursive functions of BatchCodec are solved by two lemmas about sets of numbers
and functions: `Induction` (a set of naturals that holds 0 and every successor is `Nat`,
from the least number outside it) and `Recursion` (an equation whose right side looks
only at points of a lower rank has a solution). From there each function is what its
equation says at every point.

**WalStore_proofs.**
- `TypeCorrect`. `TypeOK` alone is not inductive: `Persist` installs the captured
  part of the map, a map only once every key has been visited (`CapturedWhole`).
- `CaptureAtomic` (`CaptureSeesWholeBatches`). `LockInv` says where the holders of
  the log lock and the gate may be, and that a client outside an operation has
  nothing left to apply; a client with half a batch is then at a place that
  excludes the writer's capture.
- `CloseComplete` (`CloseDrains`). `DrainInv` follows the writer's last turn: once
  `collect` has seen `closed` nobody can log or queue anything more, what it took
  is written, fsynced unless it fails, and answered.
- `CloseIsBarrier` (`ClosedIsFinal`): by cases on the steps, from `LockInv`.
- `LogIsMap` (`LogMatchesMap`): until an I/O error is recorded,
  `Replay(snap, wal ∘ pending ∘ log)` is the map. The equation is not
  inductive. While a compaction runs, the snapshot to come mixes states of the map;
  the invariant says that a key whose captured value is stale has been rewritten by
  a record still in `log`, which the truncation does not remove (`CapturedFresh`,
  `SnapFresh`), that `pending` is empty from the moment the gate is held
  (`BufferEmpty`), that no record of the queue is torn (`WholeRecords`), and where
  the map is relative to its history while a batch or a clear is on its way
  (`MapIsTip`). The proof uses the lemmas of KVRecords for `Persist` (a newer
  snapshot under the same log), `Truncate` (the log alone carries the changes),
  `Reopen` (the torn tail is cut), and appends.
- `ReopenedAsClosed` (`CleanCloseKeeps`), with no hypothesis: of a store closed without
  an error only the files are left (`DrainInv`), they replay to the map (`LogInv`), and
  no step but `Reopen` brings a writer back.

**WalStoreCrash_proofs.** What a crash leaves. Everything rests on *recency*: a record
or a map is `Recent` from a moment on when each value it holds is one its key has had
since; recency survives the growth of the history, appends, prefixes, torn tails and
replay.
- `KillsKeepFlushed` (`FlushDurable`, no power loss). The property speaks of what a
  crash in this state would recover, and says nothing of what is on its way. `PipeInv`
  follows it: the log, the buffer and the capture are recent from the last answered
  flush on, and so is the snapshot before the WAL is cut; for each flush the writer has
  taken, the files with the buffer replay to something recent from that flush on, unless
  an error is recorded. `FileRecent` says of the two files what the property needs. A
  kill adds to the WAL a part of the buffer and perhaps a torn record (`WrittenPartly`).
- `PowerLossKeepsFlushed` (`FlushDurable`, no kill). `PowerInv` says it of what a power
  loss is sure to leave, over either snapshot (`StableRecent`); that behind it the WAL
  holds only recent records or, while it is being cut, the snapshots have them all
  (`TailRecent`); that a writer with `dirty` false has nothing unsynced (`CleanIsSure`);
  and that there are two snapshots only until the directory is fsynced (`OneSnapshot`).
- `KillsKeepBatches` and `PowerLossKeepsBatches` (`BatchAtomic`). `BatchInv` follows
  each batch (`Threaded`): the one record that carries it is all of it, and nothing older
  comes behind (`InOrder`); what the map has of a batch is in the queue, or only newer
  records are (`MapLogged`); the gate keeps batches out of the log from the moment the
  writer takes it to the end of the capture (`GatedLog`), so that what is captured of one
  is in the WAL (`CapturedLogged`) and is nothing of it or nothing older
  (`CapturedWholly`). `KillInv` adds that a snapshot that has a key of the batch has
  nothing older, and lies under older records only if the batch is among them;
  `LossInv` says so of each snapshot and WAL a power loss may pair.

  Why the hypotheses: kills and power losses together do lose data, because a store
  opened after a kill takes for fsynced a WAL that only the page cache has (the runs
  `wal_killpower_flush` and `wal_killpower_batch`). A store closed after a failed fsync
  and opened again takes its WAL for fsynced too; hence, for power losses, no failing
  I/O where a closed store may be opened again (`DirtyIsRight`). `sync_parent_dir`
  ignores an error, after which the truncated WAL has lost what the renamed snapshot
  held; hence, for `FlushDurable`, a directory that can be fsynced (`PowerOnly`). The
  passing runs `wal_kill` and `wal_power` are instances of these hypotheses.
- `KillsImplementDurable` and `PowerLossImplementsDurable` (`ImplementsDurable`): under
  the hypotheses of `KillsKeepFlushed` and `PowerLossKeepsFlushed` every behaviour of
  WalStore is one of DurableStore. `StepImplements` goes through the steps: each is a
  step of DurableStore or leaves what the mapping shows. An `Ack` is an `Answer` because
  who waits for one is in a flush that saves a state (`WaitInv`); the writer's `AcksDone`
  on close is `Drained` because nobody is left waiting. Only `Recover` depends on what
  the files hold: they must be `Recoverable`, which `FileRecent` and `KillInv`, or
  `PowerInv` and `LossInv`, give. For each key the proof takes the *latest* moment at
  which it was as it is found (`LatestMoment`): recency puts it after the durable point,
  and what is known of each batch puts it after the batch. Values name the state that
  wrote them, but a deletion may stand for many moments; the latest serves them all.
  The two kinds of crash together are excluded for the reason above: the runs
  `wal_killpower_flush` and `wal_killpower_batch` are counterexamples.

**WalPark_proofs.** `RecordsKept` (`NothingLost`): each record is in exactly one of
the file, the buffer and the log. `WakeupsKept` (`NoLostWakeup`): the invariant
says that whoever leaves work behind has promised an unpark or has left the writer
armed (`Promised`), that an armed writer parks only with a near deadline
(`Rearmed`), and where the writer's turn ends (`Ends`).

**MemStore_proofs.** `TypeCorrect`: the in-flight count is a natural number because
it is the number of clients inside (`Counted`, by the theorems on finite sets); the
code asserts as much in `store.rs:82`. `ClosedStays` (`ClosedForGood`): the
invariant relates each place of `close` to what has been marked by then
(`CloseMarked`), gives the gates to those who rely on them (`GatesHeld`), keeps the
two kinds of store apart (`KindsApart`), and says that once the marking close is
through, no mutation is inside and the sweeper is gone (`SettledQuiet`). `LiveStay`
(`LiveKeysStay`) needs that the sweeper removes under the gate (`SweepHolds`).
`SweepsFit` (`SweepFits`, for a finite set of keys): `Fitting` counts, at each place of
an undisturbed sweep, the live keys found and left, those chosen for eviction and
those that remain.

**KVClient_proofs.** One inductive invariant, `IInv`, serves all eight theorems; it is
the conjunction of what each needs of the others.
- `TypeCorrect` (`Typed`): with the loop of `deliverChanges` it needs that a frame has
  changes left (`FrameOK`) and which kinds of call stage and clear (`BegunOK`).
- `SubscriptionsNeeded` (`NativeWhileNeeded`) and `BurstsScheduled` (`BurstScheduled`).
  Only the JS thread subscribes and unsubscribes, one call at a time: `JsHolds` says
  where a synchronous call may be, `PhaseAt` in which phase its subscriber is then, and
  `VisitsNative` that threads visit listeners that exist.
- `ChangesArrive` (`NoChangeLost`). Each action that writes a key, takes a change from
  one place to the next, or drops it, is shown to leave the key told, visited, queued,
  in the frame, shown, or unheard. A call that has yet to write has nothing to tell
  (`TellEmpty`).
- `OffIsQuiet` (`NoCallWhenOff`): by cases on the steps.
- `StaysInScope` (`Scoped`). What a call has yet to write lies under its prefix and is
  what that call means there (`TodoScoped`): what it puts, the value its transaction
  read, or nothing. Once a call that clears is removing, it has only removals left
  (`OnlyRemovals`). Then each step that changes a key is the clock's, the sweeper's, or
  the one write by which a call takes that key off its list, and what it tells is what
  it wrote.
- `ClearedAsync` (`AsyncClearClears`). `ClearPath` and `ClearCovers`: from the listing
  on, a key of the namespace is still to be removed, gone, or was written since.
- `FollowsMirror`: the initial states and every step of KVClient are those of KVMirror
  or leave it as it is. The mirror's fairness is left to TLC (`MirrorsStore`).

**BenchIos_proofs.** Any number of self-tests, benchmarks, phases, reports and launches.
- `BenchTypeCorrect` (`TypeOK`), from what each part of the app does to the runs
  (`Moved`, `Advanced`) and the script's bounds (`WithinBounds`). A process always begins
  a self-test, so there is a name for one (`ExampleAppAssumption`).
- `ScreenTells` (`SpinnersTrue`). `TestTokens` and `BenchTokens`: runs that were begun
  have different tokens, none above the screen's; so at most one owns the spinner, and
  a run that ends takes back its own or none.
- `FailuresExcused` (`FailsOnlyExcused`). `ExcuseInv`: of two self-tests under way both
  are excused, and one that is not is alone with the keys it checks: `ttl_key` and the
  redux key are as it left them (`Sound`).
- `MeasuresUndisturbed` (`Undisturbed`). The property forgets the benchmark between
  its two engines; `Mine` says which phase's data the first engine has there, and
  `TurnMine` what each engine is left with after its turn. Whoever measures holds
  bench_scc open, so no other benchmark gets past opening it (`MeasuresAlone`).
- `AnnouncedKept` (`ReportKept`). `FileInv` orders announced, in the files (`Newest`),
  in memory and made; `FileMove` says how these may move in a step.
- `CollectsNew` (`NewReport`). `NewerBy(p, n)`: whatever is newer than report `p`, in
  the files or in memory, is of launch `n` or later. As long as each launch has begun
  a process (`fresh`) it holds of the newest report at each launch (`MadeInv`), and
  `FileMove` keeps it; the script's copies are older than the files, and whole if the
  snapshot is the one it copied (`ReadsKnown`).

**Only proved.** `CaptureSeesWholeBatches` and `NothingLost` are in no run: TLC sees
what would come of their failing (`BatchAtomic` in `wal_kill`, `RecordsWritten` in
`wal_park`). `ImplementsDurable` is run under kills only; under power losses `wal_power`
runs the two properties of a recovery it rests on.

**Only model-checked.** No invariant of a passing run is. `EvictsOnlyExcess` is
refuted by the run `mem_evict`. What is left is everything about liveness
(`FlushAnswered`, `CloseReturns`, `RecordsWritten`, `CloseJoins`, `ScriptEnds`, the
fairness part of `MirrorsStore`): TLAPS proves neither liveness under fairness nor
ENABLED.

## 5. Abstractions

- **WalStore.** Records are the writes they stand for: byte layout, CRC32, sizes,
  headers, encryption and legacy files are left out, and so are expiry times.
  Time is a choice: a group may be written or held, a fsync interval may have
  elapsed. `CompactMin` counts records and a compaction may start at any turn once
  the WAL is that long. A sweep removes one key a step, any of `Doomable`, where
  the code removes several in one critical section; the code's behaviours are
  among the model's. The keys of a batch are distinct and applied in any order. A
  fsync may succeed after one that failed, but the error sticks. `PowerLoss` keeps
  the fsynced prefix of the WAL and any prefix of the rest, and the directory entry of
  a new WAL. That an fsync of the directory may fail (`snapshot.rs:84`) is in the module
  and in `PowerLossKeepsBatches`, and in no run: `FlushDurable` does not hold with it.
  `GateRefused` also stands for the bound `MaxHist`. A second `close` may reach the log
  lock while the first joins, where the code holds `close_gate`; this adds behaviours.
- **WalPark.** Atomics are sequentially consistent, and the locks the writer takes
  do not consume its unpark token. I/O failures are WalStore's. The writer's sweep
  may queue one record of its own.
- **MemStore.** A slot is its expiry; values are left out. `clear` removes key by
  key. Listener calls are left out. The clock never goes back.
- **KVClient.** A mutation that changes one key is one step, and the store's lock is
  left out, which adds behaviours; `CloseStore` waits until no call is applying. The
  listener count is merged with the map of listeners, and a view's subscription has
  no generation: a listener added while a thread goes through the map is or is not
  come across. Listing the keys is one step. React is the weakest subscriber: it
  reads when it is told, and only then. Callbacks may issue any call of the plan, or
  throw, which ends nothing. `clear` removes key by key and tells one change. A
  sweep tells each key it removes; eviction is MemStore's. A key that expires where
  nothing sweeps (`Swept`) is told to nobody. `Visit` is the push under the box's
  mutex and the `onChange` after the unlock in one step; a batch taken in between has
  the change in it, and the call that follows finds nothing to deliver. A kill in the
  middle of a `clearAllAsync` is left out, and so is a native `addListener` that
  fails, as it does for an absent handle only. Views of one native instance are
  modelled; a second `createKV` of the same id shares the store and differs in its
  closed flag only.
- **KVSelector.** Of a JSON document the model keeps its text; equal texts are equal
  documents. Selectors are pure and do not change what they are given.
- **BatchCodec.** Keys are well-formed text; numbers are their eight bytes. The
  capacity of the buffers is not modelled.
- **ExampleApp, BenchIos.** Checks that read what the same stretch of code has
  written are left out of the self-test, as they cannot fail; those behind an await
  are kept where another run shares their key. A timer that is late excuses the
  check it guards. A measurement throws at any drain; what it costs, and statistics,
  demos and drawing, are left out. Between two cases of a trial others may run in the
  model where the code has a microtask only. `kv.flush()` of the report does not fail. The
  example store's writer may write and compact at any time; a torn WAL tail of the
  report is WalStore's matter. The script's tools may fail at launch and at reading.
- **Not modelled.** The registry beyond what bench_scc shows of it; encryption and
  frames; the rest of the FFI and of the C++ objects, which marshal; `createKV`'s
  checks of its options; building, choosing a target, options and the summary of the
  script; generated bindings and platform glue, which keep no state.

## 6. Plan

1. **Registry**: open_or_get, close by name, handles; one open store per id, what a
   stale handle's close does.
2. **Frames**: frame and record boundaries, the prefix a crash leaves, what
   `validate_legacy`, key checks and the cut of the tail make of it.
3. The compaction gate held over an fsync under strict durability
   (`wal/compact.rs:22` against `src/README.md:312`).
