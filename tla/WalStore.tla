------------------------------ MODULE WalStore ------------------------------
(***************************************************************************)
(* The persistent store of kv-core: client threads that mutate the map and *)
(* append records under the log lock, the background writer that writes,   *)
(* fsyncs and compacts, the two files, and what a kill or a power loss     *)
(* leaves of them (store.rs, store/mutation.rs, store/recovery.rs, wal.rs, *)
(* wal/writer.rs, wal/compact.rs, wal/sweep.rs, snapshot.rs).              *)
(*                                                                         *)
(* Time is not modelled: a window that may or may not have elapsed is a    *)
(* choice of the writer.  Parking and wake-ups belong to WalPark.          *)
(***************************************************************************)
EXTENDS KVRecords

CONSTANTS
    Clients,      \* threads that call into the store
    BatchShapes,  \* multi-key operations clients issue: key -> TRUE (set) or FALSE (delete)
    Doomable,     \* keys the sweep may find expired or over max_entries
    Durability,   \* "relaxed" or "strict"
    CompactMin,   \* records in the WAL from which compaction may start
    CrashKinds,   \* subset of {"kill", "power"}
    Faults,       \* subset of {"write", "sync", "persist", "dirsync", "truncate"}
    ReopenAfter,  \* subset of {"crash", "close"}: what a store is opened again after
    MaxHist,      \* bound on the map states a behaviour goes through
    MaxCrashes    \* bound on the crashes of a behaviour

ASSUME WalStoreAssumption ==
    /\ Keys # {}
    /\ \A shape \in BatchShapes : \E K \in (SUBSET Keys) \ {{}} : shape \in [K -> BOOLEAN]
    /\ Doomable \subseteq Keys
    /\ Durability \in {"relaxed", "strict"}
    /\ CompactMin \in Nat
    /\ CrashKinds \subseteq {"kill", "power"}
    /\ MaxHist \in Nat
    /\ MaxCrashes \in Nat

VARIABLES
    \* shared memory of the process
    map,        \* Store.map
    log,        \* Log.bytes: records appended and not yet taken by the writer
    flushes,    \* Log.flushes: clients whose ack channel is queued
    closed,     \* Log.closed
    failed,     \* Shared.failed, set with the sticky Shared.error
    \* client threads
    cpc,        \* what each client is doing
    todo,       \* the writes its multi-key operation has not applied yet
    flushAt,    \* Len(hist) when its flush was queued
    \* the writer thread
    wpc,        \* where Writer::run is; "down" when there is no process
    pending,    \* Writer.pending
    taken,      \* flushes taken by collect and not answered yet
    closing,    \* the value of Log.closed collect saw
    dirty,      \* Writer.dirty
    captured,   \* the part of the map snapshot::capture has visited
    \* the files
    wal,        \* the WAL as the kernel shows it
    stable,     \* the WAL as a power loss is sure to leave it
    snap,       \* the snapshot under its name
    stableSnap, \* the snapshot the directory on disk is sure to name
    \* history, for the properties only
    hist,       \* every state of the map, in order; a value is the index of its write
    txs,        \* index and keys of each batch
    acked,      \* index in hist up to which a flush or a close answered Ok
    crashes     \* crashes so far

clientVars == <<cpc, todo, flushAt>>
sharedVars == <<flushes, closed, failed>>
diskVars   == <<wal, stable, snap, stableSnap>>
runVars    == <<taken, closing, captured>>
ghostVars  == <<hist, txs, acked, crashes>>
vars == <<map, log, sharedVars, clientVars, wpc, pending, dirty, runVars,
          diskVars, ghostVars>>

-----------------------------------------------------------------------------
Tip   == hist[Len(hist)]
Stamp == Len(hist) + 1          \* the value the next write carries
RoomFor(n) == Len(hist) + n <= MaxHist
Room == RoomFor(1)

Up        == wpc # "down"
LockFree  == \A c \in Clients : cpc[c] \notin {"batch", "many", "clear"}   \* the mutex of Log
Readers   == {c \in Clients : cpc[c] \in {"batchGate", "manyGate", "batch", "many"}}
GateTaken == wpc \in {"take", "compactWrite", "compactStrict", "capture"}

NoWrites == Torn
Present  == {k \in Keys : map[k] # Missing}

ClientIdle == [c \in Clients |-> "idle"]

Init ==
    /\ map = NoKeys /\ log = <<>> /\ flushes = {}
    /\ closed = FALSE /\ failed = FALSE
    /\ cpc = ClientIdle
    /\ todo = [c \in Clients |-> NoWrites]
    /\ flushAt = [c \in Clients |-> 0]
    /\ wpc = "collect" /\ pending = <<>> /\ taken = {} /\ closing = FALSE
    /\ dirty = FALSE /\ captured = Torn
    /\ wal = <<>> /\ stable = <<>> /\ snap = NoKeys /\ stableSnap = NoKeys
    /\ hist = <<NoKeys>> /\ txs = {} /\ acked = 1 /\ crashes = 0

-----------------------------------------------------------------------------
(***************************************************************************)
(* Client threads.  WalHandle::mutate takes the log lock, refuses on a     *)
(* closed or failed log, and runs the closure under the lock, so an        *)
(* operation on one key is one step.  Operations on several keys are not:  *)
(* the compaction's capture reads the map without the lock.                *)
(***************************************************************************)
\* Mutant: the closed check of WalHandle::mutate is missing.
AdmittedWhenClosed(c) == Up /\ LockFree /\ Room /\ ~failed

Admitted(c) ==
    /\ Up /\ LockFree /\ Room
    /\ ~closed /\ ~failed

Mutate(c, rec) ==
    /\ cpc[c] = "idle" /\ Admitted(c)
    /\ map' = Apply(map, rec)
    /\ log' = Append(log, rec)
    /\ hist' = Append(hist, Apply(Tip, rec))
    /\ UNCHANGED <<sharedVars, clientVars, wpc, pending, dirty, runVars,
                   diskVars, txs, acked, crashes>>

Set(c)    == \E k \in Keys : Mutate(c, SetRecord(k, Stamp))
Delete(c) == \E k \in Present : Mutate(c, DeleteRecord(k))

\* clear holds the log lock but not the gate; it empties the map bucket by bucket and
\* logs its record last.
Clear(c) ==
    /\ cpc[c] = "idle" /\ Admitted(c)
    /\ cpc' = [cpc EXCEPT ![c] = "clear"]
    /\ hist' = Append(hist, NoKeys)
    /\ UNCHANGED <<map, log, sharedVars, todo, flushAt, wpc, pending, dirty, runVars,
                   diskVars, txs, acked, crashes>>

ClearRemove(c) ==
    /\ cpc[c] = "clear"
    /\ \E k \in Present : map' = [map EXCEPT ![k] = Missing]
    /\ UNCHANGED <<log, sharedVars, clientVars, wpc, pending, dirty, runVars,
                   diskVars, ghostVars>>

ClearLog(c) ==
    /\ cpc[c] = "clear" /\ Present = {}
    /\ log' = Append(log, ClearRecord)
    /\ cpc' = [cpc EXCEPT ![c] = "idle"]
    /\ UNCHANGED <<map, sharedVars, todo, flushAt, wpc, pending, dirty, runVars,
                   diskVars, ghostVars>>

\* mutate_atomically: the read side of the compaction gate comes before the log lock.
GateEnter(c) ==
    /\ Up /\ cpc[c] = "idle" /\ Room
    /\ ~GateTaken
    /\ \E pc \in {"batchGate", "manyGate"} : cpc' = [cpc EXCEPT ![c] = pc]
    /\ UNCHANGED <<map, log, sharedVars, todo, flushAt, wpc, pending, dirty,
                   runVars, diskVars, ghostVars>>

\* apply_batch: one record for all sub-operations, logged before the map is touched.
BatchLog(c) ==
    /\ cpc[c] = "batchGate" /\ Admitted(c)
    /\ \E shape \in BatchShapes :
          LET rec == BatchRecord(shape, Stamp) IN
          /\ log' = Append(log, rec)
          /\ todo' = [todo EXCEPT ![c] = rec]
          /\ hist' = Append(hist, Apply(Tip, rec))
          /\ txs' = txs \cup {[at |-> Stamp, keys |-> DOMAIN shape]}
    /\ cpc' = [cpc EXCEPT ![c] = "batch"]
    /\ UNCHANGED <<map, sharedVars, flushAt, wpc, pending, dirty, runVars,
                   diskVars, acked, crashes>>

\* set_many: takes the lock; each entry is logged and applied in its own step.
ManyLock(c) ==
    /\ cpc[c] = "manyGate" /\ Admitted(c)
    /\ \E shape \in BatchShapes :
          todo' = [todo EXCEPT ![c] = BatchRecord(shape, Missing)]
    /\ RoomFor(Cardinality(Keys))
    /\ cpc' = [cpc EXCEPT ![c] = "many"]
    /\ UNCHANGED <<map, log, sharedVars, flushAt, wpc, pending, dirty, runVars,
                   diskVars, ghostVars>>

\* A closed or failed log refuses the operation and the gate is released.
GateRefused(c) ==
    /\ cpc[c] \in {"batchGate", "manyGate"}
    /\ LockFree
    /\ closed \/ failed \/ ~RoomFor(Cardinality(Keys))
    /\ cpc' = [cpc EXCEPT ![c] = "idle"]
    /\ UNCHANGED <<map, log, sharedVars, todo, flushAt, wpc, pending, dirty,
                   runVars, diskVars, ghostVars>>

Without(rec, k) == [rec EXCEPT ![k] = Untouched]

BatchApply(c) ==
    /\ cpc[c] = "batch"
    /\ \E k \in Touched(todo[c]) :
          /\ map' = [map EXCEPT ![k] = todo[c][k]]
          /\ todo' = [todo EXCEPT ![c] = Without(todo[c], k)]
    /\ UNCHANGED <<log, sharedVars, cpc, flushAt, wpc, pending, dirty, runVars,
                   diskVars, ghostVars>>

ManyApply(c) ==
    /\ cpc[c] = "many"
    /\ \E k \in Touched(todo[c]) :
          LET rec == SetRecord(k, Stamp) IN
          /\ map' = Apply(map, rec)
          /\ log' = Append(log, rec)
          /\ hist' = Append(hist, Apply(Tip, rec))
          /\ todo' = [todo EXCEPT ![c] = Without(todo[c], k)]
    /\ UNCHANGED <<sharedVars, cpc, flushAt, wpc, pending, dirty, runVars,
                   diskVars, txs, acked, crashes>>

\* The closure is done: the log lock and then the gate are released.
Release(c) ==
    /\ cpc[c] \in {"batch", "many"}
    /\ todo[c] = NoWrites
    /\ cpc' = [cpc EXCEPT ![c] = "idle"]
    /\ UNCHANGED <<map, log, sharedVars, todo, flushAt, wpc, pending, dirty,
                   runVars, diskVars, ghostVars>>

\* Mutant: flush does not look at Log.closed.
FlushOnClosed(c) ==
    /\ Up /\ cpc[c] = "idle" /\ LockFree
    /\ flushes' = flushes \cup {c}
    /\ flushAt' = [flushAt EXCEPT ![c] = Len(hist)]
    /\ cpc' = [cpc EXCEPT ![c] = "flush"]
    /\ UNCHANGED <<map, log, closed, failed, todo, wpc, pending, dirty, runVars,
                   diskVars, ghostVars>>

\* flush queues an ack channel under the lock and blocks on it; a failed log still takes it.
Flush(c) ==
    /\ Up /\ cpc[c] = "idle" /\ LockFree /\ ~closed
    /\ flushes' = flushes \cup {c}
    /\ flushAt' = [flushAt EXCEPT ![c] = Len(hist)]
    /\ cpc' = [cpc EXCEPT ![c] = "flush"]
    /\ UNCHANGED <<map, log, closed, failed, todo, wpc, pending, dirty, runVars,
                   diskVars, ghostVars>>

\* close marks the log and joins the writer; a second close waits for the first one's join.
Close(c) ==
    /\ Up /\ cpc[c] = "idle" /\ LockFree
    /\ closed' = TRUE
    /\ cpc' = [cpc EXCEPT ![c] = "join"]
    /\ UNCHANGED <<map, log, flushes, failed, todo, flushAt, wpc, pending, dirty,
                   runVars, diskVars, ghostVars>>

Joined(c) ==
    /\ cpc[c] = "join" /\ wpc = "done"
    /\ cpc' = [cpc EXCEPT ![c] = "idle"]
    /\ UNCHANGED <<map, log, sharedVars, todo, flushAt, wpc, pending, dirty,
                   runVars, diskVars, ghostVars>>

ClientStep(c) ==
    \/ BatchLog(c) \/ BatchApply(c) \/ ManyLock(c) \/ ManyApply(c)
    \/ GateRefused(c) \/ Release(c) \/ ClearRemove(c) \/ ClearLog(c) \/ Joined(c)

ClientCall(c) ==
    Set(c) \/ Delete(c) \/ Clear(c) \/ GateEnter(c) \/ Flush(c) \/ Close(c)

-----------------------------------------------------------------------------
(***************************************************************************)
(* The writer thread.                                                      *)
(***************************************************************************)
Goto(from, to) == wpc = from /\ wpc' = to

\* Mutant: take_logged swaps the buffers even when bytes are pending.
CollectSwaps ==
    /\ Goto("collect", "write") /\ LockFree
    /\ pending' = log /\ log' = <<>>
    /\ taken' = flushes /\ flushes' = {}
    /\ closing' = closed
    /\ UNCHANGED <<map, closed, failed, clientVars, dirty, captured, diskVars,
                   ghostVars>>

\* collect: take the queued bytes and acks in one critical section.
Collect ==
    /\ Goto("collect", "write") /\ LockFree
    /\ pending' = pending \o log /\ log' = <<>>
    /\ taken' = flushes /\ flushes' = {}
    /\ closing' = closed
    /\ UNCHANGED <<map, closed, failed, clientVars, dirty, captured, diskVars,
                   ghostVars>>

\* write_pending clears the buffer whether or not the write succeeds.
WriteOk ==
    /\ wal' = wal \o pending
    /\ dirty' = TRUE
    /\ pending' = <<>>
    /\ UNCHANGED failed

\* write_all failed after some of the bytes, perhaps in the middle of a record.
WriteFails ==
    /\ "write" \in Faults
    /\ \E n \in 0..(Len(pending) - 1), tail \in {<<>>, <<Torn>>} :
          wal' = wal \o SubSeq(pending, 1, n) \o tail
    /\ pending' = <<>>
    /\ failed' = TRUE
    /\ UNCHANGED dirty

\* write_pending then goes to `strict`, its own fsync, or to `next`.
WritePending(strict, next) ==
    \/ /\ pending = <<>>
       /\ wpc' = next
       /\ UNCHANGED <<wal, dirty, pending, failed>>
    \/ /\ pending # <<>>
       /\ WriteOk
       /\ wpc' = IF Durability = "strict" THEN strict ELSE next
    \/ /\ pending # <<>>
       /\ WriteFails
       /\ wpc' = next

\* sync_data on the WAL, skipped when nothing was written since the last one.
Sync ==
    \/ ~dirty /\ UNCHANGED <<stable, dirty, failed>>
    \/ dirty /\ stable' = wal /\ dirty' = FALSE /\ UNCHANGED failed
    \/ dirty /\ "sync" \in Faults /\ failed' = TRUE /\ UNCHANGED <<stable, dirty>>

Urgent == closing \/ taken # {}
AfterWrite == IF Urgent THEN "sync" ELSE "maintain"

Write ==
    /\ wpc = "write"
    /\ WritePending("strictSync", AfterWrite)
    /\ UNCHANGED <<map, log, flushes, closed, clientVars, runVars, stable, snap,
                   stableSnap, ghostVars>>

\* Nothing urgent and the group window has not elapsed.
HoldWrite ==
    /\ Goto("write", "maintain") /\ ~Urgent /\ pending # <<>>
    /\ UNCHANGED <<map, log, sharedVars, clientVars, pending, dirty, runVars,
                   diskVars, ghostVars>>

SyncStep(from, to) ==
    /\ Goto(from, to) /\ Sync
    /\ UNCHANGED <<map, log, flushes, closed, clientVars, pending, runVars, wal,
                   snap, stableSnap, ghostVars>>

StrictSync  == SyncStep("strictSync", AfterWrite)
BarrierSync == SyncStep("sync", "ack")
TimedSync   == Durability = "relaxed" /\ dirty /\ SyncStep("maintain", "compact")

\* Mutant: after an error the acks are dropped without an answer.
AckOnlyOnSuccess(c) ==
    /\ wpc = "ack" /\ c \in taken /\ wpc' = wpc
    /\ taken' = taken \ {c}
    /\ cpc' = IF failed THEN cpc ELSE [cpc EXCEPT ![c] = "idle"]
    /\ UNCHANGED <<map, log, sharedVars, todo, flushAt, pending, dirty, closing,
                   captured, diskVars, ghostVars>>

\* Each ack carries the sticky error if there is one, and wakes its caller.
Ack(c) ==
    /\ wpc = "ack" /\ c \in taken /\ wpc' = wpc
    /\ taken' = taken \ {c}
    /\ cpc' = [cpc EXCEPT ![c] = "idle"]
    /\ acked' = IF ~failed /\ flushAt[c] > acked THEN flushAt[c] ELSE acked
    /\ UNCHANGED <<map, log, sharedVars, todo, flushAt, pending, dirty, closing,
                   captured, diskVars, hist, txs, crashes>>

\* Mutant: a failed writer does not return on close.
AcksDoneStaysOnError ==
    /\ wpc = "ack" /\ taken = {}
    /\ wpc' = IF closing /\ ~failed THEN "done" ELSE "maintain"
    /\ UNCHANGED <<map, log, sharedVars, clientVars, pending, dirty, runVars,
                   diskVars, ghostVars>>

\* After a close the thread returns, otherwise it goes on to its maintenance.
AcksDone ==
    /\ wpc = "ack" /\ taken = {}
    /\ wpc' = IF closing THEN "done" ELSE "maintain"
    /\ acked' = IF closing /\ ~failed THEN Len(hist) ELSE acked
    /\ UNCHANGED <<map, log, sharedVars, clientVars, pending, dirty, runVars,
                   diskVars, hist, txs, crashes>>

-----------------------------------------------------------------------------
(***************************************************************************)
(* Compaction.  The write side of the gate keeps multi-key operations out  *)
(* while the queue is written and the map captured; single-key operations  *)
(* go on.                                                                  *)
(***************************************************************************)
CompactStart ==
    /\ wpc \in {"maintain", "compact"} /\ wpc' = "gate"
    /\ Len(wal) >= CompactMin
    /\ UNCHANGED <<map, log, sharedVars, clientVars, pending, dirty, runVars,
                   diskVars, ghostVars>>

\* Mutant: the write side of the gate does not wait for its readers.
CompactGateOpen ==
    /\ Goto("gate", "take")
    /\ UNCHANGED <<map, log, sharedVars, clientVars, pending, dirty, runVars,
                   diskVars, ghostVars>>

CompactGate ==
    /\ Goto("gate", "take") /\ Readers = {}
    /\ UNCHANGED <<map, log, sharedVars, clientVars, pending, dirty, runVars,
                   diskVars, ghostVars>>

\* Mutant: the queue goes in front of the bytes that were already pending.
CompactTakeReordered ==
    /\ Goto("take", "compactWrite") /\ LockFree
    /\ pending' = log \o pending /\ log' = <<>>
    /\ UNCHANGED <<map, sharedVars, clientVars, dirty, runVars, diskVars, ghostVars>>

CompactTake ==
    /\ Goto("take", "compactWrite") /\ LockFree
    /\ pending' = pending \o log /\ log' = <<>>
    /\ UNCHANGED <<map, sharedVars, clientVars, dirty, runVars, diskVars, ghostVars>>

CompactWrite ==
    /\ wpc = "compactWrite"
    /\ WritePending("compactStrict", "capture")
    /\ UNCHANGED <<map, log, flushes, closed, clientVars, runVars, stable, snap,
                   stableSnap, ghostVars>>

CompactStrictSync == SyncStep("compactStrict", "capture")

\* Mutant: capture stops after the first key.
CaptureStopsEarly ==
    /\ wpc = "capture"
    /\ \E k \in Keys \ Touched(captured) :
          /\ captured' = [captured EXCEPT ![k] = map[k]]
          /\ wpc' = "compactSync"
    /\ UNCHANGED <<map, log, sharedVars, clientVars, pending, dirty, taken, closing,
                   diskVars, ghostVars>>

\* capture visits the keys one by one, in the order of the buckets.
Capture ==
    /\ wpc = "capture"
    /\ \E k \in Keys \ Touched(captured) :
          /\ captured' = [captured EXCEPT ![k] = map[k]]
          /\ wpc' = IF Keys = Touched(captured) \cup {k} THEN "compactSync" ELSE "capture"
    /\ UNCHANGED <<map, log, sharedVars, clientVars, pending, dirty, taken, closing,
                   diskVars, ghostVars>>

CompactSync == SyncStep("compactSync", "persist")

\* A failure of the writer so far abandons the compaction.
CompactGivesUp ==
    /\ Goto("persist", "sweep") /\ failed
    /\ captured' = Torn
    /\ UNCHANGED <<map, log, sharedVars, clientVars, pending, dirty, taken, closing,
                   diskVars, ghostVars>>

\* Mutant: the snapshot is written although the writer has failed.
PersistAfterFailure ==
    /\ Goto("persist", "dirSync")
    /\ snap' = captured /\ captured' = Torn
    /\ UNCHANGED <<map, log, sharedVars, clientVars, pending, dirty, taken, closing,
                   wal, stable, stableSnap, ghostVars>>

\* The temporary file is written, fsynced and renamed over the snapshot.
Persist ==
    /\ Goto("persist", "dirSync") /\ ~failed
    /\ snap' = captured /\ captured' = Torn
    /\ UNCHANGED <<map, log, sharedVars, clientVars, pending, dirty, taken, closing,
                   wal, stable, stableSnap, ghostVars>>

PersistFails ==
    /\ Goto("persist", "sweep") /\ ~failed /\ "persist" \in Faults
    /\ failed' = TRUE /\ captured' = Torn
    /\ UNCHANGED <<map, log, flushes, closed, clientVars, pending, dirty, taken,
                   closing, diskVars, ghostVars>>

\* Mutant: the directory is never fsynced.
DirNotSynced ==
    /\ Goto("dirSync", "truncate")
    /\ UNCHANGED <<map, log, sharedVars, clientVars, pending, dirty, runVars, diskVars,
                   ghostVars>>

\* The rename reaches the disk with the directory; a failure here is ignored.
DirSync ==
    /\ Goto("dirSync", "truncate")
    /\ \/ stableSnap' = snap
       \/ "dirsync" \in Faults /\ UNCHANGED stableSnap
    /\ UNCHANGED <<map, log, sharedVars, clientVars, pending, dirty, runVars, wal,
                   stable, snap, ghostVars>>

Truncate ==
    /\ \/ Goto("truncate", "truncateSync") /\ wal' = <<>> /\ UNCHANGED failed
       \/ Goto("truncate", "sweep") /\ "truncate" \in Faults
          /\ failed' = TRUE /\ UNCHANGED wal
    /\ UNCHANGED <<map, log, flushes, closed, clientVars, pending, dirty, runVars,
                   stable, snap, stableSnap, ghostVars>>

TruncateSync ==
    /\ Goto("truncateSync", "sweep")
    /\ \/ stable' = wal /\ dirty' = FALSE /\ UNCHANGED failed
       \/ "truncate" \in Faults /\ failed' = TRUE /\ UNCHANGED <<stable, dirty>>
    /\ UNCHANGED <<map, log, flushes, closed, clientVars, pending, runVars, wal, snap,
                   stableSnap, ghostVars>>

\* sweep_and_evict removes a doomed key under the log lock and takes the queue with it.
Sweep ==
    /\ wpc \in {"maintain", "compact", "sweep"} /\ wpc' = "sweep"
    /\ LockFree /\ Room /\ ~closed
    /\ \E k \in Doomable \cap Present :
          LET rec == DeleteRecord(k) IN
          /\ map' = Apply(map, rec)
          /\ pending' = (pending \o log) \o <<rec>>
          /\ hist' = Append(hist, Apply(Tip, rec))
    /\ log' = <<>>
    /\ UNCHANGED <<sharedVars, clientVars, dirty, runVars, diskVars, txs, acked, crashes>>

\* Back to the top of the loop, through park.
Loop ==
    /\ wpc \in {"maintain", "compact", "sweep"} /\ wpc' = "collect"
    /\ UNCHANGED <<map, log, sharedVars, clientVars, pending, dirty, runVars,
                   diskVars, ghostVars>>

WriterStep ==
    \/ Collect \/ Write \/ HoldWrite \/ StrictSync \/ BarrierSync \/ TimedSync
    \/ (\E c \in Clients : Ack(c)) \/ AcksDone
    \/ CompactStart \/ CompactGate \/ CompactTake \/ CompactWrite \/ CompactStrictSync
    \/ Capture \/ CompactSync \/ CompactGivesUp \/ Persist \/ PersistFails \/ DirSync
    \/ Truncate \/ TruncateSync \/ Sweep \/ Loop

-----------------------------------------------------------------------------
(***************************************************************************)
(* Crashes and recovery.  A kill ends the process and leaves the page      *)
(* cache; a write under way may have got some of its bytes there.  A power *)
(* loss keeps of the WAL what was fsynced and any prefix of the rest, and  *)
(* of two snapshots the old one unless the directory was fsynced.          *)
(***************************************************************************)
KillWals ==
    IF wpc \in {"write", "compactWrite"}
    THEN {wal \o p : p \in Prefixes(pending)} \cup
         {wal \o Append(p, Torn) : p \in Prefixes(pending) \ {pending}}
    ELSE {wal}

PowerWals ==
    IF Len(stable) <= Len(wal) /\ stable = SubSeq(wal, 1, Len(stable))
    THEN {SubSeq(wal, 1, n) : n \in Len(stable)..Len(wal)}
    ELSE {stable} \cup Prefixes(wal)

\* The process is gone with everything it held in memory.
MemoryLost ==
    /\ crashes < MaxCrashes /\ crashes' = crashes + 1
    /\ wpc' = "down"
    /\ map' = NoKeys /\ log' = <<>> /\ flushes' = {}
    /\ closed' = FALSE /\ failed' = FALSE
    /\ cpc' = ClientIdle
    /\ todo' = [c \in Clients |-> NoWrites]
    /\ flushAt' = [c \in Clients |-> 0]
    /\ pending' = <<>> /\ taken' = {} /\ closing' = FALSE
    /\ dirty' = FALSE /\ captured' = Torn
    /\ UNCHANGED <<hist, txs, acked>>

Kill ==
    /\ "kill" \in CrashKinds /\ Up
    /\ wal' \in KillWals
    /\ MemoryLost
    /\ UNCHANGED <<stable, snap, stableSnap>>

PowerLoss ==
    /\ "power" \in CrashKinds
    /\ wal' \in PowerWals /\ stable' = wal'
    /\ snap' \in {snap, stableSnap} /\ stableSnap' = snap'
    /\ MemoryLost

(***************************************************************************)
(* Store::open after a crash, or after a close that was joined: load the   *)
(* snapshot, replay the WAL, cut and fsync it if its tail is unreadable,   *)
(* and start a writer whose `dirty` is false.                              *)
(***************************************************************************)
Reopen ==
    /\ \/ wpc = "down" /\ "crash" \in ReopenAfter
       \/ wpc = "done" /\ cpc = ClientIdle /\ "close" \in ReopenAfter
    /\ Room
    /\ map' = Replay(snap, wal)
    /\ hist' = Append(hist, Replay(snap, wal))
    /\ wal' = ReadablePrefix(wal)
    /\ stable' = IF ReadableLen(wal) < Len(wal) THEN wal' ELSE stable
    /\ wpc' = "collect"
    /\ closed' = FALSE /\ failed' = FALSE /\ closing' = FALSE /\ dirty' = FALSE
    /\ log' = <<>> /\ pending' = <<>>
    /\ UNCHANGED <<flushes, clientVars, taken, captured, snap, stableSnap, txs, acked,
                   crashes>>

Next ==
    \/ \E c \in Clients : ClientCall(c) \/ ClientStep(c)
    \/ WriterStep
    \/ Kill \/ PowerLoss \/ Reopen

Spec == Init /\ [][Next]_vars

(***************************************************************************)
(* A thread inside the store keeps running; callers may stop calling.  The *)
(* writer's fairness is strong because it waits for two locks: std's       *)
(* RwLock lets no new reader in while a writer waits, so the writer cannot *)
(* be kept out of the gate by a stream of short batches.                   *)
(***************************************************************************)
Fairness ==
    /\ SF_vars(WriterStep)
    /\ \A c \in Clients : WF_vars(ClientStep(c))

FairSpec == Spec /\ Fairness
-----------------------------------------------------------------------------
(***************************************************************************)
(* Properties.                                                             *)
(***************************************************************************)
TypeOK ==
    /\ map \in MapType /\ log \in Seq(Record) /\ flushes \subseteq Clients
    /\ closed \in BOOLEAN /\ failed \in BOOLEAN
    /\ cpc \in [Clients -> {"idle", "batchGate", "manyGate", "batch", "many", "clear",
                        "flush", "join"}]
    /\ todo \in [Clients -> Record] /\ flushAt \in [Clients -> Nat]
    /\ wpc \in {"down", "done", "collect", "write", "strictSync", "sync", "ack", "maintain",
                "compact", "gate", "take", "compactWrite", "compactStrict", "capture",
                "compactSync", "persist", "dirSync", "truncate", "truncateSync", "sweep"}
    /\ pending \in Seq(Record) /\ taken \subseteq Clients /\ closing \in BOOLEAN
    /\ dirty \in BOOLEAN /\ captured \in Record
    /\ wal \in Seq(Record) /\ stable \in Seq(Record)
    /\ snap \in MapType /\ stableSnap \in MapType
    /\ hist \in Seq(MapType) /\ Len(hist) >= 1
    /\ txs \subseteq [at : Nat, keys : SUBSET Keys]
    /\ acked \in Nat /\ crashes \in Nat

\* What the next crash of an allowed kind may leave in the two files.
Images ==
    (IF "kill" \in CrashKinds /\ Up THEN {snap} \X KillWals ELSE {})
    \cup (IF "power" \in CrashKinds THEN {snap, stableSnap} \X PowerWals ELSE {})

Recovered == {Replay(image[1], image[2]) : image \in Images}

\* Key k of m is as some state of the map, from index i on, had it.
AsOf(m, k, i) == \E j \in i..Len(hist) : hist[j][k] = m[k]

(***************************************************************************)
(* flush() "returns only after everything written so far is on disk", and  *)
(* the writer fsyncs before it returns on close: whatever crash comes      *)
(* next, no key is recovered with a value older than the last answered     *)
(* flush or clean close.                                                   *)
(***************************************************************************)
FlushDurable == \A m \in Recovered : \A k \in Keys : AsOf(m, k, acked)

(***************************************************************************)
(* "Replay after a crash applies either all staged writes or none": if a   *)
(* key is recovered with the value a batch gave it, then every key of that *)
(* batch is recovered as of the batch or later.                            *)
(***************************************************************************)
BatchAtomic ==
    \A m \in Recovered : \A tx \in txs :
        (\E k \in tx.keys : m[k] = tx.at) => \A k \in tx.keys : AsOf(m, k, tx.at)

(***************************************************************************)
(* "Log order always matches map order": as long as no I/O failed, the     *)
(* snapshot, the WAL, the writer's buffer and the log, replayed in that    *)
(* order, give the state of the map, even halfway through a compaction.    *)
(* A clear logs its record last, so until then the two differ.             *)
(***************************************************************************)
Clearing == \E c \in Clients : cpc[c] = "clear"

LogMatchesMap ==
    Up /\ ~failed /\ ~Clearing => Replay(snap, (wal \o pending) \o log) = Tip

(***************************************************************************)
(* The compaction gate: a multi-key operation never has some of its writes *)
(* in the map and others not while the snapshot is captured.               *)
(***************************************************************************)
CaptureSeesWholeBatches ==
    wpc = "capture" => \A c \in Clients : todo[c] = NoWrites

(***************************************************************************)
(* "Stops new map and WAL mutations and waits for admitted ones": once the *)
(* log is closed the map and the log keep what they have until the store   *)
(* is opened again, apart from the writer draining the log.                *)
(***************************************************************************)
ClosedIsFinal ==
    [][closed /\ closed' => map' = map /\ log' \in {log, <<>>} /\ hist' = hist]_vars

(***************************************************************************)
(* A thread that returned from close left nothing behind: unless an I/O    *)
(* error is recorded, every logged record has been fsynced.                *)
(***************************************************************************)
CloseDrains ==
    wpc = "done" =>
        /\ flushes = {} /\ taken = {} /\ log = <<>> /\ pending = <<>>
        /\ ~failed => ~dirty

\* Every flush is answered and every close returns (or the process dies).
FlushAnswered == \A c \in Clients : cpc[c] = "flush" ~> cpc[c] = "idle"
CloseReturns  == \A c \in Clients : cpc[c] = "join" ~> cpc[c] = "idle"

(***************************************************************************)
(* What survives_reopen (tests/persistence.rs) tests once: a store that    *)
(* was closed without an error and is opened again has the map it was      *)
(* closed with, whatever was compacted, swept or half written on the way,  *)
(* and however many calls raced the close.                                 *)
(***************************************************************************)
CleanCloseKeeps ==
    [][wpc = "done" /\ ~failed /\ wpc' = "collect" => map' = map]_vars

(***************************************************************************)
(* All of the machinery implements a store whose flushes, closes and       *)
(* transactions keep their promises through crashes: each client sees a    *)
(* DurableStore.                                                           *)
(***************************************************************************)
Durable == INSTANCE DurableStore WITH
    past    <- hist,
    durable <- acked,
    batches <- txs,
    waiting <- [c \in Clients |-> IF cpc[c] = "flush" THEN flushAt[c] ELSE 0],
    mode    <- IF wpc = "down" THEN "down" ELSE IF closed THEN "closed" ELSE "open",
    broken  <- failed

ImplementsDurable == Durable!Spec
=============================================================================
