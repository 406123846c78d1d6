--------------------------- MODULE WalStore_proofs ---------------------------
(***************************************************************************)
(* Theorems about WalStore, for any sets of keys, clients and batches, any *)
(* durability, faults, crashes and bounds.                                 *)
(***************************************************************************)
EXTENDS WalStore, KVRecords_proofs, SequenceTheorems

USE DEF Missing, Untouched

\* The records the operations build are records, and none of them is the torn one.
LEMMA RecordTypes ==
    /\ NoKeys \in MapType /\ Torn \in Record /\ NoWrites \in Record
    /\ \A k \in Keys, v \in Nat : SetRecord(k, v) \in Record /\ SetRecord(k, v) # Torn
    /\ \A k \in Keys : DeleteRecord(k) \in Record /\ DeleteRecord(k) # Torn
    /\ ClearRecord \in Record /\ ClearRecord # Torn
    /\ \A shape \in BatchShapes, v \in Nat :
          BatchRecord(shape, v) \in Record /\ BatchRecord(shape, v) # Torn
<1>1. NoKeys \in MapType /\ Torn \in Record /\ NoWrites \in Record
  BY DEF NoKeys, MapType, Torn, NoWrites, Record, Value
<1>2. ASSUME NEW k \in Keys, NEW v \in Nat
      PROVE  SetRecord(k, v) \in Record /\ SetRecord(k, v) # Torn
  <2>1. SetRecord(k, v)[k] = v /\ Torn[k] = -1
    BY DEF SetRecord, Torn
  <2> QED
    BY <2>1 DEF SetRecord, Record, Value
<1>3. ClearRecord \in Record /\ ClearRecord # Torn
  <2>1. PICK k \in Keys : TRUE
    BY WalStoreAssumption
  <2>2. ClearRecord[k] = 0 /\ Torn[k] = -1
    BY DEF ClearRecord, Torn
  <2> QED
    BY <2>2 DEF ClearRecord, Record, Value
<1>4. ASSUME NEW shape \in BatchShapes, NEW v \in Nat
      PROVE  BatchRecord(shape, v) \in Record /\ BatchRecord(shape, v) # Torn
  <2>1. PICK K \in (SUBSET Keys) \ {{}} : shape \in [K -> BOOLEAN]
    BY WalStoreAssumption
  <2>2. PICK k \in K : TRUE
    BY <2>1
  <2>3. BatchRecord(shape, v)[k] \in Nat /\ Torn[k] = -1
    BY <2>1, <2>2 DEF BatchRecord, Torn
  <2> QED
    BY <2>3 DEF BatchRecord, Record, Value
<1> QED
  BY <1>1, <1>2, <1>3, <1>4 DEF DeleteRecord

\* Applying a record to a map, or one write of it, gives a map.
LEMMA ApplyType ==
    /\ \A m \in MapType, rec \in Record : Apply(m, rec) \in MapType
    /\ \A m \in MapType, rec \in Record, k \in Keys :
          k \in Touched(rec) => [m EXCEPT ![k] = rec[k]] \in MapType
    /\ \A rec \in Record, k \in Keys : Without(rec, k) \in Record
BY DEF Apply, MapType, Record, Touched, Without, Value

-----------------------------------------------------------------------------
(***************************************************************************)
(* Type correctness.  TypeOK alone is not inductive: the snapshot is the   *)
(* captured part of the map, which is a map only once every key has been   *)
(* visited.                                                                *)
(***************************************************************************)
CapturedWhole == wpc \in {"compactSync", "persist"} => Touched(captured) = Keys

TypeInv == TypeOK /\ CapturedWhole

\* The empty sequence is a log.
LEMMA NoRecords == <<>> \in Seq(Record)
OBVIOUS

\* The initial state has the types.
LEMMA TypeInit == Init => TypeInv
<1> SUFFICES ASSUME Init PROVE TypeInv
  OBVIOUS
<1> USE RecordTypes DEF Init, ClientIdle
<1>1. hist \in Seq(MapType) /\ Len(hist) >= 1
  <2>1. hist = <<NoKeys>> /\ NoKeys \in MapType
    OBVIOUS
  <2> HIDE DEF Init
  <2> QED
    BY <2>1
<1>2. TypeOK
  BY <1>1, NoRecords DEF TypeOK, NoWrites
<1> QED
  BY <1>2 DEF TypeInv, CapturedWhole

\* The history of the map is never empty, and its next entry is a map.
LEMMA HistType ==
    ASSUME TypeOK
    PROVE  /\ Tip \in MapType /\ Stamp \in Nat
           /\ \A m \in MapType : Append(hist, m) \in Seq(MapType) /\ Len(Append(hist, m)) >= 1
BY DEF TypeOK, Tip, Stamp

\* write_pending adds to the WAL records, whole or torn.
LEMMA WriteTypes ==
    ASSUME TypeOK, NEW strict, NEW STATE next, WritePending(strict, next)
    PROVE  /\ wal' \in Seq(Record) /\ pending' = <<>> /\ dirty' \in BOOLEAN
           /\ failed' \in BOOLEAN /\ wpc' \in {strict, next}
<1>1. wal \in Seq(Record) /\ pending \in Seq(Record) /\ dirty \in BOOLEAN /\ failed \in BOOLEAN
  BY DEF TypeOK
<1>2. CASE pending = <<>> /\ wpc' = next /\ UNCHANGED <<wal, dirty, pending, failed>>
  BY <1>1, <1>2
<1>3. CASE WriteOk /\ wpc' = IF Durability = "strict" THEN strict ELSE next
  BY <1>1, <1>3 DEF WriteOk
<1>4. CASE pending # <<>> /\ WriteFails /\ wpc' = next
  <2>1. PICK n \in 0..(Len(pending) - 1), tail \in {<<>>, <<Torn>>} :
            wal' = wal \o SubSeq(pending, 1, n) \o tail
    BY <1>4 DEF WriteFails
  <2>2. Len(pending) \in Nat /\ n <= Len(pending)
    BY <1>1
  <2>3. SubSeq(pending, 1, n) \in Seq(Record)
    BY <1>1, <2>2
  <2>4. tail \in Seq(Record)
    <3>1. Torn \in Record
      BY RecordTypes
    <3>2. <<Torn>> \in Seq(Record)
      BY <3>1
    <3> QED
      BY <3>2, NoRecords
  <2>5. wal' \in Seq(Record)
    BY <1>1, <2>1, <2>3, <2>4
  <2> QED
    BY <1>1, <1>4, <2>5 DEF WriteFails
<1> QED
  BY <1>2, <1>3, <1>4 DEF WritePending

\* An operation on one key, or a clear.
LEMMA MutateTypes ==
    ASSUME TypeInv, NEW c \in Clients, NEW rec \in Record, Mutate(c, rec)
    PROVE  TypeInv'
<1>1. Apply(map, rec) \in MapType /\ Apply(Tip, rec) \in MapType
  BY HistType, ApplyType DEF TypeInv, TypeOK
<1>2. map' \in MapType /\ hist' \in Seq(MapType) /\ Len(hist') >= 1
  BY <1>1, HistType DEF Mutate, TypeInv
<1>3. log' \in Seq(Record)
  BY DEF Mutate, TypeInv, TypeOK
<1> QED
  BY <1>2, <1>3 DEF Mutate, TypeInv, TypeOK, CapturedWhole, clientVars, sharedVars, diskVars,
     runVars

\* A step of a client keeps the types.
LEMMA TypeClient ==
    ASSUME TypeInv, NEW c \in Clients, ClientCall(c) \/ ClientStep(c)
    PROVE  TypeInv'
<1> USE DEF TypeInv, TypeOK, CapturedWhole, clientVars, sharedVars, diskVars, runVars, ghostVars
<1>1. CASE Set(c)
  BY <1>1, MutateTypes, HistType, RecordTypes DEF Set
<1>2. CASE Delete(c)
  BY <1>2, MutateTypes, RecordTypes DEF Delete, Present, DeleteRecord
<1>3. CASE Clear(c)
  <2>1. hist' \in Seq(MapType) /\ Len(hist') >= 1
    BY <1>3, HistType, RecordTypes DEF Clear
  <2> QED
    BY <1>3, <2>1 DEF Clear
<1>4. CASE GateEnter(c)
  BY <1>4 DEF GateEnter
<1>5. CASE Flush(c)
  <2>1. Len(hist) \in Nat
    OBVIOUS
  <2> QED
    BY <1>5, <2>1 DEF Flush
<1>6. CASE Close(c)
  BY <1>6 DEF Close
<1>7. CASE BatchLog(c)
  <2>1. PICK shape \in BatchShapes :
            /\ log' = Append(log, BatchRecord(shape, Stamp))
            /\ todo' = [todo EXCEPT ![c] = BatchRecord(shape, Stamp)]
            /\ hist' = Append(hist, Apply(Tip, BatchRecord(shape, Stamp)))
            /\ txs' = txs \cup {[at |-> Stamp, keys |-> DOMAIN shape]}
    BY <1>7 DEF BatchLog
  <2> DEFINE rec == BatchRecord(shape, Stamp)
  <2>2. rec \in Record /\ Apply(Tip, rec) \in MapType
    BY HistType, RecordTypes, ApplyType
  <2>3. [at |-> Stamp, keys |-> DOMAIN shape] \in [at : Nat, keys : SUBSET Keys]
    <3>1. PICK K \in SUBSET Keys : shape \in [K -> BOOLEAN]
      BY WalStoreAssumption
    <3> QED
      BY <3>1, HistType
  <2>4. hist' \in Seq(MapType) /\ Len(hist') >= 1
    BY <2>1, <2>2, HistType
  <2> HIDE DEF rec
  <2>5. log' \in Seq(Record) /\ todo' \in [Clients -> Record]
    BY <2>1, <2>2 DEF rec
  <2>6. txs' \subseteq [at : Nat, keys : SUBSET Keys]
    BY <2>1, <2>3
  <2> QED
    BY <1>7, <2>4, <2>5, <2>6 DEF BatchLog
<1>8. CASE BatchApply(c)
  <2>1. PICK k \in Touched(todo[c]) :
            /\ map' = [map EXCEPT ![k] = todo[c][k]]
            /\ todo' = [todo EXCEPT ![c] = Without(todo[c], k)]
    BY <1>8 DEF BatchApply
  <2>2. k \in Keys
    BY DEF Touched
  <2>3. map' \in MapType
    BY <2>1, <2>2, ApplyType
  <2>4. todo' \in [Clients -> Record]
    BY <2>1, <2>2, ApplyType
  <2> QED
    BY <1>8, <2>3, <2>4 DEF BatchApply
<1>9. CASE ManyLock(c)
  <2>1. PICK shape \in BatchShapes : todo' = [todo EXCEPT ![c] = BatchRecord(shape, Missing)]
    BY <1>9 DEF ManyLock
  <2>2. BatchRecord(shape, Missing) \in Record
    BY RecordTypes
  <2>3. todo' \in [Clients -> Record]
    BY <2>1, <2>2
  <2> QED
    BY <1>9, <2>3 DEF ManyLock
<1>10. CASE ManyApply(c)
  <2>1. PICK k \in Touched(todo[c]) :
            /\ map' = Apply(map, SetRecord(k, Stamp))
            /\ log' = Append(log, SetRecord(k, Stamp))
            /\ hist' = Append(hist, Apply(Tip, SetRecord(k, Stamp)))
            /\ todo' = [todo EXCEPT ![c] = Without(todo[c], k)]
    BY <1>10 DEF ManyApply
  <2>2. k \in Keys /\ SetRecord(k, Stamp) \in Record
    BY HistType, RecordTypes DEF Touched
  <2>3. map' \in MapType /\ hist' \in Seq(MapType) /\ Len(hist') >= 1
    BY <2>1, <2>2, HistType, ApplyType
  <2>4. log' \in Seq(Record) /\ todo' \in [Clients -> Record]
    BY <2>1, <2>2, ApplyType
  <2> QED
    BY <1>10, <2>3, <2>4 DEF ManyApply
<1>11. CASE GateRefused(c)
  BY <1>11 DEF GateRefused
<1>12. CASE Release(c)
  BY <1>12 DEF Release
<1>13. CASE Joined(c)
  BY <1>13 DEF Joined
<1>14. CASE ClearRemove(c)
  BY <1>14 DEF ClearRemove, Present, MapType, Value
<1>15. CASE ClearLog(c)
  <2>1. log' = Append(log, ClearRecord)
    BY <1>15 DEF ClearLog
  <2>2. log' \in Seq(Record)
    BY <2>1, RecordTypes
  <2> QED
    BY <1>15, <2>2 DEF ClearLog
<1> QED
  BY <1>1, <1>2, <1>3, <1>4, <1>5, <1>6, <1>7, <1>8, <1>9, <1>10, <1>11, <1>12, <1>13,
     <1>14, <1>15
     DEF ClientCall, ClientStep

\* A step of the writer keeps the types.
LEMMA TypeWriter ==
    ASSUME TypeInv, WriterStep
    PROVE  TypeInv'
<1> USE RecordTypes, ApplyType DEF TypeInv, TypeOK, CapturedWhole, clientVars, sharedVars,
        diskVars, runVars, ghostVars
<1>1. CASE Collect
  BY <1>1 DEF Collect, Goto
<1>2. CASE Write
  <2>1. WritePending("strictSync", AfterWrite)
    BY <1>2 DEF Write
  <2>2. /\ wal' \in Seq(Record) /\ pending' = <<>> /\ dirty' \in BOOLEAN
        /\ failed' \in BOOLEAN /\ wpc' \in {"strictSync", AfterWrite}
    BY <2>1, WriteTypes
  <2>3. AfterWrite \in {"sync", "maintain"}
    BY DEF AfterWrite
  <2> QED
    BY <1>2, <2>2, <2>3, NoRecords DEF Write
<1>3. CASE HoldWrite
  BY <1>3 DEF HoldWrite, Goto
<1>4. CASE StrictSync
  BY <1>4 DEF StrictSync, SyncStep, Sync, Goto, AfterWrite
<1>5. CASE BarrierSync
  BY <1>5 DEF BarrierSync, SyncStep, Sync, Goto
<1>6. CASE TimedSync
  BY <1>6 DEF TimedSync, SyncStep, Sync, Goto
<1>7. CASE AcksDone
  BY <1>7 DEF AcksDone
<1>8. CASE CompactStart
  BY <1>8 DEF CompactStart
<1>9. CASE CompactGate
  BY <1>9 DEF CompactGate, Goto
<1>10. CASE CompactTake
  BY <1>10 DEF CompactTake, Goto
<1>11. CASE CompactWrite
  <2>1. WritePending("compactStrict", "capture")
    BY <1>11 DEF CompactWrite
  <2>2. /\ wal' \in Seq(Record) /\ pending' = <<>> /\ dirty' \in BOOLEAN
        /\ failed' \in BOOLEAN /\ wpc' \in {"compactStrict", "capture"}
    BY <2>1, WriteTypes
  <2> QED
    BY <1>11, <2>2, NoRecords DEF CompactWrite
<1>12. CASE CompactStrictSync
  BY <1>12 DEF CompactStrictSync, SyncStep, Sync, Goto
<1>13. CASE Capture
  <2>1. PICK k \in Keys \ Touched(captured) :
            /\ captured' = [captured EXCEPT ![k] = map[k]]
            /\ wpc' = IF Keys = Touched(captured) \cup {k} THEN "compactSync" ELSE "capture"
    BY <1>13 DEF Capture
  <2>2. map[k] \in Nat /\ captured \in Record
    BY DEF MapType, Value
  <2>3. captured' \in Record
    BY <2>1, <2>2 DEF Record, Value
  <2>4. Touched(captured') = Touched(captured) \cup {k}
    <3>1. captured'[k] # Untouched
      <4>1. captured'[k] = map[k]
        BY <2>1, <2>2 DEF Record
      <4>2. captured'[k] \in Nat
        BY <4>1, <2>2
      <4> QED
        BY ONLY <4>2
    <3>2. \A x \in Keys : x # k => captured'[x] = captured[x]
      BY <2>1, <2>2 DEF Record
    <3> QED
      BY <3>1, <3>2 DEF Touched
  <2> QED
    BY <1>13, <2>1, <2>3, <2>4 DEF Capture
<1>14. CASE CompactSync
  BY <1>14 DEF CompactSync, SyncStep, Sync, Goto
<1>15. CASE CompactGivesUp
  BY <1>15 DEF CompactGivesUp, Goto
<1>16. CASE Persist
  <2>1. captured \in MapType
    BY <1>16 DEF Persist, Goto, Record, MapType, Touched
  <2> QED
    BY <1>16, <2>1 DEF Persist, Goto
<1>17. CASE PersistFails
  BY <1>17 DEF PersistFails, Goto
<1>18. CASE DirSync
  BY <1>18 DEF DirSync, Goto
<1>19. CASE Truncate
  <2>1. <<>> \in Seq(Record)
    OBVIOUS
  <2> QED
    BY <1>19, <2>1 DEF Truncate, Goto
<1>20. CASE TruncateSync
  BY <1>20 DEF TruncateSync, Goto
<1>21. CASE Sweep
  <2>1. PICK k \in Doomable \cap Present :
            /\ map' = Apply(map, DeleteRecord(k))
            /\ pending' = (pending \o log) \o <<DeleteRecord(k)>>
            /\ hist' = Append(hist, Apply(Tip, DeleteRecord(k)))
    BY <1>21 DEF Sweep
  <2>2. DeleteRecord(k) \in Record
    BY DEF Present
  <2>3. map' \in MapType /\ hist' \in Seq(MapType) /\ Len(hist') >= 1
    BY <2>1, <2>2, HistType
  <2>4. pending' \in Seq(Record)
    BY <2>1, <2>2
  <2> QED
    BY <1>21, <2>3, <2>4, NoRecords DEF Sweep
<1>22. CASE Loop
  BY <1>22 DEF Loop
<1>23. ASSUME NEW c \in Clients, Ack(c) PROVE TypeInv'
  BY <1>23 DEF Ack
<1> QED
  BY <1>1, <1>2, <1>3, <1>4, <1>5, <1>6, <1>7, <1>8, <1>9, <1>10, <1>11, <1>12, <1>13,
     <1>14, <1>15, <1>16, <1>17, <1>18, <1>19, <1>20, <1>21, <1>22, <1>23 DEF WriterStep

\* What a kill or a power loss leaves of the WAL is a log.
LEMMA CrashWals ==
    ASSUME TypeOK
    PROVE  KillWals \subseteq Seq(Record) /\ PowerWals \subseteq Seq(Record)
<1>1. /\ wal \in Seq(Record) /\ pending \in Seq(Record) /\ stable \in Seq(Record)
      /\ Len(wal) \in Nat /\ Len(pending) \in Nat /\ Len(stable) \in Nat
  BY DEF TypeOK
<1>2. ASSUME NEW recs \in Seq(Record), Len(recs) \in Nat, NEW p \in Prefixes(recs)
      PROVE  p \in Seq(Record)
  <2>1. PICK n \in 0..Len(recs) : p = SubSeq(recs, 1, n)
    BY <1>2 DEF Prefixes
  <2> QED
    BY <1>2, <2>1
<1>3. ASSUME NEW p \in Prefixes(pending)
      PROVE  wal \o p \in Seq(Record) /\ wal \o Append(p, Torn) \in Seq(Record)
  <2>1. p \in Seq(Record) /\ Torn \in Record
    BY <1>1, <1>2, RecordTypes
  <2> QED
    BY <1>1, <2>1
<1>4. KillWals \subseteq Seq(Record)
  BY <1>1, <1>3 DEF KillWals
<1>5. \A n \in Len(stable)..Len(wal) : SubSeq(wal, 1, n) \in Seq(Record)
  BY <1>1
<1>6. PowerWals \subseteq Seq(Record)
  BY <1>1, <1>2, <1>5 DEF PowerWals
<1> QED
  BY <1>4, <1>6

\* A crash and a reopening keep the types.
LEMMA TypeCrash ==
    ASSUME TypeInv, Kill \/ PowerLoss \/ Reopen
    PROVE  TypeInv'
<1>1. ASSUME MemoryLost, wal' \in Seq(Record), stable' \in Seq(Record),
             snap' \in MapType, stableSnap' \in MapType
      PROVE  TypeInv'
  <2>1. /\ map' \in MapType /\ captured' \in Record
        /\ todo' \in [Clients -> Record] /\ flushAt' \in [Clients -> Nat]
    BY <1>1, RecordTypes DEF MemoryLost
  <2>2. /\ cpc' = ClientIdle /\ wpc' = "down" /\ log' = <<>> /\ pending' = <<>>
        /\ flushes' = {} /\ taken' = {}
        /\ closed' = FALSE /\ failed' = FALSE /\ closing' = FALSE /\ dirty' = FALSE
    BY <1>1 DEF MemoryLost
  <2>3. /\ hist' \in Seq(MapType) /\ Len(hist') >= 1
        /\ txs' \subseteq [at : Nat, keys : SUBSET Keys]
        /\ acked' \in Nat /\ crashes' \in Nat
    BY <1>1 DEF MemoryLost, TypeInv, TypeOK
  <2>4. TypeOK'
    BY <1>1, <2>1, <2>2, <2>3, NoRecords DEF TypeOK, ClientIdle
  <2> QED
    BY <2>2, <2>4 DEF TypeInv, CapturedWhole
<1>2. CASE Kill
  BY <1>1, <1>2, CrashWals DEF Kill, TypeInv, TypeOK
<1>3. CASE PowerLoss
  BY <1>1, <1>3, CrashWals DEF PowerLoss, TypeInv, TypeOK
<1>4. CASE Reopen
  <2>1. wal \in Seq(Record) /\ snap \in MapType /\ Len(wal) \in Nat
    BY DEF TypeInv, TypeOK
  <2>2. Replay(snap, wal) \in MapType
    BY <2>1, ReplayType
  <2>3. map' \in MapType /\ hist' \in Seq(MapType) /\ Len(hist') >= 1
    BY <1>4, <2>2, HistType DEF Reopen, TypeInv
  <2>4. ReadablePrefix(wal) \in Seq(Record)
    BY <2>1, ReadableShape DEF ReadablePrefix
  <2> QED
    BY <1>4, <2>3, <2>4, NoRecords DEF Reopen, TypeInv, TypeOK, CapturedWhole, clientVars
<1> QED
  BY <1>2, <1>3, <1>4

\* Every step keeps the types.
LEMMA TypeStep == TypeInv /\ [Next]_vars => TypeInv'
<1> SUFFICES ASSUME TypeInv, [Next]_vars PROVE TypeInv'
  OBVIOUS
<1>1. CASE UNCHANGED vars
  BY <1>1 DEF vars, clientVars, sharedVars, diskVars, runVars, ghostVars, TypeInv, TypeOK,
     CapturedWhole
<1> QED
  BY <1>1, TypeClient, TypeWriter, TypeCrash DEF Next

(***************************************************************************)
(* Type correctness: every state of the store has the shape TypeOK says,   *)
(* in particular what Persist installs as the snapshot is a whole map.     *)
(***************************************************************************)
THEOREM TypeCorrect == Spec => []TypeOK
<1>1. Spec => []TypeInv
  BY TypeInit, TypeStep, PTL DEF Spec
<1>2. TypeInv => TypeOK
  BY DEF TypeInv
<1> QED
  BY <1>1, <1>2, PTL

-----------------------------------------------------------------------------
(***************************************************************************)
(* Locks.  The gate keeps multi-key operations and the capture apart; the  *)
(* log lock admits one of them at a time; a client whose flush is queued   *)
(* is waiting for nothing else; and closing the log needs its lock.        *)
(***************************************************************************)
GateExcludes  == GateTaken => Readers = {}
NothingLeft   == \A c \in Clients : cpc[c] \notin {"batch", "many"} => todo[c] = NoWrites
FlushersWait  == /\ \A c \in flushes \cup taken : cpc[c] = "flush"
                 /\ flushes \cap taken = {}
Holders       == {c \in Clients : cpc[c] \in {"batch", "many", "clear"}}
OneHolder     == \A c, d \in Holders : c = d
ClosedIsFree  == closed => LockFree
DownIsIdle    == wpc = "down" => cpc = ClientIdle

LockInv ==
    /\ GateExcludes /\ NothingLeft /\ FlushersWait
    /\ OneHolder /\ ClosedIsFree /\ DownIsIdle

\* The locks are free at first.
LEMMA LockInit == Init => LockInv
BY DEF Init, LockInv, GateExcludes, NothingLeft, FlushersWait, OneHolder, ClosedIsFree,
   DownIsIdle, Holders, GateTaken, LockFree, ClientIdle

\* Every step respects the locks.
LEMMA LockStep == TypeOK /\ LockInv /\ [Next]_vars => LockInv'
<1> SUFFICES ASSUME TypeOK, LockInv, [Next]_vars PROVE LockInv'
  OBVIOUS
<1> USE DEF TypeOK, LockInv, GateExcludes, NothingLeft, FlushersWait, OneHolder,
        Holders, ClosedIsFree, DownIsIdle, GateTaken, Readers, LockFree, ClientIdle, Up,
        clientVars,
        sharedVars, diskVars, runVars, ghostVars
<1>0. CASE UNCHANGED vars
  BY <1>0 DEF vars
<1>c. ASSUME NEW c \in Clients, ClientCall(c) \/ ClientStep(c) PROVE LockInv'
  <2>1. CASE Set(c)
    BY <2>1 DEF Set, Mutate, Admitted
  <2>2. CASE Delete(c)
    BY <2>2 DEF Delete, Mutate, Admitted
  <2>3. CASE Clear(c)
    BY <2>3 DEF Clear, Admitted
  <2>4. CASE GateEnter(c)
    BY <2>4 DEF GateEnter
  <2>5. CASE Flush(c)
    BY <2>5 DEF Flush
  <2>6. CASE Close(c)
    BY <2>6 DEF Close
  <2>7. CASE BatchLog(c)
    BY <2>7 DEF BatchLog, Admitted
  <2>8. CASE BatchApply(c)
    BY <2>8 DEF BatchApply
  <2>9. CASE ManyLock(c)
    BY <2>9 DEF ManyLock, Admitted
  <2>10. CASE ManyApply(c)
    BY <2>10 DEF ManyApply
  <2>11. CASE GateRefused(c)
    BY <2>11 DEF GateRefused
  <2>12. CASE Release(c)
    BY <2>12 DEF Release
  <2>13. CASE Joined(c)
    BY <2>13 DEF Joined
  <2>14. CASE ClearRemove(c)
    BY <2>14 DEF ClearRemove
  <2>15. CASE ClearLog(c)
    BY <2>15 DEF ClearLog
  <2> QED
    BY <1>c, <2>1, <2>2, <2>3, <2>4, <2>5, <2>6, <2>7, <2>8, <2>9, <2>10, <2>11, <2>12,
       <2>13, <2>14, <2>15
       DEF ClientCall, ClientStep
<1>w. ASSUME WriterStep PROVE LockInv'
  <2>1. CASE Collect
    BY <2>1 DEF Collect, Goto
  <2>2. CASE Write
    BY <2>2 DEF Write, WritePending, WriteOk, WriteFails, AfterWrite, Urgent
  <2>3. CASE HoldWrite
    BY <2>3 DEF HoldWrite, Goto, Urgent
  <2>4. CASE StrictSync
    BY <2>4 DEF StrictSync, SyncStep, Sync, Goto, AfterWrite, Urgent
  <2>5. CASE BarrierSync
    BY <2>5 DEF BarrierSync, SyncStep, Sync, Goto
  <2>6. CASE TimedSync
    BY <2>6 DEF TimedSync, SyncStep, Sync, Goto
  <2>7. CASE AcksDone
    BY <2>7 DEF AcksDone
  <2>8. CASE CompactStart
    BY <2>8 DEF CompactStart
  <2>9. CASE CompactGate
    BY <2>9 DEF CompactGate, Goto
  <2>10. CASE CompactTake
    BY <2>10 DEF CompactTake, Goto
  <2>11. CASE CompactWrite
    BY <2>11 DEF CompactWrite, WritePending, WriteOk, WriteFails
  <2>12. CASE CompactStrictSync
    BY <2>12 DEF CompactStrictSync, SyncStep, Sync, Goto
  <2>13. CASE Capture
    BY <2>13 DEF Capture
  <2>14. CASE CompactSync
    BY <2>14 DEF CompactSync, SyncStep, Sync, Goto
  <2>15. CASE CompactGivesUp
    BY <2>15 DEF CompactGivesUp, Goto
  <2>16. CASE Persist
    BY <2>16 DEF Persist, Goto
  <2>17. CASE PersistFails
    BY <2>17 DEF PersistFails, Goto
  <2>18. CASE DirSync
    BY <2>18 DEF DirSync, Goto
  <2>19. CASE Truncate
    BY <2>19 DEF Truncate, Goto
  <2>20. CASE TruncateSync
    BY <2>20 DEF TruncateSync, Goto
  <2>21. CASE Sweep
    BY <2>21 DEF Sweep
  <2>22. CASE Loop
    BY <2>22 DEF Loop
  <2>23. ASSUME NEW c \in Clients, Ack(c) PROVE LockInv'
    BY <2>23 DEF Ack
  <2> QED
    BY <1>w, <2>1, <2>2, <2>3, <2>4, <2>5, <2>6, <2>7, <2>8, <2>9, <2>10, <2>11, <2>12,
       <2>13, <2>14, <2>15, <2>16, <2>17, <2>18, <2>19, <2>20, <2>21, <2>22, <2>23 DEF
       WriterStep
<1>1. CASE Kill
  BY <1>1 DEF Kill, MemoryLost
<1>2. CASE PowerLoss
  BY <1>2 DEF PowerLoss, MemoryLost
<1>3. CASE Reopen
  BY <1>3 DEF Reopen
<1> QED
  BY <1>0, <1>c, <1>w, <1>1, <1>2, <1>3 DEF Next

-----------------------------------------------------------------------------
(***************************************************************************)
(* Closing.  From the collect that saw the close on, the queue is empty,   *)
(* no maintenance runs, and the barrier fsync comes before the last ack.   *)
(***************************************************************************)
ClosingDrains ==
    closing => /\ closed /\ log = <<>> /\ flushes = {}
               /\ wpc \in {"write", "strictSync", "sync", "ack", "done"}
WrittenOut == wpc \in {"strictSync", "sync", "ack", "done"} => pending = <<>>
SyncedOut  == wpc \in {"ack", "done"} /\ ~failed => ~dirty
DoneClosed == wpc = "done" => closing /\ taken = {}

DrainInv == ClosingDrains /\ WrittenOut /\ SyncedOut /\ DoneClosed

\* Nothing is closing at first.
LEMMA DrainInit == Init => DrainInv
BY DEF Init, DrainInv, ClosingDrains, WrittenOut, SyncedOut, DoneClosed

\* Every step keeps the order in which a close drains the writer.
LEMMA DrainStep == TypeOK /\ LockInv /\ DrainInv /\ [Next]_vars => DrainInv'
<1> SUFFICES ASSUME TypeOK, LockInv, DrainInv, [Next]_vars PROVE DrainInv'
  OBVIOUS
<1> USE DEF TypeOK, DrainInv, ClosingDrains, WrittenOut, SyncedOut, DoneClosed,
        clientVars, sharedVars, diskVars, runVars, ghostVars
<1>0. CASE UNCHANGED vars
  BY <1>0 DEF vars
<1>c. ASSUME NEW c \in Clients, ClientCall(c) \/ ClientStep(c) PROVE DrainInv'
  <2>1. CASE Set(c)
    BY <2>1 DEF Set, Mutate, Admitted
  <2>2. CASE Delete(c)
    BY <2>2 DEF Delete, Mutate, Admitted
  <2>3. CASE Clear(c)
    BY <2>3 DEF Clear, Admitted
  <2>4. CASE GateEnter(c)
    BY <2>4 DEF GateEnter
  <2>5. CASE Flush(c)
    BY <2>5 DEF Flush
  <2>6. CASE Close(c)
    BY <2>6 DEF Close
  <2>7. CASE BatchLog(c)
    BY <2>7 DEF BatchLog, Admitted
  <2>8. CASE BatchApply(c)
    BY <2>8 DEF BatchApply
  <2>9. CASE ManyLock(c)
    BY <2>9 DEF ManyLock, Admitted
  <2>10. CASE ManyApply(c)
    BY <2>10 DEF ManyApply, LockInv, ClosedIsFree, LockFree
  <2>11. CASE GateRefused(c)
    BY <2>11 DEF GateRefused
  <2>12. CASE Release(c)
    BY <2>12 DEF Release
  <2>13. CASE Joined(c)
    BY <2>13 DEF Joined
  <2>14. CASE ClearRemove(c)
    BY <2>14 DEF ClearRemove
  <2>15. CASE ClearLog(c)
    BY <2>15 DEF ClearLog, LockInv, ClosedIsFree, LockFree
  <2> QED
    BY <1>c, <2>1, <2>2, <2>3, <2>4, <2>5, <2>6, <2>7, <2>8, <2>9, <2>10, <2>11, <2>12,
       <2>13, <2>14, <2>15
       DEF ClientCall, ClientStep
<1>w. ASSUME WriterStep PROVE DrainInv'
  <2>1. CASE Collect
    BY <2>1 DEF Collect, Goto
  <2>2. CASE Write
    BY <2>2 DEF Write, WritePending, WriteOk, WriteFails, AfterWrite, Urgent
  <2>3. CASE HoldWrite
    BY <2>3 DEF HoldWrite, Goto, Urgent
  <2>4. CASE StrictSync
    BY <2>4 DEF StrictSync, SyncStep, Sync, Goto, AfterWrite, Urgent
  <2>5. CASE BarrierSync
    BY <2>5 DEF BarrierSync, SyncStep, Sync, Goto
  <2>6. CASE TimedSync
    BY <2>6 DEF TimedSync, SyncStep, Sync, Goto
  <2>7. CASE AcksDone
    BY <2>7 DEF AcksDone
  <2>8. CASE CompactStart
    BY <2>8 DEF CompactStart
  <2>9. CASE CompactGate
    BY <2>9 DEF CompactGate, Goto
  <2>10. CASE CompactTake
    BY <2>10 DEF CompactTake, Goto
  <2>11. CASE CompactWrite
    BY <2>11 DEF CompactWrite, WritePending, WriteOk, WriteFails
  <2>12. CASE CompactStrictSync
    BY <2>12 DEF CompactStrictSync, SyncStep, Sync, Goto
  <2>13. CASE Capture
    BY <2>13 DEF Capture
  <2>14. CASE CompactSync
    BY <2>14 DEF CompactSync, SyncStep, Sync, Goto
  <2>15. CASE CompactGivesUp
    BY <2>15 DEF CompactGivesUp, Goto
  <2>16. CASE Persist
    BY <2>16 DEF Persist, Goto
  <2>17. CASE PersistFails
    BY <2>17 DEF PersistFails, Goto
  <2>18. CASE DirSync
    BY <2>18 DEF DirSync, Goto
  <2>19. CASE Truncate
    BY <2>19 DEF Truncate, Goto
  <2>20. CASE TruncateSync
    BY <2>20 DEF TruncateSync, Goto
  <2>21. CASE Sweep
    BY <2>21 DEF Sweep
  <2>22. CASE Loop
    BY <2>22 DEF Loop
  <2>23. ASSUME NEW c \in Clients, Ack(c) PROVE DrainInv'
    BY <2>23 DEF Ack
  <2> QED
    BY <1>w, <2>1, <2>2, <2>3, <2>4, <2>5, <2>6, <2>7, <2>8, <2>9, <2>10, <2>11, <2>12,
       <2>13, <2>14, <2>15, <2>16, <2>17, <2>18, <2>19, <2>20, <2>21, <2>22, <2>23 DEF
       WriterStep
<1>1. CASE Kill
  BY <1>1 DEF Kill, MemoryLost
<1>2. CASE PowerLoss
  BY <1>2 DEF PowerLoss, MemoryLost
<1>3. CASE Reopen
  BY <1>3 DEF Reopen
<1> QED
  BY <1>0, <1>c, <1>w, <1>1, <1>2, <1>3 DEF Next

-----------------------------------------------------------------------------
\* The three invariants together.
Inv == TypeInv /\ LockInv /\ DrainInv

\* They hold in every state.
LEMMA Invariance == Spec => []Inv
<1>1. Init => Inv
  BY TypeInit, LockInit, DrainInit DEF Inv
<1>2. Inv /\ [Next]_vars => Inv'
  BY TypeStep, LockStep, DrainStep DEF Inv, TypeInv
<1> QED
  BY <1>1, <1>2, PTL DEF Spec

(***************************************************************************)
(* Compaction never captures half of a multi-key operation, however many   *)
(* clients run them and whatever keys they write.                          *)
(***************************************************************************)
THEOREM CaptureAtomic == Spec => []CaptureSeesWholeBatches
<1>1. Inv => CaptureSeesWholeBatches
  <2> SUFFICES ASSUME Inv, wpc = "capture", NEW c \in Clients PROVE todo[c] = NoWrites
    BY DEF CaptureSeesWholeBatches
  <2>1. Readers = {}
    BY DEF Inv, LockInv, GateExcludes, GateTaken
  <2>2. cpc[c] \notin {"batch", "many"}
    BY <2>1 DEF Readers
  <2> QED
    BY <2>2 DEF Inv, LockInv, NothingLeft
<1> QED
  BY <1>1, Invariance, PTL

(***************************************************************************)
(* The writer thread ends only with nothing queued, nothing in its buffer  *)
(* and, unless it recorded an error, nothing short of the disk.            *)
(***************************************************************************)
THEOREM CloseComplete == Spec => []CloseDrains
<1>1. Inv => CloseDrains
  BY DEF Inv, DrainInv, ClosingDrains, WrittenOut, SyncedOut, DoneClosed, CloseDrains
<1> QED
  BY <1>1, Invariance, PTL

\* No step but a reopening or a crash changes the map of a closed store.
LEMMA ClosedStep ==
    TypeOK /\ LockInv /\ [Next]_vars =>
        (closed /\ closed' => map' = map /\ log' \in {log, <<>>} /\ hist' = hist)
<1> SUFFICES ASSUME TypeOK, LockInv, [Next]_vars, closed, closed'
             PROVE  map' = map /\ log' \in {log, <<>>} /\ hist' = hist
  OBVIOUS
<1>0. \A c \in Clients : cpc[c] \notin {"batch", "many", "clear"}
  BY DEF LockInv, ClosedIsFree, LockFree
<1>1. CASE UNCHANGED vars
  BY <1>1 DEF vars, ghostVars
<1>2. ASSUME NEW c \in Clients, ClientCall(c) \/ ClientStep(c)
      PROVE  map' = map /\ log' \in {log, <<>>} /\ hist' = hist
  BY <1>0, <1>2 DEF ClientCall, ClientStep, Set, Delete, Clear, ClearRemove, ClearLog,
     Mutate, Admitted, GateEnter, Flush, Close, BatchLog, BatchApply, ManyLock, ManyApply,
     GateRefused, Release, Joined,
     ghostVars
<1>3. CASE WriterStep
  BY <1>3 DEF WriterStep, Collect, Write, HoldWrite, StrictSync, BarrierSync, TimedSync,
     SyncStep, Ack, AcksDone, CompactStart, CompactGate, CompactTake, CompactWrite,
     CompactStrictSync, Capture, CompactSync, CompactGivesUp, Persist, PersistFails, DirSync,
     Truncate, TruncateSync, Sweep, Loop, ghostVars
<1>4. CASE Kill \/ PowerLoss \/ Reopen
  BY <1>4 DEF Kill, PowerLoss, MemoryLost, Reopen
<1> QED
  BY <1>1, <1>2, <1>3, <1>4 DEF Next

(***************************************************************************)
(* Close is a barrier: no operation, batch or eviction changes the map or  *)
(* the log of a closed store.                                              *)
(***************************************************************************)
THEOREM CloseIsBarrier == Spec => ClosedIsFinal
<1>1. Inv /\ [Next]_vars =>
          [closed /\ closed' => map' = map /\ log' \in {log, <<>>} /\ hist' = hist]_vars
  BY ClosedStep DEF Inv, TypeInv
<1> QED
  BY <1>1, Invariance, PTL DEF Spec, ClosedIsFinal

-----------------------------------------------------------------------------

(***************************************************************************)
(* "Log order always matches map order", for any number of keys, clients   *)
(* and batches: what the snapshot, the WAL, the writer's buffer and the    *)
(* log hold is at every instant the state of the map, through compactions, *)
(* crashes, recoveries and failures, until the writer records an error.    *)
(***************************************************************************)

\* Everything recorded since the snapshot, in order.
Queue == (wal \o pending) \o log

\* The log, which the writer has not taken yet, has a write to k.
LogTouches(k) == \E i \in 1..Len(log) : log[i][k] # Untouched

(***************************************************************************)
(* The equation LogMatchesMap is not inductive.  It needs that no record   *)
(* of the queue is torn (else what follows would not be replayed); that    *)
(* the map is where the history says, but for what a batch has yet to      *)
(* apply; and that a key which changed after its capture is rewritten by a *)
(* record the truncation will not remove, already logged or, for a clear,  *)
(* about to be.                                                            *)
(***************************************************************************)
Sound == Up /\ ~failed

WholeRecords  == Sound => \A i \in 1..Len(Queue) : Queue[i] # Torn
MapIsTip      == /\ Up /\ LockFree => map = Tip
                 /\ \A c \in Clients : cpc[c] = "many" => map = Tip
                 /\ \A c \in Clients : cpc[c] = "batch" => Apply(map, todo[c]) = Tip
                 /\ Clearing => Tip = NoKeys
CapturedFresh == IF wpc \in {"capture", "compactSync", "persist"}
                 THEN \A k \in Touched(captured) :
                         captured[k] = Tip[k] \/ LogTouches(k) \/ Clearing
                 ELSE captured = Torn
SnapFresh     == wpc \in {"dirSync", "truncate"} =>
                     \A k \in Keys : snap[k] = Tip[k] \/ LogTouches(k) \/ Clearing
BufferEmpty   == wpc \in {"compactStrict", "capture", "compactSync", "persist", "dirSync",
                          "truncate"} => pending = <<>>

LogInv == /\ WholeRecords /\ LogMatchesMap /\ MapIsTip
          /\ CapturedFresh /\ SnapFresh /\ BufferEmpty

\* The queue is a log of records.
LEMMA QueueType == TypeOK => Queue \in Seq(Record)
BY ConcatProperties DEF TypeOK, Queue

\* Concatenation of logs, in the form the queue needs it.
LEMMA LogConcat ==
    ASSUME NEW a \in Seq(Record), NEW b \in Seq(Record), NEW c \in Seq(Record)
    PROVE  a \o (b \o c) = (a \o b) \o c
<1>1. (a \o b) \o c = a \o (b \o c)
  BY ConcatAssociative
<1> QED
  BY <1>1

LEMMA LogAppend ==
    ASSUME NEW a \in Seq(Record), NEW rec \in Record
    PROVE  a \o <<rec>> = Append(a, rec)
BY AppendIsConcat

\* The history grows at its end.
LEMMA TipGrows ==
    ASSUME TypeOK, NEW STATE m, hist' = Append(hist, m)
    PROVE  Tip' = m
BY DEF TypeOK, Tip

\* At first nothing is recorded.
LEMMA LogInit == Init => LogInv
<1> SUFFICES ASSUME Init PROVE LogInv
  OBVIOUS
<1>1. Queue = <<>> /\ Tip = NoKeys
  BY DEF Init, Queue, Tip
<1>2. Replay(NoKeys, <<>>) = NoKeys
  BY DEF Replay, NoKeys
<1> QED
  BY <1>1, <1>2 DEF Init, LogInv, WholeRecords, LogMatchesMap, MapIsTip, CapturedFresh,
     SnapFresh, BufferEmpty, Sound, ClientIdle, Queue

-----------------------------------------------------------------------------
(***************************************************************************)
(* The map.                                                                *)
(***************************************************************************)
\* Applying one write of a batch leaves the rest to apply.
LEMMA ApplyOne ==
    ASSUME NEW m \in MapType, NEW rec \in Record, NEW k \in Touched(rec)
    PROVE  Apply([m EXCEPT ![k] = rec[k]], Without(rec, k)) = Apply(m, rec)
BY DEF Apply, MapType, Record, Touched, Without, Value

\* A record without writes changes nothing.
LEMMA ApplyNothing ==
    ASSUME NEW m \in MapType
    PROVE  Apply(m, NoWrites) = m
BY DEF Apply, MapType, NoWrites, Torn

\* No step separates the map from its history.
LEMMA MapStep == TypeOK /\ LockInv /\ MapIsTip /\ [Next]_vars => MapIsTip'
<1> SUFFICES ASSUME TypeOK, LockInv, MapIsTip, [Next]_vars PROVE MapIsTip'
  OBVIOUS
<1> USE DEF TypeOK, MapIsTip, LockFree, Clearing, Up, Tip, clientVars, sharedVars, diskVars,
     runVars, ghostVars
<1>0. CASE UNCHANGED vars
  BY <1>0 DEF vars
<1>c. ASSUME NEW c \in Clients, ClientCall(c) \/ ClientStep(c) PROVE MapIsTip'
  <2>1. CASE Set(c)
    BY <2>1 DEF Set, Mutate, Admitted
  <2>2. CASE Delete(c)
    BY <2>2 DEF Delete, Mutate, Admitted
  <2>3. CASE Clear(c)
    <3>1. Tip' = NoKeys
      BY <2>3, TipGrows DEF Clear
    <3> QED
      BY <2>3, <3>1 DEF Clear, Admitted
  <2>4. CASE GateEnter(c)
    BY <2>4 DEF GateEnter
  <2>5. CASE Flush(c)
    BY <2>5 DEF Flush
  <2>6. CASE Close(c)
    BY <2>6 DEF Close
  <2>7. CASE BatchLog(c)
    BY <2>7 DEF BatchLog, Admitted
  <2>8. CASE BatchApply(c)
    <3>1. PICK k \in Touched(todo[c]) :
              /\ map' = [map EXCEPT ![k] = todo[c][k]]
              /\ todo' = [todo EXCEPT ![c] = Without(todo[c], k)]
      BY <2>8 DEF BatchApply
    <3>2. \A d \in Clients : d # c => cpc[d] \notin {"batch", "many", "clear"}
      BY <2>8 DEF BatchApply, LockInv, OneHolder, Holders
    <3>3. Apply(map', todo'[c]) = Apply(map, todo[c])
      BY <3>1, ApplyOne
    <3> QED
      BY <2>8, <3>2, <3>3 DEF BatchApply
  <2>9. CASE ManyLock(c)
    BY <2>9 DEF ManyLock, Admitted
  <2>10. CASE ManyApply(c)
    <3>1. PICK k \in Touched(todo[c]) :
              /\ map' = Apply(map, SetRecord(k, Stamp))
              /\ hist' = Append(hist, Apply(Tip, SetRecord(k, Stamp)))
      BY <2>10 DEF ManyApply
    <3>2. map = Tip
      BY <2>10 DEF ManyApply
    <3>3. map' = Tip'
      BY <3>1, <3>2, TipGrows
    <3>4. \A d \in Clients : d # c => cpc[d] \notin {"batch", "many", "clear"}
      BY <2>10 DEF ManyApply, LockInv, OneHolder, Holders
    <3> QED
      BY <2>10, <3>3, <3>4 DEF ManyApply
  <2>11. CASE GateRefused(c)
    BY <2>11 DEF GateRefused
  <2>12. CASE Release(c)
    <3>1. cpc[c] = "batch" => map = Tip
      BY <2>12, ApplyNothing DEF Release
    <3>2. \A d \in Clients : d # c => cpc[d] \notin {"batch", "many", "clear"}
      BY <2>12 DEF Release, LockInv, OneHolder, Holders
    <3> QED
      BY <2>12, <3>1, <3>2 DEF Release
  <2>13. CASE Joined(c)
    BY <2>13 DEF Joined
  <2>14. CASE ClearRemove(c)
    <3>1. \A d \in Clients : d # c => cpc[d] \notin {"batch", "many", "clear"}
      BY <2>14 DEF ClearRemove, LockInv, OneHolder, Holders
    <3> QED
      BY <2>14, <3>1 DEF ClearRemove
  <2>15. CASE ClearLog(c)
    <3>1. map = NoKeys
      BY <2>15 DEF ClearLog, Present, NoKeys, MapType
    <3>2. \A d \in Clients : d # c => cpc[d] \notin {"batch", "many", "clear"}
      BY <2>15 DEF ClearLog, LockInv, OneHolder, Holders
    <3> QED
      BY <2>15, <3>1, <3>2 DEF ClearLog
  <2> QED
    BY <1>c, <2>1, <2>2, <2>3, <2>4, <2>5, <2>6, <2>7, <2>8, <2>9, <2>10, <2>11, <2>12,
       <2>13, <2>14, <2>15
       DEF ClientCall, ClientStep
<1>w. ASSUME WriterStep PROVE MapIsTip'
  <2>1. CASE Collect
    BY <2>1 DEF Collect, Goto
  <2>2. CASE Write
    BY <2>2 DEF Write, WritePending, WriteOk, WriteFails, AfterWrite, Urgent
  <2>3. CASE HoldWrite
    BY <2>3 DEF HoldWrite, Goto, Urgent
  <2>4. CASE StrictSync
    BY <2>4 DEF StrictSync, SyncStep, Sync, Goto, AfterWrite, Urgent
  <2>5. CASE BarrierSync
    BY <2>5 DEF BarrierSync, SyncStep, Sync, Goto
  <2>6. CASE TimedSync
    BY <2>6 DEF TimedSync, SyncStep, Sync, Goto
  <2>7. CASE AcksDone
    BY <2>7 DEF AcksDone
  <2>8. CASE CompactStart
    BY <2>8 DEF CompactStart
  <2>9. CASE CompactGate
    BY <2>9 DEF CompactGate, Goto
  <2>10. CASE CompactTake
    BY <2>10 DEF CompactTake, Goto
  <2>11. CASE CompactWrite
    BY <2>11 DEF CompactWrite, WritePending, WriteOk, WriteFails
  <2>12. CASE CompactStrictSync
    BY <2>12 DEF CompactStrictSync, SyncStep, Sync, Goto
  <2>13. CASE Capture
    BY <2>13 DEF Capture
  <2>14. CASE CompactSync
    BY <2>14 DEF CompactSync, SyncStep, Sync, Goto
  <2>15. CASE CompactGivesUp
    BY <2>15 DEF CompactGivesUp, Goto
  <2>16. CASE Persist
    BY <2>16 DEF Persist, Goto
  <2>17. CASE PersistFails
    BY <2>17 DEF PersistFails, Goto
  <2>18. CASE DirSync
    BY <2>18 DEF DirSync, Goto
  <2>19. CASE Truncate
    BY <2>19 DEF Truncate, Goto
  <2>20. CASE TruncateSync
    BY <2>20 DEF TruncateSync, Goto
  <2>21. CASE Sweep
    BY <2>21 DEF Sweep
  <2>22. CASE Loop
    BY <2>22 DEF Loop
  <2>23. ASSUME NEW c \in Clients, Ack(c) PROVE MapIsTip'
    BY <2>23 DEF Ack, LockInv, FlushersWait
  <2> QED
    BY <1>w, <2>1, <2>2, <2>3, <2>4, <2>5, <2>6, <2>7, <2>8, <2>9, <2>10, <2>11, <2>12,
       <2>13, <2>14, <2>15, <2>16, <2>17, <2>18, <2>19, <2>20, <2>21, <2>22, <2>23 DEF
       WriterStep
<1>1. CASE Kill
  BY <1>1 DEF Kill, MemoryLost, ClientIdle
<1>2. CASE PowerLoss
  BY <1>2 DEF PowerLoss, MemoryLost, ClientIdle
<1>3. CASE Reopen
  <2>1. cpc = ClientIdle
    BY <1>3 DEF Reopen, LockInv, DownIsIdle
  <2>2. Tip' = map'
    BY <1>3, TipGrows DEF Reopen
  <2> QED
    BY <1>3, <2>1, <2>2 DEF Reopen, ClientIdle
<1> QED
  BY <1>0, <1>c, <1>w, <1>1, <1>2, <1>3 DEF Next

-----------------------------------------------------------------------------
(***************************************************************************)
(* The snapshot being made.                                                *)
(***************************************************************************)
Fresh == CapturedFresh /\ SnapFresh /\ BufferEmpty

\* An operation logged while a snapshot is being made covers what it changes.
LEMMA FreshGrows ==
    ASSUME TypeOK, Fresh, NEW STATE rec, rec \in Record,
           log' = Append(log, rec), hist' = Append(hist, Apply(Tip, rec)),
           UNCHANGED <<wpc, captured, snap, pending>>, Clearing => Clearing'
    PROVE  Fresh'
<1>1. log \in Seq(Record) /\ Len(log) \in Nat
  BY DEF TypeOK
<1>2. Tip' = Apply(Tip, rec)
  BY TipGrows
<1>3. ASSUME NEW k \in Keys PROVE Tip'[k] = Tip[k] \/ LogTouches(k)'
  <2>1. CASE rec[k] = Untouched
    BY <2>1, <1>2 DEF Apply
  <2>2. CASE rec[k] # Untouched
    <3>1. Len(log') = Len(log) + 1 /\ log'[Len(log) + 1] = rec
      BY <1>1
    <3> QED
      BY <2>2, <3>1, <1>1 DEF LogTouches
  <2> QED
    BY <2>1, <2>2
<1>4. ASSUME NEW k \in Keys, LogTouches(k) PROVE LogTouches(k)'
  <2>1. PICK i \in 1..Len(log) : log[i][k] # Untouched
    BY <1>4 DEF LogTouches
  <2>2. i \in 1..Len(log') /\ log'[i] = log[i]
    BY <1>1
  <2> QED
    BY <2>1, <2>2 DEF LogTouches
<1>5. Touched(captured) \subseteq Keys
  BY DEF Touched
<1>6. CapturedFresh'
  BY <1>3, <1>4, <1>5 DEF Fresh, CapturedFresh
<1>7. SnapFresh'
  BY <1>3, <1>4 DEF Fresh, SnapFresh
<1> QED
  BY <1>6, <1>7 DEF Fresh, BufferEmpty

\* Nothing has been captured before the capture.
LEMMA NothingTouched == Touched(Torn) = {}
BY DEF Touched, Torn

\* No step spoils the snapshot being made.
LEMMA FreshStep == TypeInv /\ LockInv /\ MapIsTip /\ Fresh /\ [Next]_vars => Fresh'
<1> SUFFICES ASSUME TypeInv, LockInv, MapIsTip, Fresh, [Next]_vars PROVE Fresh'
  OBVIOUS
<1> USE DEF TypeInv, TypeOK, CapturedWhole, Fresh, CapturedFresh, SnapFresh, BufferEmpty,
        LogTouches, Clearing, Tip, clientVars, sharedVars, diskVars, runVars, ghostVars
<1>0. CASE UNCHANGED vars
  BY <1>0 DEF vars
<1>c. ASSUME NEW c \in Clients, ClientCall(c) \/ ClientStep(c) PROVE Fresh'
  <2>1. CASE Set(c)
    <3>1. PICK k \in Keys : Mutate(c, SetRecord(k, Stamp))
      BY <2>1 DEF Set
    <3>2. SetRecord(k, Stamp) \in Record
      BY RecordTypes, HistType
    <3> QED
      BY <3>1, <3>2, FreshGrows DEF Mutate
  <2>2. CASE Delete(c)
    <3>1. PICK k \in Keys : Mutate(c, DeleteRecord(k))
      BY <2>2 DEF Delete, Present
    <3>2. DeleteRecord(k) \in Record
      BY RecordTypes
    <3> QED
      BY <3>1, <3>2, FreshGrows DEF Mutate
  <2>3. CASE Clear(c)
    BY <2>3 DEF Clear
  <2>4. CASE GateEnter(c)
    BY <2>4 DEF GateEnter
  <2>5. CASE Flush(c)
    BY <2>5 DEF Flush
  <2>6. CASE Close(c)
    BY <2>6 DEF Close
  <2>7. CASE BatchLog(c)
    <3>1. PICK shape \in BatchShapes :
              /\ log' = Append(log, BatchRecord(shape, Stamp))
              /\ hist' = Append(hist, Apply(Tip, BatchRecord(shape, Stamp)))
      BY <2>7 DEF BatchLog
    <3>2. BatchRecord(shape, Stamp) \in Record
      BY RecordTypes, HistType
    <3> QED
      BY <2>7, <3>1, <3>2, FreshGrows DEF BatchLog, runVars, diskVars
  <2>8. CASE BatchApply(c)
    BY <2>8 DEF BatchApply
  <2>9. CASE ManyLock(c)
    BY <2>9 DEF ManyLock, Admitted
  <2>10. CASE ManyApply(c)
    <3>1. PICK k \in Keys :
              /\ log' = Append(log, SetRecord(k, Stamp))
              /\ hist' = Append(hist, Apply(Tip, SetRecord(k, Stamp)))
      BY <2>10 DEF ManyApply, Touched
    <3>2. SetRecord(k, Stamp) \in Record
      BY RecordTypes, HistType
    <3> QED
      BY <2>10, <3>1, <3>2, FreshGrows DEF ManyApply, runVars, diskVars
  <2>11. CASE GateRefused(c)
    BY <2>11 DEF GateRefused
  <2>12. CASE Release(c)
    BY <2>12 DEF Release
  <2>13. CASE Joined(c)
    BY <2>13 DEF Joined
  <2>14. CASE ClearRemove(c)
    BY <2>14 DEF ClearRemove
  <2>15. CASE ClearLog(c)
    <3>1. ASSUME NEW k \in Keys PROVE LogTouches(k)'
      <4>1. ClearRecord \in Record /\ ClearRecord[k] # Untouched
        BY RecordTypes DEF ClearRecord, Missing, Untouched
      <4>2. Len(log') = Len(log) + 1 /\ log'[Len(log) + 1] = ClearRecord /\ Len(log) \in Nat
        BY <2>15, <4>1 DEF ClearLog
      <4>3. /\ Len(log) + 1 \in 1..Len(log')
            /\ log'[Len(log) + 1][k] # Untouched
        BY <4>1, <4>2
      <4> QED
        BY ONLY <4>3 DEF LogTouches
    <3>2. Touched(captured) \subseteq Keys
      BY DEF Touched
    <3> HIDE DEF LogTouches
    <3> QED
      BY <2>15, <3>1, <3>2 DEF ClearLog
  <2> QED
    BY <1>c, <2>1, <2>2, <2>3, <2>4, <2>5, <2>6, <2>7, <2>8, <2>9, <2>10, <2>11, <2>12,
       <2>13, <2>14, <2>15
       DEF ClientCall, ClientStep
<1>w. ASSUME WriterStep PROVE Fresh'
  <2>1. CASE Collect
    BY <2>1 DEF Collect, Goto
  <2>2. CASE Write
    BY <2>2 DEF Write, WritePending, WriteOk, WriteFails, AfterWrite, Urgent
  <2>3. CASE HoldWrite
    BY <2>3 DEF HoldWrite, Goto, Urgent
  <2>4. CASE StrictSync
    BY <2>4 DEF StrictSync, SyncStep, Sync, Goto, AfterWrite, Urgent
  <2>5. CASE BarrierSync
    BY <2>5 DEF BarrierSync, SyncStep, Sync, Goto
  <2>6. CASE TimedSync
    BY <2>6 DEF TimedSync, SyncStep, Sync, Goto
  <2>7. CASE AcksDone
    BY <2>7 DEF AcksDone
  <2>8. CASE CompactStart
    BY <2>8 DEF CompactStart
  <2>9. CASE CompactGate
    BY <2>9 DEF CompactGate, Goto
  <2>10. CASE CompactTake
    BY <2>10 DEF CompactTake, Goto
  <2>11. CASE CompactWrite
    BY <2>11, NothingTouched DEF CompactWrite, WritePending, WriteOk, WriteFails
  <2>12. CASE CompactStrictSync
    BY <2>12, NothingTouched DEF CompactStrictSync, SyncStep, Sync, Goto
  <2>13. CASE Capture
    <3>1. PICK k \in Keys \ Touched(captured) :
              /\ captured' = [captured EXCEPT ![k] = map[k]]
              /\ wpc' = IF Keys = Touched(captured) \cup {k} THEN "compactSync" ELSE "capture"
      BY <2>13 DEF Capture
    <3>2. map = Tip \/ Clearing
      <4>1. LockFree \/ Clearing
        BY <2>13 DEF Capture, LockInv, GateExcludes, GateTaken, Readers, LockFree
      <4> QED
        BY <2>13, <4>1 DEF Capture, MapIsTip, Up
    <3>3. captured'[k] = map[k] /\ \A x \in Keys : x # k => captured'[x] = captured[x]
      BY <3>1 DEF Record
    <3>4. Touched(captured') \subseteq Touched(captured) \cup {k}
      BY <3>3 DEF Touched
    <3>5. Tip' = Tip /\ log' = log /\ pending' = pending /\ Clearing' = Clearing
      BY <2>13 DEF Capture
    <3>6. ASSUME NEW x \in Touched(captured')
          PROVE  captured'[x] = Tip[x] \/ LogTouches(x) \/ Clearing
      <4>1. CASE x = k
        BY <3>2, <3>3, <4>1
      <4>2. CASE x # k
        <5>1. x \in Touched(captured) /\ captured'[x] = captured[x]
          BY <3>3, <3>4, <4>2 DEF Touched
        <5> HIDE DEF LogTouches, Clearing
        <5> QED
          BY <2>13, <5>1 DEF Capture
      <4> QED
        BY <4>1, <4>2
    <3>7. wpc' \in {"capture", "compactSync"}
      BY <3>1
    <3>8. CapturedFresh'
      BY <3>5, <3>6, <3>7 DEF CapturedFresh, LogTouches
    <3> QED
      BY <2>13, <3>5, <3>7, <3>8 DEF Capture
  <2>14. CASE CompactSync
    BY <2>14 DEF CompactSync, SyncStep, Sync, Goto
  <2>15. CASE CompactGivesUp
    BY <2>15 DEF CompactGivesUp, Goto
  <2>16. CASE Persist
    BY <2>16 DEF Persist, Goto
  <2>17. CASE PersistFails
    BY <2>17 DEF PersistFails, Goto
  <2>18. CASE DirSync
    BY <2>18 DEF DirSync, Goto
  <2>19. CASE Truncate
    BY <2>19 DEF Truncate, Goto
  <2>20. CASE TruncateSync
    BY <2>20 DEF TruncateSync, Goto
  <2>21. CASE Sweep
    BY <2>21 DEF Sweep
  <2>22. CASE Loop
    BY <2>22 DEF Loop
  <2>23. ASSUME NEW c \in Clients, Ack(c) PROVE Fresh'
    BY <2>23 DEF Ack, LockInv, FlushersWait
  <2> QED
    BY <1>w, <2>1, <2>2, <2>3, <2>4, <2>5, <2>6, <2>7, <2>8, <2>9, <2>10, <2>11, <2>12,
       <2>13, <2>14, <2>15, <2>16, <2>17, <2>18, <2>19, <2>20, <2>21, <2>22, <2>23 DEF
       WriterStep
<1>1. CASE Kill
  BY <1>1 DEF Kill, MemoryLost
<1>2. CASE PowerLoss
  BY <1>2 DEF PowerLoss, MemoryLost
<1>3. CASE Reopen
  BY <1>3 DEF Reopen
<1> QED
  BY <1>0, <1>c, <1>w, <1>1, <1>2, <1>3 DEF Next

-----------------------------------------------------------------------------
(***************************************************************************)
(* The equation.                                                           *)
(***************************************************************************)
Exact == WholeRecords /\ LogMatchesMap

\* What keeps the queue, the snapshot and the history keeps the equation.
LEMMA QueueKept ==
    ASSUME Exact, Queue' = Queue, Tip' = Tip, snap' = snap, Sound' => Sound,
           Clearing => Clearing'
    PROVE  Exact'
BY DEF Exact, WholeRecords, LogMatchesMap, Queue, Sound

\* So does a write that adds its record at the end of the queue.
LEMMA QueueGrows ==
    ASSUME TypeOK, Exact, NEW STATE rec, rec \in Record, rec # Torn,
           Queue' = Append(Queue, rec), Tip' = Apply(Tip, rec), snap' = snap,
           Sound' => Sound, Clearing => Clearing'
    PROVE  Exact'
<1> SUFFICES ASSUME Sound'
             PROVE  /\ \A i \in 1..Len(Queue') : Queue'[i] # Torn
                    /\ ~Clearing' => Replay(snap', Queue') = Tip'
  BY DEF Exact, WholeRecords, LogMatchesMap, Sound, Queue
<1>1. Queue \in Seq(Record) /\ Len(Queue) \in Nat /\ snap \in MapType
  BY QueueType DEF TypeOK
<1>2. (\A i \in 1..Len(Queue) : Queue[i] # Torn) /\ (~Clearing => Replay(snap, Queue) = Tip)
  BY DEF Exact, WholeRecords, LogMatchesMap, Sound, Queue
<1>3. \A i \in 1..Len(Queue') : Queue'[i] # Torn
  <2> SUFFICES ASSUME NEW i \in 1..Len(Queue') PROVE Queue'[i] # Torn
    OBVIOUS
  <2>1. /\ Len(Queue') = Len(Queue) + 1
        /\ Queue'[i] = IF i = Len(Queue) + 1 THEN rec ELSE Queue[i]
    BY <1>1, AppendProperties
  <2> QED
    BY <1>1, <1>2, <2>1
<1>4. Replay(snap, Append(Queue, rec)) = Apply(Replay(snap, Queue), rec)
  BY <1>1, <1>2, ReplayAppend
<1> QED
  BY <1>2, <1>3, <1>4

\* A record appended to the log is appended to the queue.
LEMMA LogGrows ==
    ASSUME TypeOK, NEW STATE rec, rec \in Record, log' = Append(log, rec),
           wal' = wal, pending' = pending
    PROVE  Queue' = Append(Queue, rec)
<1> DEFINE front == wal \o pending
<1>1. front \in Seq(Record) /\ log \in Seq(Record) /\ <<rec>> \in Seq(Record)
  BY ConcatProperties DEF TypeOK
<1>2. Queue' = front \o Append(log, rec)
  BY DEF Queue
<1>3. Queue = front \o log
  BY DEF Queue
<1> HIDE DEF front
<1>4. Append(log, rec) = log \o <<rec>>
  BY <1>1, AppendIsConcat
<1>5. front \o (log \o <<rec>>) = (front \o log) \o <<rec>>
  BY <1>1, LogConcat
<1>6. front \o log \in Seq(Record)
  BY <1>1, ConcatProperties
<1>7. Append(front \o log, rec) = (front \o log) \o <<rec>>
  BY <1>6, AppendIsConcat
<1> QED
  BY <1>2, <1>3, <1>4, <1>5, <1>7

\* The queue may be read from its other end.
LEMMA QueueParts ==
    ASSUME TypeOK
    PROVE  wal \o (pending \o log) = Queue
<1>1. wal \in Seq(Record) /\ pending \in Seq(Record) /\ log \in Seq(Record)
  BY DEF TypeOK
<1>2. wal \o (pending \o log) = (wal \o pending) \o log
  BY <1>1, LogConcat
<1> QED
  BY <1>2 DEF Queue

\* Taking the log into the writer's buffer, and eviction records with it, keeps the order.
LEMMA QueueTaken ==
    ASSUME TypeOK, NEW STATE more, more \in Seq(Record),
           pending' = (pending \o log) \o more, log' = <<>>, wal' = wal
    PROVE  Queue' = Queue \o more
<1>1. wal \in Seq(Record) /\ pending \in Seq(Record) /\ log \in Seq(Record)
  BY DEF TypeOK
<1>2. /\ pending \o log \in Seq(Record) /\ wal \o (pending \o log) \in Seq(Record)
      /\ (pending \o log) \o more \in Seq(Record)
  BY <1>1, ConcatProperties
<1>3. wal \o ((pending \o log) \o more) \in Seq(Record)
  BY <1>1, <1>2, ConcatProperties
<1>4. Queue' = wal \o ((pending \o log) \o more)
  BY <1>3, ConcatEmptySeq DEF Queue
<1>5. wal \o ((pending \o log) \o more) = (wal \o (pending \o log)) \o more
  <2> DEFINE buffer == pending \o log
  <2>1. wal \in Seq(Record) /\ buffer \in Seq(Record) /\ more \in Seq(Record)
    BY <1>1, <1>2
  <2> HIDE DEF buffer
  <2>2. wal \o (buffer \o more) = (wal \o buffer) \o more
    BY <2>1, LogConcat
  <2> QED
    BY <2>2 DEF buffer
<1>6. wal \o (pending \o log) = Queue
  BY QueueParts
<1> QED
  BY <1>4, <1>5, <1>6

\* The log alone decides the keys it touches, whatever was recorded before it.
LEMMA ReplaySuffix ==
    ASSUME NEW base \in MapType, NEW other \in MapType,
           NEW before \in Seq(Record), NEW recs \in Seq(Record),
           \A i \in 1..Len(before \o recs) : (before \o recs)[i] # Torn,
           NEW k \in Keys, NEW j \in 1..Len(recs), recs[j][k] # Untouched
    PROVE  Replay(other, recs)[k] = Replay(base, before \o recs)[k]
<1> DEFINE all == before \o recs
           n == Len(before)
<1>1. /\ all \in Seq(Record) /\ Len(all) = n + Len(recs) /\ n \in Nat /\ Len(recs) \in Nat
      /\ \A i \in 1..Len(recs) : all[n + i] = recs[i]
  BY ConcatProperties
<1> HIDE DEF all, n
<1>2. \A i \in 1..Len(all) : all[i] # Torn
  BY DEF all
<1>3. Readable(all) = 1..Len(all)
  BY <1>1, <1>2 DEF Readable
<1>4. \A i \in 1..Len(recs) : recs[i] # Torn
  <2> SUFFICES ASSUME NEW i \in 1..Len(recs) PROVE recs[i] # Torn
    OBVIOUS
  <2>1. n + i \in 1..Len(all) /\ all[n + i] = recs[i]
    BY <1>1
  <2> QED
    BY <1>2, <2>1
<1>5. Readable(recs) = 1..Len(recs)
  BY <1>1, <1>4 DEF Readable
<1>6. PICK i \in 1..Len(recs) : IsLastWrite(recs, k, i)
  BY <1>5, LastWriteExists
<1>7. n + i \in 1..Len(all) /\ IsLastWrite(all, k, n + i)
  <2>1. n + i \in 1..Len(all) /\ all[n + i][k] # Untouched
    BY <1>1, <1>6 DEF IsLastWrite
  <2>2. ASSUME NEW x \in 1..Len(all), all[x][k] # Untouched PROVE x <= n + i
    <3>1. CASE x <= n
      BY <1>1, <3>1
    <3>2. CASE x > n
      <4>1. x - n \in 1..Len(recs) /\ recs[x - n] = all[x]
        <5>1. x - n \in 1..Len(recs)
          BY <1>1, <3>2
        <5>2. all[n + (x - n)] = recs[x - n]
          BY <1>1, <5>1
        <5> QED
          BY <1>1, <5>1, <5>2
      <4>2. x - n <= i
        BY <1>5, <1>6, <2>2, <4>1 DEF IsLastWrite
      <4> QED
        BY <1>1, <4>2
    <3> QED
      BY <1>1, <3>1, <3>2
  <2> QED
    BY <1>3, <2>1, <2>2 DEF IsLastWrite
<1>8. Replay(other, recs)[k] = recs[i][k]
  BY <1>6, ReplayLast
<1>9. Replay(base, all)[k] = all[n + i][k]
  BY <1>1, <1>7, ReplayLast
<1> QED
  BY <1>1, <1>8, <1>9 DEF all

\* Installing the captured map as the snapshot changes nothing that replay returns.
LEMMA PersistKeeps ==
    ASSUME TypeInv, Exact, Fresh, Persist
    PROVE  Exact'
<1>0. CASE Clearing
  <2>1. Queue' = Queue /\ Clearing' /\ Sound
    BY <1>0 DEF Persist, Goto, clientVars, Queue, Clearing, Sound, Up
  <2> QED
    BY <2>1 DEF Exact, WholeRecords, LogMatchesMap, Sound, Queue
<1> SUFFICES ASSUME ~Clearing PROVE Exact'
  BY <1>0
<1>1. /\ Queue' = Queue /\ Tip' = Tip /\ snap' = captured /\ Sound
      /\ wpc = "persist" /\ pending = <<>>
  BY DEF Persist, Goto, ghostVars, Queue, Tip, Sound, Up, Fresh, BufferEmpty
<1>2. captured \in MapType /\ snap \in MapType /\ Queue \in Seq(Record)
  BY <1>1, QueueType DEF TypeInv, TypeOK, CapturedWhole, Touched, Record, MapType
<1>3. (\A i \in 1..Len(Queue) : Queue[i] # Torn) /\ Replay(snap, Queue) = Tip
  BY <1>1 DEF Exact, WholeRecords, LogMatchesMap, Sound, Queue
<1>4. Readable(Queue) = 1..Len(Queue)
  BY <1>2, <1>3 DEF Readable
<1>5. ASSUME NEW k \in Keys, \A i \in Readable(Queue) : Queue[i][k] = Untouched
      PROVE  captured[k] = snap[k]
  <2>1. Tip[k] = snap[k]
    BY <1>2, <1>3, <1>5, ReplayUntouched
  <2>2. ~ LogTouches(k)
    <3>1. /\ wal \o pending \in Seq(Record) /\ log \in Seq(Record)
          /\ Len(wal \o pending) \in Nat /\ Len(log) \in Nat
      BY ConcatProperties DEF TypeInv, TypeOK
    <3>2. ASSUME NEW i \in 1..Len(log) PROVE log[i][k] = Untouched
      <4> DEFINE front == wal \o pending
      <4>1. front \in Seq(Record) /\ Queue = front \o log /\ Len(front) \in Nat
        BY <3>1 DEF Queue
      <4> HIDE DEF front
      <4>2. Len(front) + i \in 1..Len(Queue) /\ Queue[Len(front) + i] = log[i]
        BY <3>1, <4>1, ConcatProperties
      <4> QED
        BY <1>4, <1>5, <4>2
    <3> QED
      BY <3>2 DEF LogTouches
  <2>3. k \in Touched(captured)
    BY <1>1 DEF TypeInv, CapturedWhole
  <2> QED
    BY <1>1, <2>1, <2>2, <2>3 DEF Fresh, CapturedFresh
<1>6. Replay(captured, Queue) = Replay(snap, Queue)
  BY <1>2, <1>5, ReplayAbsorbs
<1> QED
  BY <1>1, <1>3, <1>6 DEF Exact, WholeRecords, LogMatchesMap, Sound, Queue

\* Emptying the WAL removes only records the snapshot or the log makes superfluous.
LEMMA TruncateKeeps ==
    ASSUME TypeOK, Exact, Fresh, Truncate
    PROVE  Exact'
<1>1. CASE failed'
  BY <1>1 DEF Exact, WholeRecords, LogMatchesMap, Sound
<1>2. CASE ~failed'
  <2>1. /\ wal' = <<>> /\ pending' = <<>> /\ log' = log /\ Tip' = Tip /\ snap' = snap
        /\ Sound /\ wpc = "truncate" /\ pending = <<>>
    BY <1>2 DEF Truncate, Goto, ghostVars, Tip, Sound, Up, Fresh, BufferEmpty
  <2>2. /\ wal \in Seq(Record) /\ log \in Seq(Record) /\ snap \in MapType
        /\ Len(wal) \in Nat /\ Len(log) \in Nat
    BY DEF TypeOK
  <2>3. Queue = wal \o log
    BY <2>1, <2>2, ConcatEmptySeq DEF Queue
  <2>4. Queue' = log
    <3>1. Queue' = (<<>> \o <<>>) \o log
      BY <2>1 DEF Queue
    <3>2. <<>> \o <<>> = <<>>
      BY NoRecords, ConcatEmptySeq
    <3>3. <<>> \o log = log
      BY <2>2, ConcatEmptySeq
    <3> QED
      BY <3>1, <3>2, <3>3
  <2>5. /\ \A i \in 1..Len(wal \o log) : (wal \o log)[i] # Torn
        /\ ~Clearing => Replay(snap, wal \o log) = Tip
    BY <2>1, <2>3 DEF Exact, WholeRecords, LogMatchesMap, Sound, Queue
  <2>6. ASSUME ~Clearing, NEW k \in Keys PROVE Replay(snap, log)[k] = Tip[k]
    <3>1. CASE LogTouches(k)
      <4>1. PICK j \in 1..Len(log) : log[j][k] # Untouched
        BY <3>1 DEF LogTouches
      <4>2. Replay(snap, log)[k] = Replay(snap, wal \o log)[k]
        BY <2>2, <2>5, <4>1, ReplaySuffix
      <4> QED
        BY <2>5, <2>6, <4>2
    <3>2. CASE ~ LogTouches(k)
      <4>1. \A i \in Readable(log) : log[i][k] = Untouched
        BY <3>2 DEF LogTouches, Readable
      <4>2. Replay(snap, log)[k] = snap[k]
        BY <2>2, <4>1, ReplayUntouched
      <4> QED
        BY <2>1, <2>6, <3>2, <4>2 DEF Fresh, SnapFresh
    <3> QED
      BY <3>1, <3>2
  <2>7. Tip \in MapType /\ Replay(snap, log) \in MapType
    BY <2>2, HistType, ReplayType
  <2>8. ~Clearing => Replay(snap, log) = Tip
    BY <2>6, <2>7 DEF MapType
  <2>9. ASSUME NEW i \in 1..Len(log) PROVE log[i] # Torn
    <3>1. Len(wal) + i \in 1..Len(wal \o log) /\ (wal \o log)[Len(wal) + i] = log[i]
      BY <2>2, ConcatProperties
    <3> QED
      BY <2>5, <3>1
  <2>10. Clearing' = Clearing
    BY DEF Truncate, clientVars, Clearing
  <2> QED
    BY <2>1, <2>4, <2>8, <2>9, <2>10 DEF Exact, WholeRecords, LogMatchesMap, Sound, Queue
<1> QED
  BY <1>1, <1>2 DEF TypeOK

\* Recovery starts the history of the map over from what replay returned.
LEMMA ReopenKeeps ==
    ASSUME TypeOK, Reopen
    PROVE  Exact'
<1>1. /\ wal' = ReadablePrefix(wal) /\ pending' = <<>> /\ log' = <<>> /\ snap' = snap
      /\ Tip' = Replay(snap, wal)
  BY TipGrows DEF Reopen
<1>2. wal \in Seq(Record) /\ snap \in MapType /\ Len(wal) \in Nat
  BY DEF TypeOK
<1>3. /\ ReadablePrefix(wal) \in Seq(Record)
      /\ \A i \in 1..Len(ReadablePrefix(wal)) : ReadablePrefix(wal)[i] # Torn
  <2>1. ReadableLen(wal) \in 0..Len(wal) /\ Readable(wal) = 1..ReadableLen(wal)
    BY <1>2, ReadableShape
  <2>2. /\ ReadablePrefix(wal) \in Seq(Record)
        /\ Len(ReadablePrefix(wal)) = ReadableLen(wal)
        /\ \A i \in 1..ReadableLen(wal) : ReadablePrefix(wal)[i] = wal[i]
    BY <1>2, <2>1 DEF ReadablePrefix
  <2> QED
    BY <2>1, <2>2 DEF Readable
<1>4. Queue' = ReadablePrefix(wal)
  <2> DEFINE cut == ReadablePrefix(wal)
  <2>1. Queue' = (cut \o <<>>) \o <<>>
    BY <1>1 DEF Queue
  <2>2. cut \in Seq(Record)
    BY <1>3
  <2> HIDE DEF cut
  <2>3. cut \o <<>> = cut
    BY <2>2, ConcatEmptySeq
  <2> QED
    BY <2>1, <2>3 DEF cut
<1>5. Replay(snap, ReadablePrefix(wal)) = Replay(snap, wal)
  BY <1>2, ReplayTruncated
<1> QED
  BY <1>1, <1>3, <1>4, <1>5 DEF Exact, WholeRecords, LogMatchesMap, Queue

\* A record logged under the lock keeps the equation.
LEMMA RecordLogged ==
    ASSUME TypeOK, Exact, NEW STATE rec, rec \in Record, rec # Torn,
           log' = Append(log, rec), hist' = Append(hist, Apply(Tip, rec)),
           UNCHANGED <<sharedVars, wpc, pending, diskVars>>, Clearing => Clearing'
    PROVE  Exact'
<1>1. Queue' = Append(Queue, rec) /\ Tip' = Apply(Tip, rec)
  BY LogGrows, TipGrows DEF diskVars
<1> QED
  BY <1>1, QueueGrows DEF Sound, Up, sharedVars, diskVars

\* An operation on one key does.
LEMMA MutateKeeps ==
    ASSUME TypeOK, Exact, NEW c \in Clients, NEW STATE rec, rec \in Record, rec # Torn,
           Mutate(c, rec)
    PROVE  Exact'
BY RecordLogged DEF Mutate, clientVars, Clearing

\* The record of a clear makes everything before it irrelevant.
LEMMA ClearKeeps ==
    ASSUME TypeOK, MapIsTip, Exact, NEW c \in Clients, ClearLog(c)
    PROVE  Exact'
<1>1. /\ ClearRecord \in Record /\ ClearRecord # Torn
      /\ \A m \in MapType : Apply(m, ClearRecord) = NoKeys
  BY RecordTypes DEF ClearRecord, Apply, NoKeys, MapType, Missing, Untouched
<1>2. Queue' = Append(Queue, ClearRecord) /\ Tip' = Tip /\ Tip = NoKeys
      /\ snap' = snap /\ (Sound' => Sound)
  BY <1>1, LogGrows DEF ClearLog, MapIsTip, Clearing, Tip, ghostVars, diskVars, sharedVars,
     Sound, Up
<1> SUFFICES ASSUME Sound'
             PROVE  /\ \A i \in 1..Len(Queue') : Queue'[i] # Torn
                    /\ Replay(snap', Queue') = Tip'
  BY DEF Exact, WholeRecords, LogMatchesMap, Sound, Queue
<1>3. Queue \in Seq(Record) /\ Len(Queue) \in Nat /\ snap \in MapType
  BY QueueType DEF TypeOK
<1>4. \A i \in 1..Len(Queue) : Queue[i] # Torn
  BY <1>2 DEF Exact, WholeRecords
<1>5. Replay(snap, Append(Queue, ClearRecord)) = Apply(Replay(snap, Queue), ClearRecord)
  BY <1>1, <1>3, <1>4, ReplayAppend
<1>6. Apply(Replay(snap, Queue), ClearRecord) = NoKeys
  BY <1>1, <1>3, ReplayType
<1>7. \A i \in 1..Len(Queue') : Queue'[i] # Torn
  <2> SUFFICES ASSUME NEW i \in 1..Len(Queue') PROVE Queue'[i] # Torn
    OBVIOUS
  <2>1. /\ Len(Queue') = Len(Queue) + 1
        /\ Queue'[i] = IF i = Len(Queue) + 1 THEN ClearRecord ELSE Queue[i]
    BY <1>1, <1>2, <1>3, AppendProperties
  <2> QED
    BY <1>1, <1>3, <1>4, <2>1
<1> QED
  BY <1>2, <1>5, <1>6, <1>7

\* Taking the log into the buffer leaves the queue as it is.
LEMMA LogTaken ==
    ASSUME TypeOK, pending' = pending \o log, log' = <<>>, wal' = wal
    PROVE  Queue' = Queue
<1>1. pending \o log \in Seq(Record)
  BY ConcatProperties DEF TypeOK
<1>2. pending' = (pending \o log) \o <<>>
  BY <1>1, ConcatEmptySeq
<1>3. Queue' = Queue \o <<>>
  BY <1>2, NoRecords, QueueTaken
<1> QED
  BY <1>3, QueueType, ConcatEmptySeq

\* Writing the buffer out leaves the queue as it is, or records an error.
LEMMA WriteKeeps ==
    ASSUME TypeOK, Exact, NEW strict, NEW STATE next, WritePending(strict, next), Up,
           UNCHANGED <<log, snap, hist, cpc>>
    PROVE  Exact'
<1>1. CASE failed'
  BY <1>1 DEF Exact, WholeRecords, LogMatchesMap, Sound
<1>2. CASE ~failed'
  <2>1. failed = FALSE /\ Queue' = Queue
    <3>1. CASE UNCHANGED <<wal, dirty, pending, failed>>
      BY <1>2, <3>1 DEF Queue, TypeOK
    <3>2. CASE WriteOk
      <4>1. wal \o pending \in Seq(Record)
        BY ConcatProperties DEF TypeOK
      <4>2. (wal \o pending) \o <<>> = wal \o pending
        BY <4>1, ConcatEmptySeq
      <4> QED
        BY <1>2, <3>2, <4>2 DEF WriteOk, Queue, TypeOK
    <3> QED
      BY <1>2, <3>1, <3>2 DEF WritePending, WriteFails
  <2>2. Tip' = Tip /\ Clearing' = Clearing
    BY DEF Tip, Clearing
  <2> QED
    BY <2>1, <2>2, QueueKept DEF Sound
<1> QED
  BY <1>1, <1>2 DEF TypeOK

\* No step loses, reorders or invents a record.
LEMMA QueueStep == TypeInv /\ LockInv /\ MapIsTip /\ Exact /\ Fresh /\ [Next]_vars => Exact'

<1> SUFFICES ASSUME TypeInv, LockInv, MapIsTip, Exact, Fresh, [Next]_vars PROVE Exact'
  OBVIOUS
<1> USE DEF TypeInv, TypeOK, Sound, Up, Queue, Tip, Clearing, clientVars, sharedVars,
   diskVars, runVars,
        ghostVars
<1>0. CASE UNCHANGED vars
  BY <1>0, QueueKept DEF vars
<1>c. ASSUME NEW c \in Clients, ClientCall(c) \/ ClientStep(c) PROVE Exact'
  <2>1. CASE Set(c)
    <3>1. PICK k \in Keys : Mutate(c, SetRecord(k, Stamp))
      BY <2>1 DEF Set
    <3>2. SetRecord(k, Stamp) \in Record /\ SetRecord(k, Stamp) # Torn
      BY RecordTypes, HistType
    <3> QED
      BY <3>1, <3>2, MutateKeeps
  <2>2. CASE Delete(c)
    <3>1. PICK k \in Keys : Mutate(c, DeleteRecord(k))
      BY <2>2 DEF Delete, Present
    <3>2. DeleteRecord(k) \in Record /\ DeleteRecord(k) # Torn
      BY RecordTypes
    <3> QED
      BY <3>1, <3>2, MutateKeeps
  <2>3. CASE Clear(c)
    <3>1. Queue' = Queue /\ snap' = snap /\ (Sound' => Sound) /\ Clearing'
      BY <2>3 DEF Clear
    <3> QED
      BY <3>1 DEF Exact, WholeRecords, LogMatchesMap
  <2>4. CASE GateEnter(c)
    BY <2>4, QueueKept DEF GateEnter
  <2>5. CASE Flush(c)
    BY <2>5, QueueKept DEF Flush
  <2>6. CASE Close(c)
    BY <2>6, QueueKept DEF Close
  <2>7. CASE BatchLog(c)
    <3>1. PICK shape \in BatchShapes :
              /\ log' = Append(log, BatchRecord(shape, Stamp))
              /\ hist' = Append(hist, Apply(Tip, BatchRecord(shape, Stamp)))
      BY <2>7 DEF BatchLog
    <3> DEFINE rec == BatchRecord(shape, Stamp)
    <3>2. rec \in Record /\ rec # Torn
      BY RecordTypes, HistType
    <3>3. log' = Append(log, rec) /\ hist' = Append(hist, Apply(Tip, rec))
      BY <3>1
    <3> HIDE DEF rec
    <3> QED
      BY <2>7, <3>2, <3>3, RecordLogged DEF BatchLog
  <2>8. CASE BatchApply(c)
    BY <2>8, QueueKept DEF BatchApply
  <2>9. CASE ManyLock(c)
    BY <2>9, QueueKept DEF ManyLock, Admitted
  <2>10. CASE ManyApply(c)
    <3>1. PICK k \in Keys :
              /\ log' = Append(log, SetRecord(k, Stamp))
              /\ hist' = Append(hist, Apply(Tip, SetRecord(k, Stamp)))
      BY <2>10 DEF ManyApply, Touched
    <3> DEFINE rec == SetRecord(k, Stamp)
    <3>2. rec \in Record /\ rec # Torn
      BY RecordTypes, HistType
    <3>3. log' = Append(log, rec) /\ hist' = Append(hist, Apply(Tip, rec))
      BY <3>1
    <3> HIDE DEF rec
    <3> QED
      BY <2>10, <3>2, <3>3, RecordLogged DEF ManyApply
  <2>11. CASE GateRefused(c)
    BY <2>11, QueueKept DEF GateRefused
  <2>12. CASE Release(c)
    BY <2>12, QueueKept DEF Release
  <2>13. CASE Joined(c)
    BY <2>13, QueueKept DEF Joined
  <2>14. CASE ClearRemove(c)
    BY <2>14, QueueKept DEF ClearRemove
  <2>15. CASE ClearLog(c)
    BY <2>15, ClearKeeps DEF TypeInv
  <2> QED
    BY <1>c, <2>1, <2>2, <2>3, <2>4, <2>5, <2>6, <2>7, <2>8, <2>9, <2>10, <2>11, <2>12,
       <2>13, <2>14, <2>15
       DEF ClientCall, ClientStep
<1>w. ASSUME WriterStep PROVE Exact'
  <2>1. CASE Collect
    <3>1. Queue' = Queue
      BY <2>1, LogTaken DEF Collect
    <3> QED
      BY <2>1, <3>1, QueueKept DEF Collect, Goto, Sound, Up, Tip
  <2>2. CASE Write
    <3>1. WritePending("strictSync", AfterWrite)
      BY <2>2 DEF Write
    <3> QED
      BY <2>2, <3>1, WriteKeeps DEF Write, Up
  <2>3. CASE HoldWrite
    BY <2>3, QueueKept DEF HoldWrite, Goto, Urgent
  <2>4. CASE StrictSync
    BY <2>4, QueueKept DEF StrictSync, SyncStep, Sync, Goto, AfterWrite, Urgent
  <2>5. CASE BarrierSync
    BY <2>5, QueueKept DEF BarrierSync, SyncStep, Sync, Goto
  <2>6. CASE TimedSync
    <3>1. SyncStep("maintain", "compact")
      BY <2>6 DEF TimedSync
    <3> QED
      BY <3>1, QueueKept DEF SyncStep, Sync, Goto
  <2>7. CASE AcksDone
    BY <2>7, QueueKept DEF AcksDone
  <2>8. CASE CompactStart
    BY <2>8, QueueKept DEF CompactStart
  <2>9. CASE CompactGate
    BY <2>9, QueueKept DEF CompactGate, Goto
  <2>10. CASE CompactTake
    <3>1. Queue' = Queue
      BY <2>10, LogTaken DEF CompactTake
    <3> QED
      BY <2>10, <3>1, QueueKept DEF CompactTake, Goto, Sound, Up, Tip
  <2>11. CASE CompactWrite
    <3>1. WritePending("compactStrict", "capture")
      BY <2>11 DEF CompactWrite
    <3> QED
      BY <2>11, <3>1, WriteKeeps DEF CompactWrite, Up
  <2>12. CASE CompactStrictSync
    BY <2>12, QueueKept DEF CompactStrictSync, SyncStep, Sync, Goto
  <2>13. CASE Capture
    BY <2>13, QueueKept DEF Capture
  <2>14. CASE CompactSync
    BY <2>14, QueueKept DEF CompactSync, SyncStep, Sync, Goto
  <2>15. CASE CompactGivesUp
    BY <2>15, QueueKept DEF CompactGivesUp, Goto
  <2>16. CASE Persist
    BY <2>16, PersistKeeps DEF TypeInv
  <2>17. CASE PersistFails
    BY <2>17 DEF PersistFails, Exact, WholeRecords, LogMatchesMap
  <2>18. CASE DirSync
    BY <2>18, QueueKept DEF DirSync, Goto
  <2>19. CASE Truncate
    BY <2>19, TruncateKeeps
  <2>20. CASE TruncateSync
    BY <2>20, QueueKept DEF TruncateSync, Goto
  <2>21. CASE Sweep
    <3>1. PICK k \in Doomable \cap Present :
              /\ pending' = (pending \o log) \o <<DeleteRecord(k)>>
              /\ hist' = Append(hist, Apply(Tip, DeleteRecord(k)))
      BY <2>21 DEF Sweep
    <3>2. DeleteRecord(k) \in Record /\ DeleteRecord(k) # Torn
      BY RecordTypes DEF Present
    <3> DEFINE rec == DeleteRecord(k)
    <3>3. rec \in Record /\ rec # Torn /\ <<rec>> \in Seq(Record)
      BY <3>2
    <3>4. pending' = (pending \o log) \o <<rec>> /\ Tip' = Apply(Tip, rec)
      BY <3>1, TipGrows
    <3> HIDE DEF rec
    <3>5. Queue' = Queue \o <<rec>>
      BY <2>21, <3>3, <3>4, QueueTaken DEF Sweep
    <3>6. Queue' = Append(Queue, rec)
      BY <3>3, <3>5, QueueType, LogAppend
    <3> QED
      BY <2>21, <3>3, <3>4, <3>6, QueueGrows DEF Sweep
  <2>22. CASE Loop
    BY <2>22, QueueKept DEF Loop
  <2>23. ASSUME NEW c \in Clients, Ack(c) PROVE Exact'
    BY <2>23, QueueKept DEF Ack, LockInv, FlushersWait
  <2> QED
    BY <1>w, <2>1, <2>2, <2>3, <2>4, <2>5, <2>6, <2>7, <2>8, <2>9, <2>10, <2>11, <2>12,
       <2>13, <2>14, <2>15, <2>16, <2>17, <2>18, <2>19, <2>20, <2>21, <2>22, <2>23 DEF
       WriterStep
<1>1. CASE Kill
  BY <1>1 DEF Kill, MemoryLost, Exact, WholeRecords, LogMatchesMap
<1>2. CASE PowerLoss
  BY <1>2 DEF PowerLoss, MemoryLost, Exact, WholeRecords, LogMatchesMap
<1>3. CASE Reopen
  BY <1>3, ReopenKeeps
<1> QED
  BY <1>0, <1>c, <1>w, <1>1, <1>2, <1>3 DEF Next

-----------------------------------------------------------------------------
\* Both invariants hold of every behaviour.
LEMMA LogInvariance == Spec => [](Inv /\ LogInv)
<1> DEFINE All == Inv /\ LogInv
<1>1. Init => All
  BY TypeInit, LockInit, DrainInit, LogInit DEF Inv
<1>2. All /\ [Next]_vars => All'
  <2> SUFFICES ASSUME All, [Next]_vars PROVE All'
    OBVIOUS
  <2>1. Inv'
    BY TypeStep, LockStep, DrainStep DEF Inv, TypeInv
  <2>2. MapIsTip'
    BY MapStep DEF Inv, TypeInv, LogInv
  <2>3. Fresh'
    BY FreshStep DEF Inv, LogInv, Fresh
  <2>4. Exact'
    BY QueueStep DEF Inv, LogInv, Fresh, Exact
  <2> QED
    BY <2>1, <2>2, <2>3, <2>4 DEF LogInv, Fresh, Exact
<1> HIDE DEF All
<1> QED
  BY <1>1, <1>2, PTL DEF All, Spec

(***************************************************************************)
(* Whatever the keys, the clients, their batches, the durability, the      *)
(* faults and the crashes: until an I/O error is recorded, the snapshot    *)
(* and the records written, buffered and logged replay to the map.         *)
(***************************************************************************)
THEOREM LogIsMap == Spec => []LogMatchesMap
<1>1. Inv /\ LogInv => LogMatchesMap
  BY DEF LogInv
<1> QED
  BY <1>1, LogInvariance, PTL

\* A store closed without an error has nothing but its files, and they are its map.
LEMMA ClosedFiles ==
    ASSUME Inv, LogInv, wpc = "done", ~failed
    PROVE  Replay(snap, wal) = map
<1>1. closed /\ log = <<>> /\ pending = <<>> /\ wal \in Seq(Record)
  BY DEF Inv, DrainInv, DoneClosed, ClosingDrains, WrittenOut, TypeInv, TypeOK
<1>2. LockFree /\ ~Clearing /\ Up
  BY <1>1 DEF Inv, LockInv, ClosedIsFree, LockFree, Clearing, Up
<1>3. (wal \o pending) \o log = wal
  BY <1>1, ConcatEmptySeq
<1>4. Replay(snap, (wal \o pending) \o log) = Tip /\ map = Tip
  BY <1>2 DEF LogInv, LogMatchesMap, MapIsTip
<1> QED
  BY <1>3, <1>4

\* Only opening the store again brings the writer of a closed one back.
LEMMA OnlyReopens ==
    ASSUME [Next]_vars, wpc = "done", wpc' = "collect"
    PROVE  Reopen
<1>1. ASSUME NEW c \in Clients, ClientCall(c) \/ ClientStep(c) PROVE wpc' = wpc
  BY <1>1 DEF ClientCall, ClientStep, Set, Delete, Clear, ClearRemove, ClearLog,
     Mutate, GateEnter, Flush, Close, BatchLog, BatchApply, ManyLock, ManyApply,
     GateRefused, Release, Joined
<1>2. ~WriterStep
  BY DEF WriterStep, Collect, Write, HoldWrite, StrictSync, BarrierSync, TimedSync,
     SyncStep, Goto, Ack, AcksDone, CompactStart, CompactGate, CompactTake, CompactWrite,
     CompactStrictSync, Capture, CompactSync, CompactGivesUp, Persist, PersistFails, DirSync,
     Truncate, TruncateSync, Sweep, Loop
<1>3. ~(Kill \/ PowerLoss)
  BY DEF Kill, PowerLoss, MemoryLost
<1>4. wpc' # wpc /\ ~UNCHANGED vars
  BY DEF vars
<1> QED
  BY <1>1, <1>2, <1>3, <1>4 DEF Next

(***************************************************************************)
(* A store that was closed without an error is opened again as it was:     *)
(* whatever kills, power losses and failures there were before, however    *)
(* many clients raced the close, and whatever was compacted on the way.    *)
(***************************************************************************)
THEOREM ReopenedAsClosed == Spec => CleanCloseKeeps
<1>1. Inv /\ LogInv /\ [Next]_vars =>
          [wpc = "done" /\ ~failed /\ wpc' = "collect" => map' = map]_vars
  <2> SUFFICES ASSUME Inv, LogInv, [Next]_vars, wpc = "done", ~failed, wpc' = "collect"
               PROVE  map' = map
    OBVIOUS
  <2>1. map' = Replay(snap, wal)
    BY OnlyReopens DEF Reopen
  <2> QED
    BY <2>1, ClosedFiles
<1> QED
  BY <1>1, LogInvariance, PTL DEF Spec, CleanCloseKeeps
=============================================================================
