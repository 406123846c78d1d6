------------------------ MODULE WalStoreCrash_proofs ------------------------
(***************************************************************************)
(* What a crash leaves of the store, for any number of keys, clients and   *)
(* batches and whatever I/O fails: nothing older than the last answered    *)
(* flush or clean close (FlushDurable), when the process may be killed and *)
(* when the power may fail.  The two together do lose data: a store opened *)
(* after a kill takes for clean a WAL that only the page cache has.        *)
(***************************************************************************)
EXTENDS WalStore_proofs

(***************************************************************************)
(* Recency.  A record, or a map, is recent from state i on when each value *)
(* it holds is one the map has had under that key since.                   *)
(***************************************************************************)
Since(h, k, i)           == {h[j][k] : j \in {x \in 1..Len(h) : x >= i}}
Recent(h, rec, i)        == \A k \in Keys : rec[k] = Untouched \/ rec[k] \in Since(h, k, i)
RecentFrom(h, recs, n, i) == \A j \in 1..Len(recs) : j > n => Recent(h, recs[j], i)
RecentLog(h, recs, i)    == RecentFrom(h, recs, 0, i)

\* The history of the map goes on.
Grows(h, g) == g = h \/ \E m \in MapType : g = Append(h, m)

\* What was recent stays so.
LEMMA SinceGrows ==
    ASSUME NEW h \in Seq(MapType), NEW g, Grows(h, g), NEW k, NEW i \in Nat
    PROVE  Since(h, k, i) \subseteq Since(g, k, i)
<1>1. CASE g = h
  BY <1>1
<1>2. CASE \E m \in MapType : g = Append(h, m)
  <2>1. Len(h) \in Nat /\ Len(g) = Len(h) + 1 /\ \A j \in 1..Len(h) : g[j] = h[j]
    BY <1>2
  <2> QED
    BY <2>1 DEF Since
<1> QED
  BY <1>1, <1>2 DEF Grows

LEMMA RecentGrows ==
    ASSUME NEW h \in Seq(MapType), NEW g, Grows(h, g), NEW rec, NEW i \in Nat,
           Recent(h, rec, i)
    PROVE  Recent(g, rec, i)
BY SinceGrows DEF Recent

LEMMA RecentLogGrows ==
    ASSUME NEW h \in Seq(MapType), NEW g, Grows(h, g), NEW recs, NEW n, NEW i \in Nat,
           RecentFrom(h, recs, n, i)
    PROVE  RecentFrom(g, recs, n, i)
BY RecentGrows DEF RecentFrom

\* What is recent from a later state on is recent from an earlier one on.
LEMMA RecentEarlier ==
    ASSUME NEW h \in Seq(MapType), NEW rec, NEW i \in Nat, NEW j \in Nat, j <= i,
           Recent(h, rec, i)
    PROVE  Recent(h, rec, j)
<1>1. Len(h) \in Nat
  OBVIOUS
<1>2. \A k \in Keys : Since(h, k, i) \subseteq Since(h, k, j)
  BY <1>1 DEF Since
<1> QED
  BY <1>2 DEF Recent

\* The last state of the map is recent.
LEMMA RecentTip ==
    ASSUME NEW h \in Seq(MapType), NEW i \in Nat, i <= Len(h), Len(h) >= 1
    PROVE  Recent(h, h[Len(h)], i)
<1>1. Len(h) \in Nat
  OBVIOUS
<1> QED
  BY <1>1 DEF Recent, Since

\* So is a record that made it.
LEMMA RecentApplied ==
    ASSUME NEW h \in Seq(MapType), NEW m \in MapType, NEW rec \in Record, NEW i \in Nat,
           i <= Len(h) + 1
    PROVE  Recent(Append(h, Apply(m, rec)), rec, i)
<1> DEFINE g == Append(h, Apply(m, rec))
<1>1. Apply(m, rec) \in MapType
  BY ApplyType
<1>2. Len(h) \in Nat /\ Len(g) = Len(h) + 1 /\ g[Len(h) + 1] = Apply(m, rec)
  BY <1>1
<1>3. \A k \in Keys : Apply(m, rec)[k] \in Since(g, k, i)
  BY <1>2 DEF Since
<1>4. \A k \in Keys : rec[k] = Untouched \/ Apply(m, rec)[k] = rec[k]
  BY DEF Apply
<1> HIDE DEF g
<1>5. Recent(g, rec, i)
  BY <1>3, <1>4 DEF Recent
<1> QED
  BY <1>5 DEF g

\* What touches no key is recent.
LEMMA RecentTorn ==
    ASSUME NEW h, NEW i
    PROVE  Recent(h, Torn, i)
BY DEF Recent, Torn

-----------------------------------------------------------------------------
\* Recent logs, put together and taken apart.
LEMMA RecentNone ==
    ASSUME NEW h, NEW n \in Nat, NEW i
    PROVE  RecentFrom(h, <<>>, n, i)
BY DEF RecentFrom

LEMMA RecentAppend ==
    ASSUME NEW h, NEW recs \in Seq(Record), NEW rec \in Record, NEW n, NEW i,
           RecentFrom(h, recs, n, i), Recent(h, rec, i)
    PROVE  RecentFrom(h, Append(recs, rec), n, i)
<1>1. Len(recs) \in Nat /\ Len(Append(recs, rec)) = Len(recs) + 1
  OBVIOUS
<1>2. \A j \in 1..Len(Append(recs, rec)) :
          Append(recs, rec)[j] = IF j <= Len(recs) THEN recs[j] ELSE rec
  BY <1>1
<1> QED
  BY <1>1, <1>2 DEF RecentFrom

LEMMA RecentConcat ==
    ASSUME NEW h, NEW a \in Seq(Record), NEW b \in Seq(Record), NEW n \in Nat, NEW i,
           RecentFrom(h, a, n, i), RecentLog(h, b, i)
    PROVE  RecentFrom(h, a \o b, n, i)
<1>1. /\ Len(a) \in Nat /\ Len(b) \in Nat /\ Len(a \o b) = Len(a) + Len(b)
      /\ \A j \in 1..Len(a \o b) :
            (a \o b)[j] = IF j <= Len(a) THEN a[j] ELSE b[j - Len(a)]
  BY ConcatProperties
<1> HIDE DEF RecentLog
<1> SUFFICES ASSUME NEW j \in 1..Len(a \o b), j > n PROVE Recent(h, (a \o b)[j], i)
  BY DEF RecentFrom
<1>2. CASE j <= Len(a)
  BY <1>1, <1>2 DEF RecentFrom
<1>3. CASE j > Len(a)
  <2>1. j - Len(a) \in 1..Len(b) /\ j - Len(a) > 0
    BY <1>1, <1>3
  <2> QED
    BY <1>1, <1>3, <2>1 DEF RecentLog, RecentFrom
<1> QED
  BY <1>1, <1>2, <1>3

LEMMA RecentPrefix ==
    ASSUME NEW h, NEW recs \in Seq(Record), NEW n, NEW i, NEW len \in 0..Len(recs),
           RecentFrom(h, recs, n, i)
    PROVE  RecentFrom(h, SubSeq(recs, 1, len), n, i)
<1>1. Len(recs) \in Nat
  OBVIOUS
<1>2. /\ Len(SubSeq(recs, 1, len)) = len
      /\ \A j \in 1..len : SubSeq(recs, 1, len)[j] = recs[j]
  BY <1>1
<1> QED
  BY <1>1, <1>2 DEF RecentFrom

\* What is recent at all is recent behind a place.
LEMMA RecentBehind ==
    ASSUME NEW h, NEW recs, NEW n \in Nat, NEW i, RecentLog(h, recs, i)
    PROVE  RecentFrom(h, recs, n, i)
BY DEF RecentLog, RecentFrom

-----------------------------------------------------------------------------
(***************************************************************************)
(* Replay and recency.  A key that replay leaves is what the base had, or  *)
(* what some readable record wrote.                                        *)
(***************************************************************************)
\* Replay of a log keeps what it made of its first records, or takes a later record's value.
LEMMA ReplayMore ==
    ASSUME NEW base \in MapType, NEW recs \in Seq(Record), NEW more \in Seq(Record),
           NEW n \in 0..Len(recs), Len(more) >= n, NEW k \in Keys,
           \A j \in 1..n : more[j] = recs[j], n = Len(recs)
    PROVE  \/ Replay(base, more)[k] = Replay(base, recs)[k]
           \/ \E j \in 1..Len(more) : /\ j > n /\ more[j][k] # Untouched
                                      /\ Replay(base, more)[k] = more[j][k]
<1>1. Len(recs) \in Nat /\ Len(more) \in Nat
  OBVIOUS
<1>2. \A j \in 1..n : j \in Readable(recs) <=> j \in Readable(more)
  BY <1>1 DEF Readable
<1>3. CASE \E i \in Readable(more) : more[i][k] # Untouched
  <2>1. PICK i \in 1..Len(more) : IsLastWrite(more, k, i)
    BY <1>3, LastWriteExists
  <2>2. Replay(base, more)[k] = more[i][k] /\ more[i][k] # Untouched
    BY <2>1, ReplayLast DEF IsLastWrite
  <2>3. CASE i > n
    BY <2>2, <2>3
  <2>4. CASE i <= n
    <3>1. i \in 1..Len(recs) /\ recs[i] = more[i]
      BY <1>1, <2>4
    <3>2. IsLastWrite(recs, k, i)
      BY <1>1, <1>2, <2>1, <2>4, <3>1 DEF IsLastWrite, Readable
    <3>3. Replay(base, recs)[k] = recs[i][k]
      BY <3>1, <3>2, ReplayLast
    <3> QED
      BY <2>2, <3>1, <3>3
  <2> QED
    BY <1>1, <2>3, <2>4
<1>4. CASE \A i \in Readable(more) : more[i][k] = Untouched
  <2>1. \A i \in Readable(recs) : recs[i][k] = Untouched
    BY <1>1, <1>2, <1>4 DEF Readable
  <2> QED
    BY <1>4, <2>1, ReplayUntouched
<1> QED
  BY <1>3, <1>4

\* A log that is recent behind a place, over what its beginning makes if that is recent.
LEMMA RecentReplay ==
    ASSUME NEW h, NEW base \in MapType, NEW recs \in Seq(Record), NEW more \in Seq(Record),
           Len(more) >= Len(recs), \A j \in 1..Len(recs) : more[j] = recs[j],
           NEW i, Recent(h, Replay(base, recs), i), RecentFrom(h, more, Len(recs), i)
    PROVE  Recent(h, Replay(base, more), i)
<1>1. Len(recs) \in 0..Len(recs) /\ Replay(base, recs) \in MapType
  BY ReplayType
<1>2. ASSUME NEW k \in Keys PROVE Replay(base, more)[k] \in Since(h, k, i)
  <2>1. CASE Replay(base, more)[k] = Replay(base, recs)[k]
    BY <1>1, <2>1 DEF Recent, MapType, Untouched, Value
  <2>2. CASE \E j \in 1..Len(more) : /\ j > Len(recs) /\ more[j][k] # Untouched
                                     /\ Replay(base, more)[k] = more[j][k]
    BY <2>2 DEF RecentFrom, Recent
  <2> QED
    BY <1>1, <2>1, <2>2, ReplayMore
<1> QED
  BY <1>2 DEF Recent

\* The same for a log and what is put behind it.
LEMMA RecentReplayConcat ==
    ASSUME NEW h, NEW base \in MapType, NEW a \in Seq(Record), NEW b \in Seq(Record),
           NEW i, Recent(h, Replay(base, a), i), RecentLog(h, b, i)
    PROVE  Recent(h, Replay(base, a \o b), i)
<1>1. /\ Len(a) \in Nat /\ Len(b) \in Nat /\ a \o b \in Seq(Record)
      /\ Len(a \o b) = Len(a) + Len(b)
      /\ \A j \in 1..Len(a) : (a \o b)[j] = a[j]
  BY ConcatProperties
<1>2. RecentFrom(h, a, Len(a), i)
  BY <1>1 DEF RecentFrom
<1> DEFINE more == a \o b
<1>3. RecentFrom(h, more, Len(a), i)
  BY <1>1, <1>2, RecentConcat
<1>4. more \in Seq(Record) /\ Len(more) >= Len(a) /\ \A j \in 1..Len(a) : more[j] = a[j]
  BY <1>1
<1> HIDE DEF more
<1>5. Recent(h, Replay(base, more), i)
  BY <1>3, <1>4, RecentReplay
<1> QED
  BY <1>5 DEF more

\* Replaying nothing.
LEMMA ReplayNothing ==
    ASSUME NEW base \in MapType
    PROVE  Replay(base, <<>>) = base
BY DEF Replay, MapType

\* A recent base under a recent log.
LEMMA RecentOver ==
    ASSUME NEW h, NEW base \in MapType, NEW recs \in Seq(Record), NEW i,
           Recent(h, base, i), RecentLog(h, recs, i)
    PROVE  Recent(h, Replay(base, recs), i)
<1> DEFINE none == <<>>
<1>1. Replay(base, none) = base /\ none \in Seq(Record) /\ Len(none) = 0
  BY ReplayNothing
<1> HIDE DEF none
<1>2. Recent(h, Replay(base, none), i) /\ RecentFrom(h, recs, Len(none), i)
  BY <1>1 DEF RecentLog
<1>3. Len(recs) >= Len(none) /\ \A j \in 1..Len(none) : recs[j] = none[j]
  BY <1>1
<1> QED
  BY <1>1, <1>2, <1>3, RecentReplay

\* Another base that is recent may be put under a log whose replay was.
LEMMA RecentRebase ==
    ASSUME NEW h, NEW base \in MapType, NEW other \in MapType, NEW recs \in Seq(Record),
           NEW i, Recent(h, Replay(base, recs), i), Recent(h, other, i)
    PROVE  Recent(h, Replay(other, recs), i)
<1> SUFFICES ASSUME NEW k \in Keys PROVE Replay(other, recs)[k] \in Since(h, k, i)
  BY DEF Recent
<1>1. CASE \E j \in Readable(recs) : recs[j][k] # Untouched
  <2>1. PICK j \in 1..Len(recs) : IsLastWrite(recs, k, j)
    BY <1>1, LastWriteExists
  <2>2. /\ Replay(other, recs)[k] = recs[j][k] /\ Replay(base, recs)[k] = recs[j][k]
        /\ recs[j][k] # Untouched
    BY <2>1, ReplayLast DEF IsLastWrite
  <2> QED
    BY <2>2 DEF Recent
<1>2. CASE \A j \in Readable(recs) : recs[j][k] = Untouched
  <2>1. Replay(other, recs)[k] = other[k]
    BY <1>2, ReplayUntouched
  <2> QED
    BY <2>1 DEF Recent, MapType, Untouched, Value
<1> QED
  BY <1>1, <1>2

-----------------------------------------------------------------------------
(***************************************************************************)
(* The kinds of steps, by what they do to the records on their way to the  *)
(* disk.                                                                   *)
(***************************************************************************)
\* No record moves.
Still ==
    /\ UNCHANGED <<log, pending, dirty, taken, diskVars, hist, txs, acked>>
    /\ failed => failed'
    /\ \A c \in taken : flushAt'[c] = flushAt[c]
    /\ \/ wpc' = wpc
       \/ /\ wpc \notin {"down", "dirSync", "truncateSync"}
          /\ wpc' \notin {"down", "persist", "dirSync", "truncate", "truncateSync"}

\* A new record gives its keys the value of the next write, or deletes them.
New(rec) == \A k \in Keys : rec[k] \in {Untouched, Missing, Stamp}

\* A client logs a record of what it does to the map.
Logged(rec) ==
    /\ New(rec)
    /\ log' = Append(log, rec) /\ hist' = Append(hist, Apply(Tip, rec))
    /\ UNCHANGED <<pending, dirty, taken, diskVars, acked, failed, flushAt, wpc>>

\* An fsync of the WAL, of the writer's loop or of a compaction.
Synced ==
    /\ Sync
    /\ wpc \in {"strictSync", "sync", "maintain", "compactStrict", "compactSync"}
    /\ wpc' \in {"sync", "ack", "maintain", "compact", "capture", "persist"}
    /\ wpc = "sync" <=> wpc' = "ack"
    /\ wpc = "compactSync" <=> wpc' = "persist"
    /\ UNCHANGED <<log, pending, taken, flushAt, wal, snap, stableSnap, hist, txs, acked>>

Kind ==
    \/ Still
    \/ \E rec \in Record : rec # Torn /\ Logged(rec)
    \/ \E c \in Clients : Clear(c) \/ ClearLog(c) \/ Ack(c)
    \/ Collect \/ Write \/ CompactWrite \/ CompactTake \/ Sweep \/ AcksDone
    \/ Synced \/ Persist \/ DirSync \/ Truncate \/ TruncateSync
    \/ Kill \/ PowerLoss \/ Reopen

\* The records the operations log are new.
LEMMA NewRecords ==
    /\ \A k \in Keys : New(SetRecord(k, Stamp)) /\ New(DeleteRecord(k))
    /\ \A shape : New(BatchRecord(shape, Stamp))
    /\ New(ClearRecord)
BY DEF New, SetRecord, DeleteRecord, BatchRecord, ClearRecord, Untouched, Missing

\* Every step is of one of these kinds.
LEMMA EveryKind ==
    ASSUME Inv, [Next]_vars
    PROVE  Kind
<1> USE DEF Inv, TypeInv, TypeOK, clientVars, sharedVars, diskVars, runVars, ghostVars
<1>0. CASE UNCHANGED vars
  BY <1>0 DEF vars, Kind, Still
<1>c. ASSUME NEW c \in Clients, ClientCall(c) \/ ClientStep(c) PROVE Kind
  <2>1. CASE Set(c)
    <3>1. PICK k \in Keys : Mutate(c, SetRecord(k, Stamp))
      BY <2>1 DEF Set
    <3>2. SetRecord(k, Stamp) \in Record /\ SetRecord(k, Stamp) # Torn
      BY RecordTypes, HistType
    <3> QED
      BY <3>1, <3>2, NewRecords DEF Mutate, Kind, Logged
  <2>2. CASE Delete(c)
    <3>1. PICK k \in Keys : Mutate(c, DeleteRecord(k))
      BY <2>2 DEF Delete, Present
    <3>2. DeleteRecord(k) \in Record /\ DeleteRecord(k) # Torn
      BY RecordTypes
    <3> QED
      BY <3>1, <3>2, NewRecords DEF Mutate, Kind, Logged
  <2>3. CASE Clear(c)
    BY <2>3 DEF Kind
  <2>4. CASE GateEnter(c)
    BY <2>4 DEF GateEnter, Kind, Still
  <2>5. CASE Flush(c)
    <3>1. c \notin taken
      BY <2>5 DEF Flush, LockInv, FlushersWait
    <3> QED
      BY <2>5, <3>1 DEF Flush, Kind, Still
  <2>6. CASE Close(c)
    BY <2>6 DEF Close, Kind, Still
  <2>7. CASE BatchLog(c)
    <3>1. PICK shape \in BatchShapes :
              /\ log' = Append(log, BatchRecord(shape, Stamp))
              /\ hist' = Append(hist, Apply(Tip, BatchRecord(shape, Stamp)))
      BY <2>7 DEF BatchLog
    <3>2. BatchRecord(shape, Stamp) \in Record /\ BatchRecord(shape, Stamp) # Torn
      BY RecordTypes, HistType
    <3> QED
      BY <2>7, <3>1, <3>2, NewRecords DEF BatchLog, Kind, Logged
  <2>8. CASE BatchApply(c)
    BY <2>8 DEF BatchApply, Kind, Still
  <2>9. CASE ManyLock(c)
    BY <2>9 DEF ManyLock, Kind, Still
  <2>10. CASE ManyApply(c)
    <3>1. PICK k \in Keys :
              /\ log' = Append(log, SetRecord(k, Stamp))
              /\ hist' = Append(hist, Apply(Tip, SetRecord(k, Stamp)))
      BY <2>10 DEF ManyApply, Touched
    <3>2. SetRecord(k, Stamp) \in Record /\ SetRecord(k, Stamp) # Torn
      BY RecordTypes, HistType
    <3> QED
      BY <2>10, <3>1, <3>2, NewRecords DEF ManyApply, Kind, Logged
  <2>11. CASE GateRefused(c)
    BY <2>11 DEF GateRefused, Kind, Still
  <2>12. CASE Release(c)
    BY <2>12 DEF Release, Kind, Still
  <2>13. CASE Joined(c)
    BY <2>13 DEF Joined, Kind, Still
  <2>14. CASE ClearRemove(c)
    BY <2>14 DEF ClearRemove, Kind, Still
  <2>15. CASE ClearLog(c)
    BY <2>15 DEF Kind
  <2> QED
    BY <1>c, <2>1, <2>2, <2>3, <2>4, <2>5, <2>6, <2>7, <2>8, <2>9, <2>10, <2>11, <2>12,
       <2>13, <2>14, <2>15
       DEF ClientCall, ClientStep
<1>w. ASSUME WriterStep PROVE Kind
  <2>1. CASE HoldWrite
    BY <2>1 DEF HoldWrite, Goto, Kind, Still
  <2>2. CASE StrictSync
    BY <2>2 DEF StrictSync, SyncStep, Goto, AfterWrite, Urgent, Kind, Synced
  <2>3. CASE BarrierSync
    BY <2>3 DEF BarrierSync, SyncStep, Goto, Kind, Synced
  <2>4. CASE TimedSync
    BY <2>4 DEF TimedSync, SyncStep, Goto, Kind, Synced
  <2>5. CASE CompactStart
    BY <2>5 DEF CompactStart, Kind, Still
  <2>6. CASE CompactGate
    BY <2>6 DEF CompactGate, Goto, Kind, Still
  <2>7. CASE CompactStrictSync
    BY <2>7 DEF CompactStrictSync, SyncStep, Goto, Kind, Synced
  <2>8. CASE Capture
    <3>1. wpc = "capture" /\ wpc' \in {"capture", "compactSync"}
      BY <2>8 DEF Capture
    <3> QED
      BY <2>8, <3>1 DEF Capture, Kind, Still
  <2>9. CASE CompactSync
    BY <2>9 DEF CompactSync, SyncStep, Goto, Kind, Synced
  <2>10. CASE CompactGivesUp
    BY <2>10 DEF CompactGivesUp, Goto, Kind, Still
  <2>11. CASE PersistFails
    BY <2>11 DEF PersistFails, Goto, Kind, Still
  <2>12. CASE Loop
    BY <2>12 DEF Loop, Kind, Still
  <2> QED
    BY <1>w, <2>1, <2>2, <2>3, <2>4, <2>5, <2>6, <2>7, <2>8, <2>9, <2>10, <2>11, <2>12
       DEF WriterStep, Kind
<1> QED
  BY <1>0, <1>c, <1>w DEF Next, Kind
-----------------------------------------------------------------------------
(***************************************************************************)
(* FlushDurable is not inductive: it speaks of the files, and what flush   *)
(* answers for was still in the queue when it was called.  The records on  *)
(* their way to the disk are recent from the last answer on; those that    *)
(* the writer has taken with a flush make the files recent from that flush *)
(* on; and a snapshot is recent before it stands alone.                    *)
(***************************************************************************)
TakenUrgent    == taken # {} => wpc \in {"write", "strictSync", "sync", "ack"}
Counted        == acked <= Len(hist) /\ \A c \in Clients : flushAt[c] <= Len(hist)
QueueRecent    == RecentLog(hist, pending, acked) /\ RecentLog(hist, log, acked)
TakenRecent    == ~failed => \A c \in taken :
                      /\ Recent(hist, Replay(snap, wal \o pending), flushAt[c])
                      /\ RecentLog(hist, log, flushAt[c])
CaptureRecent  == Recent(hist, captured, acked)
TruncateRecent == wpc \in {"dirSync", "truncate"} => Recent(hist, snap, acked)
ClearRecent    == Clearing => /\ Recent(hist, map, acked)
                              /\ \A c \in taken : Recent(hist, map, flushAt[c])

PipeInv == /\ TakenUrgent /\ Counted /\ QueueRecent /\ TakenRecent
           /\ CaptureRecent /\ TruncateRecent /\ ClearRecent

\* At first there is nothing but an empty map.
LEMMA PipeInit == Init => PipeInv
<1> SUFFICES ASSUME Init PROVE PipeInv
  OBVIOUS
<1>1. Len(hist) = 1 /\ acked = 1 /\ \A c \in Clients : flushAt[c] = 0
  BY DEF Init
<1>2. taken = {} /\ wpc = "collect" /\ log = <<>> /\ pending = <<>> /\ captured = Torn
      /\ ~Clearing
  BY DEF Init, Clearing, ClientIdle
<1>3. RecentLog(hist, <<>>, acked)
  BY RecentNone DEF RecentLog
<1> QED
  BY <1>1, <1>2, <1>3, RecentTorn DEF PipeInv, TakenUrgent, Counted, QueueRecent,
     TakenRecent, CaptureRecent, TruncateRecent, ClearRecent

-----------------------------------------------------------------------------
\* The state of a clear is one the map has had.
LEMMA ClearedType == NoKeys \in MapType /\ \A m \in MapType : Apply(m, ClearRecord) = NoKeys
BY RecordTypes DEF ClearRecord, Apply, NoKeys, MapType, Missing, Untouched

\* In the states of the model the history only grows.
LEMMA HistGrows ==
    ASSUME TypeOK, Kind
    PROVE  Grows(hist, hist')
<1> USE DEF Grows, clientVars, sharedVars, diskVars, runVars, ghostVars
<1>1. CASE Still
  BY <1>1 DEF Still
<1>2. ASSUME NEW rec \in Record, Logged(rec) PROVE Grows(hist, hist')
  BY <1>2, HistType, ApplyType DEF Logged
<1>3. ASSUME NEW c \in Clients, Clear(c) \/ ClearLog(c) \/ Ack(c) PROVE Grows(hist, hist')
  BY <1>3, ClearedType DEF Clear, ClearLog, Ack
<1>4. CASE Sweep
  <2>1. PICK k \in Keys : hist' = Append(hist, Apply(Tip, DeleteRecord(k)))
    BY <1>4 DEF Sweep, Present
  <2> QED
    BY <2>1, HistType, ApplyType, RecordTypes
<1>5. CASE Reopen
  BY <1>5, ReplayType DEF Reopen, TypeOK
<1>6. CASE Collect \/ Write \/ CompactWrite \/ CompactTake \/ AcksDone
  BY <1>6 DEF Collect, Write, CompactWrite, CompactTake, AcksDone
<1>7. CASE Synced \/ Persist \/ DirSync \/ Truncate \/ TruncateSync
  BY <1>7 DEF Synced, Persist, DirSync, Truncate, TruncateSync
<1>8. CASE Kill \/ PowerLoss
  BY <1>8 DEF Kill, PowerLoss, MemoryLost
<1> QED
  BY <1>1, <1>2, <1>3, <1>4, <1>5, <1>6, <1>7, <1>8 DEF Kind

\* Flushes are taken to be answered at once, and none is answered for what is to come.
LEMMA TakenStep ==
    ASSUME Inv, TypeOK', TakenUrgent, Counted, [Next]_vars
    PROVE  TakenUrgent' /\ Counted'
<1> USE DEF Inv, TypeInv, TypeOK, TakenUrgent, Counted, clientVars, sharedVars, diskVars,
        runVars, ghostVars
<1>1. Len(hist') \in Nat /\ Len(hist) \in Nat /\ Len(hist') >= Len(hist)
  <2>1. Grows(hist, hist')
    BY EveryKind, HistGrows
  <2> QED
    BY <2>1 DEF Grows
<1>0. CASE UNCHANGED vars
  BY <1>0 DEF vars
<1>c. ASSUME NEW c \in Clients, ClientCall(c) \/ ClientStep(c)
      PROVE  TakenUrgent' /\ Counted'
  <2>1. UNCHANGED <<taken, wpc, acked>>
    BY <1>c DEF ClientCall, ClientStep, Set, Delete, Mutate, Clear, GateEnter, Flush, Close,
       BatchLog, BatchApply, ManyLock, ManyApply, GateRefused, Release, ClearRemove, ClearLog,
       Joined
  <2>2. flushAt' = flushAt \/ flushAt' = [flushAt EXCEPT ![c] = Len(hist)]
    BY <1>c DEF ClientCall, ClientStep, Set, Delete, Mutate, Clear, GateEnter, Flush, Close,
       BatchLog, BatchApply, ManyLock, ManyApply, GateRefused, Release, ClearRemove, ClearLog,
       Joined
  <2>3. \A d \in Clients : flushAt'[d] <= Len(hist)
    <3>1. flushAt \in [Clients -> Nat] /\ \A d \in Clients : flushAt[d] <= Len(hist)
      OBVIOUS
    <3>2. Len(hist) \in Nat
      BY <1>1
    <3> QED
      BY ONLY <2>2, <3>1, <3>2
  <2>4. \A d \in Clients : flushAt'[d] <= Len(hist')
    BY <1>1, <2>3
  <2>5. acked' <= Len(hist')
    BY <1>1, <2>1
  <2> QED
    BY <2>1, <2>4, <2>5
<1>w. ASSUME WriterStep PROVE TakenUrgent' /\ Counted'
  <2>1. CASE Collect
    BY <2>1, <1>1 DEF Collect, Goto
  <2>2. CASE Write
    BY <2>2, <1>1 DEF Write, WritePending, WriteOk, WriteFails, AfterWrite, Urgent
  <2>3. CASE HoldWrite
    BY <2>3, <1>1 DEF HoldWrite, Goto, Urgent
  <2>4. CASE StrictSync
    BY <2>4, <1>1 DEF StrictSync, SyncStep, Goto, AfterWrite, Urgent
  <2>5. CASE BarrierSync
    BY <2>5, <1>1 DEF BarrierSync, SyncStep, Goto
  <2>6. CASE TimedSync
    BY <2>6, <1>1 DEF TimedSync, SyncStep, Goto
  <2>7. CASE AcksDone
    BY <2>7, <1>1 DEF AcksDone
  <2>8. CASE CompactStart \/ CompactGate \/ CompactTake
    BY <2>8, <1>1 DEF CompactStart, CompactGate, CompactTake, Goto
  <2>9. CASE CompactWrite
    BY <2>9, <1>1 DEF CompactWrite, WritePending, WriteOk, WriteFails
  <2>10. CASE CompactStrictSync \/ CompactSync
    BY <2>10, <1>1 DEF CompactStrictSync, CompactSync, SyncStep, Goto
  <2>11. CASE Capture
    BY <2>11, <1>1 DEF Capture
  <2>12. CASE CompactGivesUp \/ Persist \/ PersistFails \/ DirSync \/ TruncateSync
    BY <2>12, <1>1 DEF CompactGivesUp, Persist, PersistFails, DirSync, TruncateSync, Goto
  <2>13. CASE Truncate
    BY <2>13, <1>1 DEF Truncate, Goto
  <2>14. CASE Sweep
    BY <2>14, <1>1 DEF Sweep
  <2>15. CASE Loop
    BY <2>15, <1>1 DEF Loop
  <2>16. ASSUME NEW c \in Clients, Ack(c) PROVE TakenUrgent' /\ Counted'
    BY <2>16, <1>1 DEF Ack
  <2> QED
    BY <1>w, <2>1, <2>2, <2>3, <2>4, <2>5, <2>6, <2>7, <2>8, <2>9, <2>10, <2>11, <2>12,
       <2>13, <2>14, <2>15, <2>16 DEF WriterStep
<1>2. CASE Kill \/ PowerLoss
  BY <1>2, <1>1 DEF Kill, PowerLoss, MemoryLost
<1>3. CASE Reopen
  <2>1. taken = {}
    BY <1>3 DEF Reopen, LockInv, DownIsIdle, FlushersWait, ClientIdle
  <2> QED
    BY <1>3, <1>1, <2>1 DEF Reopen
<1> QED
  BY <1>0, <1>c, <1>w, <1>2, <1>3 DEF Next
-----------------------------------------------------------------------------
\* While a clear is under way the history stands still and the map only loses keys.
LEMMA WhileClearing ==
    ASSUME Inv, Clearing, Clearing', [Next]_vars
    PROVE  /\ hist' = hist /\ txs' = txs
           /\ map' = map \/ \E k \in Keys : map' = [map EXCEPT ![k] = Missing]
           /\ acked' = acked \/ \E c \in taken : acked' = flushAt[c]
           /\ \A c \in taken' : c \in taken /\ flushAt'[c] = flushAt[c]
<1> USE DEF Inv, TypeInv, TypeOK, Clearing, LockFree, clientVars, sharedVars, diskVars,
        runVars, ghostVars
<1> DEFINE Goal == /\ hist' = hist /\ txs' = txs
                   /\ map' = map \/ \E k \in Keys : map' = [map EXCEPT ![k] = Missing]
                   /\ acked' = acked \/ \E c \in taken : acked' = flushAt[c]
                   /\ \A c \in taken' : c \in taken /\ flushAt'[c] = flushAt[c]
<1>0. ~LockFree
  OBVIOUS
<1>1. CASE UNCHANGED vars
  BY <1>1 DEF vars
<1>2. ASSUME NEW c \in Clients, ClientCall(c) \/ ClientStep(c) PROVE Goal
  <2>1. cpc[c] \notin {"batch", "many"}
    BY DEF LockInv, OneHolder, Holders
  <2>2. CASE Set(c) \/ Delete(c) \/ Clear(c) \/ BatchLog(c) \/ ManyLock(c) \/ Flush(c)
             \/ Close(c) \/ GateRefused(c)
    BY <2>2, <1>0 DEF Set, Delete, Mutate, Clear, BatchLog, ManyLock, Flush, Close,
       GateRefused, Admitted
  <2>3. CASE BatchApply(c) \/ ManyApply(c) \/ Release(c)
    BY <2>3, <2>1 DEF BatchApply, ManyApply, Release
  <2>4. CASE GateEnter(c) \/ Joined(c) \/ ClearLog(c)
    BY <2>4 DEF GateEnter, Joined, ClearLog
  <2>5. CASE ClearRemove(c)
    BY <2>5 DEF ClearRemove, Present
  <2> QED
    BY <1>2, <2>2, <2>3, <2>4, <2>5 DEF ClientCall, ClientStep
<1>3. ASSUME NEW c \in Clients, Ack(c) PROVE Goal
  BY <1>3 DEF Ack
<1>4. CASE AcksDone
  <2>1. ~closing
    BY <1>0 DEF LockInv, ClosedIsFree, DrainInv, ClosingDrains
  <2> QED
    BY <1>4, <2>1 DEF AcksDone
<1>5. CASE Collect \/ CompactTake \/ Sweep
  BY <1>5, <1>0 DEF Collect, CompactTake, Sweep
<1>6. CASE Write \/ HoldWrite \/ CompactWrite
  BY <1>6 DEF Write, HoldWrite, CompactWrite
<1>7. CASE StrictSync \/ BarrierSync \/ TimedSync \/ CompactStrictSync \/ CompactSync
  BY <1>7 DEF StrictSync, BarrierSync, TimedSync, CompactStrictSync, CompactSync, SyncStep
<1>8. CASE CompactStart \/ CompactGate \/ Capture \/ CompactGivesUp \/ Loop
  BY <1>8 DEF CompactStart, CompactGate, Capture, CompactGivesUp, Loop
<1>9. CASE Persist \/ PersistFails \/ DirSync \/ Truncate \/ TruncateSync
  BY <1>9 DEF Persist, PersistFails, DirSync, Truncate, TruncateSync
<1>10. CASE Kill \/ PowerLoss
  BY <1>10 DEF Kill, PowerLoss, MemoryLost, ClientIdle
<1>11. CASE Reopen
  BY <1>11 DEF Reopen, LockInv, DownIsIdle, ClientIdle
<1> QED
  BY <1>1, <1>2, <1>3, <1>4, <1>5, <1>6, <1>7, <1>8, <1>9, <1>10, <1>11
     DEF Next, WriterStep

\* A clear begins with Clear.
LEMMA ClearBegins ==
    ASSUME Inv, ~Clearing, Clearing', [Next]_vars
    PROVE  \E c \in Clients : Clear(c)
<1> USE DEF Inv, TypeInv, TypeOK, Clearing, clientVars, sharedVars, diskVars, runVars,
        ghostVars
<1>1. CASE UNCHANGED vars
  BY <1>1 DEF vars
<1>2. ASSUME NEW c \in Clients, ClientCall(c) \/ ClientStep(c) PROVE Clear(c)
  BY <1>2 DEF ClientCall, ClientStep, Set, Delete, Mutate, GateEnter, Flush, Close, BatchLog,
     BatchApply, ManyLock, ManyApply, GateRefused, Release, ClearRemove, ClearLog, Joined
<1>3. ASSUME WriterStep, ~ \E c \in Clients : Ack(c) PROVE UNCHANGED cpc
  BY <1>3 DEF WriterStep, Collect, Write, HoldWrite, StrictSync, BarrierSync, TimedSync,
     SyncStep, AcksDone, CompactStart, CompactGate, CompactTake, CompactWrite,
     CompactStrictSync, Capture, CompactSync, CompactGivesUp, Persist, PersistFails, DirSync,
     Truncate, TruncateSync, Sweep, Loop
<1>4. ASSUME NEW c \in Clients, Ack(c) PROVE FALSE
  BY <1>4 DEF Ack
<1>5. CASE Kill \/ PowerLoss
  BY <1>5 DEF Kill, PowerLoss, MemoryLost, ClientIdle
<1>6. CASE Reopen
  BY <1>6 DEF Reopen
<1> QED
  BY <1>1, <1>2, <1>3, <1>4, <1>5, <1>6 DEF Next

\* A map that loses a key the last state does not have stays recent.
LEMMA RecentRemove ==
    ASSUME NEW h \in Seq(MapType), Len(h) >= 1, NEW i \in Nat, i <= Len(h),
           h[Len(h)] = NoKeys, NEW m \in MapType, NEW k \in Keys, Recent(h, m, i)
    PROVE  Recent(h, [m EXCEPT ![k] = Missing], i)
<1>1. Recent(h, NoKeys, i)
  BY RecentTip
<1>2. Missing \in Since(h, k, i)
  BY <1>1 DEF Recent, NoKeys, Missing, Untouched
<1>3. \A x \in Keys : [m EXCEPT ![k] = Missing][x] = IF x = k THEN Missing ELSE m[x]
  BY DEF MapType
<1> QED
  BY <1>2, <1>3 DEF Recent

\* The map a clear empties stays recent.
LEMMA ClearRecentStep ==
    ASSUME Inv, TypeOK', MapIsTip, Counted, ClearRecent, [Next]_vars
    PROVE  ClearRecent'
<1> SUFFICES ASSUME Clearing' PROVE ClearRecent'
  BY DEF ClearRecent
<1>0. /\ hist \in Seq(MapType) /\ Len(hist) >= 1 /\ Len(hist) \in Nat /\ map \in MapType
      /\ acked \in Nat /\ acked <= Len(hist)
      /\ \A c \in Clients : flushAt[c] \in Nat /\ flushAt[c] <= Len(hist)
      /\ taken \subseteq Clients
  BY DEF Inv, TypeInv, TypeOK, Counted
<1>1. CASE ~Clearing
  <2>1. PICK c \in Clients : Clear(c)
    BY <1>1, ClearBegins
  <2>2. map = Tip /\ Grows(hist, hist') /\ UNCHANGED <<map, acked, taken, flushAt>>
    BY <2>1, ClearedType DEF Clear, Admitted, MapIsTip, Grows, clientVars, runVars
  <2>3. ASSUME NEW i \in Nat, i <= Len(hist) PROVE Recent(hist', map, i)
    <3>1. Recent(hist, Tip, i)
      BY <1>0, <2>3, RecentTip DEF Tip
    <3> QED
      BY <1>0, <2>2, <2>3, <3>1, RecentGrows
  <2> QED
    BY <1>0, <2>2, <2>3 DEF ClearRecent
<1>2. CASE Clearing
  <2>1. /\ hist' = hist
        /\ map' = map \/ \E k \in Keys : map' = [map EXCEPT ![k] = Missing]
        /\ acked' = acked \/ \E c \in taken : acked' = flushAt[c]
        /\ \A c \in taken' : c \in taken /\ flushAt'[c] = flushAt[c]
    BY <1>2, WhileClearing
  <2>2. hist[Len(hist)] = NoKeys
    BY <1>2 DEF MapIsTip, Tip
  <2>3. ASSUME NEW i \in Nat, i <= Len(hist), Recent(hist, map, i)
        PROVE  Recent(hist, map', i)
    BY <1>0, <2>1, <2>2, <2>3, RecentRemove
  <2>4. Recent(hist, map, acked) /\ \A c \in taken : Recent(hist, map, flushAt[c])
    BY <1>2 DEF ClearRecent
  <2>5. Recent(hist', map', acked')
    BY <1>0, <2>1, <2>3, <2>4
  <2>6. \A c \in taken' : Recent(hist', map', flushAt'[c])
    BY <1>0, <2>1, <2>3, <2>4
  <2> QED
    BY <2>5, <2>6 DEF ClearRecent
<1> QED
  BY <1>1, <1>2
-----------------------------------------------------------------------------
\* A capture is dropped, goes on, or stays; nothing is answered meanwhile.
LEMMA CapturedKinds ==
    ASSUME Inv, CapturedFresh, [Next]_vars
    PROVE  /\ Capture \/ captured' = Torn \/ captured' = captured
           /\ acked' = acked \/ captured = Torn
           /\ wpc' \in {"dirSync", "truncate"} =>
                 \/ Persist
                 \/ wpc \in {"dirSync", "truncate"} /\ snap' = snap /\ acked' = acked
<1> USE DEF Inv, TypeInv, TypeOK, CapturedFresh, clientVars, sharedVars, diskVars, runVars,
        ghostVars
<1> DEFINE Goal == /\ Capture \/ captured' = Torn \/ captured' = captured
                   /\ acked' = acked \/ captured = Torn
                   /\ wpc' \in {"dirSync", "truncate"} =>
                         \/ Persist
                         \/ /\ wpc \in {"dirSync", "truncate"}
                            /\ snap' = snap /\ acked' = acked
<1>1. CASE UNCHANGED vars
  BY <1>1 DEF vars
<1>2. ASSUME NEW c \in Clients, ClientCall(c) \/ ClientStep(c) PROVE Goal
  <2>1. UNCHANGED <<captured, acked, wpc, snap>>
    BY <1>2 DEF ClientCall, ClientStep, Set, Delete, Mutate, Clear, GateEnter, Flush, Close,
       BatchLog, BatchApply, ManyLock, ManyApply, GateRefused, Release, ClearRemove, ClearLog,
       Joined
  <2> QED
    BY <2>1
<1>3. ASSUME NEW c \in Clients, Ack(c) PROVE Goal
  BY <1>3 DEF Ack
<1>4. CASE AcksDone
  BY <1>4 DEF AcksDone
<1>5. CASE Collect \/ CompactTake \/ Sweep \/ HoldWrite
  BY <1>5 DEF Collect, CompactTake, Sweep, HoldWrite, Goto
<1>6. CASE Write \/ CompactWrite
  BY <1>6 DEF Write, CompactWrite, WritePending, AfterWrite
<1>7. CASE StrictSync \/ BarrierSync \/ TimedSync \/ CompactStrictSync \/ CompactSync
  BY <1>7 DEF StrictSync, BarrierSync, TimedSync, CompactStrictSync, CompactSync, SyncStep,
     Goto, AfterWrite
<1>8. CASE CompactStart \/ CompactGate \/ CompactGivesUp \/ Loop
  BY <1>8 DEF CompactStart, CompactGate, CompactGivesUp, Loop, Goto
<1>9. CASE Capture
  BY <1>9 DEF Capture
<1>10. CASE Persist
  BY <1>10 DEF Persist
<1>11. CASE PersistFails \/ DirSync \/ Truncate \/ TruncateSync
  BY <1>11 DEF PersistFails, DirSync, Truncate, TruncateSync, Goto
<1>12. CASE Kill \/ PowerLoss
  BY <1>12 DEF Kill, PowerLoss, MemoryLost
<1>13. CASE Reopen
  BY <1>13 DEF Reopen
<1> QED
  BY <1>1, <1>2, <1>3, <1>4, <1>5, <1>6, <1>7, <1>8, <1>9, <1>10, <1>11, <1>12, <1>13
     DEF Next, WriterStep

\* What capture reads of the map is recent.
LEMMA CaptureReadsRecent ==
    ASSUME Inv, MapIsTip, Counted, ClearRecent, wpc = "capture"
    PROVE  Recent(hist, map, acked)
<1>1. hist \in Seq(MapType) /\ Len(hist) >= 1 /\ acked \in Nat /\ acked <= Len(hist)
  BY DEF Inv, TypeInv, TypeOK, Counted
<1>2. CASE Clearing
  BY <1>2 DEF ClearRecent
<1>3. CASE ~Clearing
  <2>1. LockFree
    BY <1>3 DEF Clearing, LockFree, Inv, LockInv, GateExcludes, GateTaken, Readers
  <2>2. map = Tip
    BY <2>1 DEF MapIsTip, Up
  <2> QED
    BY <1>1, <2>2, RecentTip DEF Tip
<1> QED
  BY <1>2, <1>3

\* The snapshot being made is recent until it stands alone.
LEMMA SnapshotRecentStep ==
    ASSUME Inv, MapIsTip, CapturedFresh, Counted, ClearRecent, CaptureRecent,
           TruncateRecent, [Next]_vars
    PROVE  CaptureRecent' /\ TruncateRecent'
<1>0. /\ hist \in Seq(MapType) /\ acked \in Nat /\ captured \in Record /\ Grows(hist, hist')
  BY EveryKind, HistGrows DEF Inv, TypeInv, TypeOK
<1>1. CaptureRecent'
  <2>1. CASE Capture
    <3>1. PICK k \in Keys : captured' = [captured EXCEPT ![k] = map[k]]
      BY <2>1 DEF Capture
    <3>2. hist' = hist /\ acked' = acked /\ wpc = "capture"
      BY <2>1 DEF Capture, ghostVars
    <3>3. Recent(hist, map, acked)
      BY <3>2, CaptureReadsRecent
    <3>4. \A x \in Keys : captured'[x] = IF x = k THEN map[x] ELSE captured[x]
      BY <1>0, <3>1 DEF Record
    <3>5. Recent(hist, captured', acked)
      BY <3>3, <3>4 DEF CaptureRecent, Recent
    <3> QED
      BY <3>2, <3>5 DEF CaptureRecent
  <2>2. CASE captured' = Torn
    BY <2>2, RecentTorn DEF CaptureRecent
  <2>3. CASE captured' = captured /\ acked' = acked
    BY <1>0, <2>3, RecentGrows DEF CaptureRecent
  <2> QED
    BY <2>1, <2>2, <2>3, CapturedKinds
<1>2. TruncateRecent'
  <2>1. CASE Persist
    <3>1. snap' = captured /\ hist' = hist /\ acked' = acked
      BY <2>1 DEF Persist, ghostVars
    <3> QED
      BY <3>1 DEF TruncateRecent, CaptureRecent
  <2>2. CASE wpc \in {"dirSync", "truncate"} /\ snap' = snap /\ acked' = acked
    BY <1>0, <2>2, RecentGrows DEF TruncateRecent
  <2>3. CASE wpc' \notin {"dirSync", "truncate"}
    BY <2>3 DEF TruncateRecent
  <2> QED
    BY <2>1, <2>2, <2>3, CapturedKinds
<1> QED
  BY <1>1, <1>2
-----------------------------------------------------------------------------
\* A log of one record.
LEMMA RecentOne ==
    ASSUME NEW h, NEW rec \in Record, NEW i, Recent(h, rec, i)
    PROVE  RecentLog(h, <<rec>>, i)
<1>1. Len(<<rec>>) = 1 /\ <<rec>>[1] = rec
  OBVIOUS
<1> QED
  BY <1>1 DEF RecentLog, RecentFrom

\* The records in the queue are recent whenever the last state of the map is theirs to make.
LEMMA LoggedRecent ==
    ASSUME Inv, Counted, QueueRecent, TakenRecent, NEW rec \in Record, Logged(rec)
    PROVE  QueueRecent' /\ TakenRecent'
<1>0. /\ hist \in Seq(MapType) /\ Len(hist) \in Nat /\ Tip \in MapType
      /\ log \in Seq(Record) /\ pending \in Seq(Record) /\ taken \subseteq Clients
      /\ acked \in Nat /\ acked <= Len(hist)
      /\ \A c \in Clients : flushAt[c] \in Nat /\ flushAt[c] <= Len(hist)
  BY HistType DEF Inv, TypeInv, TypeOK, Counted
<1>1. /\ log' = Append(log, rec) /\ hist' = Append(hist, Apply(Tip, rec))
      /\ UNCHANGED <<pending, taken, wal, snap, acked, failed, flushAt>>
  BY DEF Logged, diskVars
<1>2. Grows(hist, hist')
  BY <1>0, <1>1, ApplyType DEF Grows
<1>3. ASSUME NEW i \in Nat, i <= Len(hist), RecentLog(hist, log, i)
      PROVE  RecentLog(hist', log', i)
  <2>1. Recent(hist', rec, i)
    BY <1>0, <1>1, <1>3, RecentApplied
  <2>2. RecentFrom(hist', log, 0, i)
    BY <1>0, <1>2, <1>3, RecentLogGrows DEF RecentLog
  <2> QED
    BY <1>0, <1>1, <2>1, <2>2, RecentAppend DEF RecentLog
<1>4. QueueRecent'
  <2>1. RecentLog(hist', pending, acked)
    BY <1>0, <1>2, RecentLogGrows DEF QueueRecent, RecentLog
  <2> QED
    BY <1>0, <1>1, <1>3, <2>1 DEF QueueRecent
<1>5. TakenRecent'
  <2> SUFFICES ASSUME ~failed, NEW c \in taken
               PROVE  /\ Recent(hist', Replay(snap, wal \o pending), flushAt[c])
                      /\ RecentLog(hist', log', flushAt[c])
    BY <1>1 DEF TakenRecent
  <2>1. Recent(hist, Replay(snap, wal \o pending), flushAt[c])
    BY DEF TakenRecent
  <2>2. RecentLog(hist, log, flushAt[c])
    BY DEF TakenRecent
  <2>3. Recent(hist', Replay(snap, wal \o pending), flushAt[c])
    BY <1>0, <1>2, <2>1, RecentGrows
  <2> QED
    BY <1>0, <1>3, <2>2, <2>3
<1> QED
  BY <1>4, <1>5

\* The files and the queue of a sound store make the last state.
LEMMA QueueMakesTip ==
    ASSUME Inv, LogInv, ~failed, Up, LockFree, NEW i \in Nat, i <= Len(hist)
    PROVE  Recent(hist, Replay(snap, (wal \o pending) \o log), i)
<1>1. ~Clearing
  BY DEF LockFree, Clearing
<1>2. Replay(snap, (wal \o pending) \o log) = Tip
  BY <1>1 DEF LogInv, LogMatchesMap
<1> QED
  BY <1>2, RecentTip DEF Tip, Inv, TypeInv, TypeOK

\* Collect takes the flushes together with every record they answer for.
LEMMA CollectRecent ==
    ASSUME Inv, LogInv, Counted, QueueRecent, Collect
    PROVE  QueueRecent' /\ TakenRecent'
<1>0. /\ log \in Seq(Record) /\ pending \in Seq(Record) /\ wal \in Seq(Record)
      /\ flushes \subseteq Clients
      /\ \A c \in Clients : flushAt[c] \in Nat /\ flushAt[c] <= Len(hist)
  BY DEF Inv, TypeInv, TypeOK, Counted
<1>1. /\ pending' = pending \o log /\ log' = <<>> /\ taken' = flushes /\ wpc = "collect"
      /\ LockFree /\ UNCHANGED <<failed, flushAt, wal, snap, hist, acked>>
  BY DEF Collect, Goto, clientVars, diskVars, ghostVars
<1>2. QueueRecent'
  <2>1. RecentLog(hist, pending \o log, acked)
    BY <1>0, RecentConcat DEF QueueRecent, RecentLog
  <2> QED
    BY <1>1, <2>1, RecentNone DEF QueueRecent, RecentLog
<1>3. TakenRecent'
  <2> SUFFICES ASSUME ~failed, NEW c \in flushes
               PROVE  /\ Recent(hist, Replay(snap, wal \o (pending \o log)), flushAt[c])
                      /\ RecentLog(hist, <<>>, flushAt[c])
    BY <1>1 DEF TakenRecent
  <2>1. Recent(hist, Replay(snap, (wal \o pending) \o log), flushAt[c])
    BY <1>0, <1>1, QueueMakesTip DEF Up
  <2>2. wal \o (pending \o log) = (wal \o pending) \o log
    BY <1>0, LogConcat
  <2> QED
    BY <2>1, <2>2, RecentNone DEF RecentLog
<1> QED
  BY <1>2, <1>3

\* write_pending moves the buffer to the WAL, or drops it with an error.
LEMMA WriteRecent ==
    ASSUME Inv, QueueRecent, TakenRecent, NEW strict, NEW STATE next,
           WritePending(strict, next), UNCHANGED <<log, taken, snap, flushAt, hist, acked>>
    PROVE  QueueRecent' /\ TakenRecent'
<1>0. /\ pending \in Seq(Record) /\ wal \in Seq(Record) /\ failed \in BOOLEAN
  BY DEF Inv, TypeInv, TypeOK
<1>1. pending' = <<>>
  BY DEF WritePending, WriteOk, WriteFails
<1>2. QueueRecent'
  BY <1>1, RecentNone DEF QueueRecent, RecentLog
<1>3. TakenRecent'
  <2> SUFFICES ASSUME ~failed' PROVE TakenRecent'
    BY DEF TakenRecent
  <2>1. ~failed /\ wal' = wal \o pending
    <3>1. CASE pending = <<>> /\ UNCHANGED <<wal, failed>>
      <4>1. wal \o <<>> = wal
        BY <1>0, ConcatEmptySeq
      <4> QED
        BY <3>1, <4>1
    <3>2. CASE WriteOk
      BY <3>2 DEF WriteOk
    <3>3. CASE WriteFails
      BY <3>3 DEF WriteFails
    <3> QED
      BY <3>1, <3>2, <3>3 DEF WritePending
  <2>2. wal' \o pending' = wal \o pending
    <3>1. wal \o pending \in Seq(Record)
      BY <1>0, ConcatProperties
    <3> QED
      BY <1>1, <2>1, <3>1, ConcatEmptySeq
  <2> QED
    BY <2>1, <2>2 DEF TakenRecent
<1> QED
  BY <1>2, <1>3

\* An answer moves the mark to a flush for which the queue is already recent.
LEMMA AckRecent ==
    ASSUME Inv, QueueRecent, TakenRecent, NEW c \in Clients, Ack(c)
    PROVE  QueueRecent' /\ TakenRecent'
<1>1. /\ UNCHANGED <<log, pending, wal, snap, hist, failed, flushAt>>
      /\ taken' = taken \ {c} /\ c \in taken /\ wpc = "ack" /\ pending = <<>>
      /\ acked' = IF ~failed /\ flushAt[c] > acked THEN flushAt[c] ELSE acked
  BY DEF Ack, sharedVars, diskVars, Inv, DrainInv, WrittenOut
<1>2. TakenRecent'
  BY <1>1 DEF TakenRecent
<1>3. CASE acked' = acked
  BY <1>1, <1>2, <1>3 DEF QueueRecent
<1>4. CASE acked' = flushAt[c] /\ ~failed
  <2>1. RecentLog(hist, log, flushAt[c])
    BY <1>1, <1>4 DEF TakenRecent
  <2> QED
    BY <1>1, <1>2, <1>4, <2>1, RecentNone DEF QueueRecent, RecentLog
<1> QED
  BY <1>1, <1>3, <1>4

\* Every step keeps the records on their way to the disk recent.
LEMMA RecordsRecentStep ==
    ASSUME Inv, LogInv, PipeInv, [Next]_vars
    PROVE  QueueRecent' /\ TakenRecent'
<1> USE DEF clientVars, sharedVars, diskVars, runVars, ghostVars
<1>0. /\ log \in Seq(Record) /\ pending \in Seq(Record) /\ hist \in Seq(MapType)
      /\ Grows(hist, hist') /\ acked \in Nat /\ failed \in BOOLEAN
      /\ \A c \in Clients : flushAt[c] \in Nat
      /\ taken \subseteq Clients
  BY EveryKind, HistGrows DEF Inv, TypeInv, TypeOK
<1>p. Counted /\ QueueRecent /\ TakenRecent
  BY DEF PipeInv
<1>n. RecentLog(hist', <<>>, acked')
  BY RecentNone DEF RecentLog
<1>1. CASE Still
  BY <1>1, <1>p DEF Still, QueueRecent, TakenRecent
<1>2. ASSUME NEW rec \in Record, Logged(rec) PROVE QueueRecent' /\ TakenRecent'
  BY <1>2, <1>p, LoggedRecent
<1>3. ASSUME NEW c \in Clients, Clear(c) PROVE QueueRecent' /\ TakenRecent'
  <2>1. /\ UNCHANGED <<log, pending, taken, wal, snap, failed, flushAt, acked>>
        /\ Grows(hist, hist')
    BY <1>3, ClearedType DEF Clear, Grows
  <2>2. QueueRecent'
    BY <1>0, <1>p, <2>1, RecentLogGrows DEF QueueRecent, RecentLog
  <2>3. \A c2 \in taken : /\ Recent(hist, Replay(snap, wal \o pending), flushAt[c2])
                             => Recent(hist', Replay(snap, wal \o pending), flushAt[c2])
                          /\ RecentLog(hist, log, flushAt[c2])
                             => RecentLog(hist', log, flushAt[c2])
    BY <1>0, <2>1, RecentGrows, RecentLogGrows DEF RecentLog
  <2>4. TakenRecent'
    BY <1>p, <2>1, <2>3 DEF TakenRecent
  <2> QED
    BY <2>2, <2>4
<1>4. ASSUME NEW c \in Clients, ClearLog(c) PROVE QueueRecent' /\ TakenRecent'
  <2>1. /\ UNCHANGED <<pending, taken, wal, snap, failed, flushAt, acked, hist>>
        /\ log' = Append(log, ClearRecord)
    BY <1>4 DEF ClearLog
  <2>2. ClearRecord \in Record /\ ClearRecord = NoKeys /\ Tip = NoKeys
    BY <1>4, RecordTypes DEF ClearRecord, NoKeys, LogInv, MapIsTip, Clearing, ClearLog
  <2>3. ASSUME NEW i \in Nat, i <= Len(hist), RecentLog(hist, log, i)
        PROVE  RecentLog(hist, log', i)
    <3>1. Recent(hist, ClearRecord, i)
      BY <2>2, <2>3, RecentTip DEF Tip, Inv, TypeInv, TypeOK
    <3> QED
      BY <1>0, <2>1, <2>2, <2>3, <3>1, RecentAppend DEF RecentLog
  <2>4. QueueRecent'
    BY <1>0, <1>p, <2>1, <2>3 DEF QueueRecent, Counted
  <2>5. TakenRecent'
    BY <1>0, <1>p, <2>1, <2>3 DEF TakenRecent, Counted
  <2> QED
    BY <2>4, <2>5
<1>5. ASSUME NEW c \in Clients, Ack(c) PROVE QueueRecent' /\ TakenRecent'
  BY <1>5, <1>p, AckRecent
<1>6. CASE Collect
  BY <1>6, <1>p, CollectRecent
<1>7. CASE Write
  BY <1>7, <1>p, WriteRecent DEF Write
<1>8. CASE CompactWrite
  BY <1>8, <1>p, WriteRecent DEF CompactWrite
<1>9. CASE CompactTake
  <2>1. /\ pending' = pending \o log /\ log' = <<>> /\ UNCHANGED <<hist, acked>>
        /\ taken' = {}
    BY <1>9 DEF CompactTake, Goto, PipeInv, TakenUrgent
  <2>2. RecentLog(hist, pending \o log, acked)
    BY <1>0, <1>p, RecentConcat DEF QueueRecent, RecentLog
  <2> QED
    BY <1>n, <2>1, <2>2 DEF QueueRecent, TakenRecent
<1>10. CASE Sweep
  <2>1. PICK k \in Keys : /\ pending' = (pending \o log) \o <<DeleteRecord(k)>>
                          /\ hist' = Append(hist, Apply(Tip, DeleteRecord(k)))
    BY <1>10 DEF Sweep, Present
  <2>2. log' = <<>> /\ acked' = acked /\ taken' = {}
    BY <1>10 DEF Sweep, PipeInv, TakenUrgent
  <2>3. DeleteRecord(k) \in Record /\ Tip \in MapType /\ Apply(Tip, DeleteRecord(k)) \in MapType
    BY RecordTypes, HistType, ApplyType DEF Inv, TypeInv
  <2>4. Recent(hist', DeleteRecord(k), acked)
    BY <1>0, <1>p, <2>1, <2>3, RecentApplied DEF Counted
  <2>5. RecentLog(hist', pending, acked) /\ RecentLog(hist', log, acked)
    BY <1>0, <1>p, <2>1, <2>3, RecentLogGrows DEF QueueRecent, RecentLog, Grows
  <2>6. pending \o log \in Seq(Record) /\ RecentLog(hist', pending \o log, acked)
    BY <1>0, <2>5, RecentConcat, ConcatProperties DEF RecentLog
  <2>7. RecentLog(hist', <<DeleteRecord(k)>>, acked) /\ <<DeleteRecord(k)>> \in Seq(Record)
    BY <2>3, <2>4, RecentOne
  <2>8. RecentLog(hist', pending', acked)
    BY <2>1, <2>6, <2>7, RecentConcat DEF RecentLog
  <2> QED
    BY <1>n, <2>2, <2>8 DEF QueueRecent, TakenRecent
<1>11. CASE AcksDone
  <2>1. UNCHANGED <<log, pending, taken, hist>> /\ taken = {}
    BY <1>11 DEF AcksDone
  <2>2. CASE acked' = acked
    BY <1>p, <2>1, <2>2 DEF QueueRecent, TakenRecent
  <2>3. CASE closing
    <3>1. log = <<>> /\ pending = <<>>
      BY <1>11, <2>3 DEF AcksDone, Inv, DrainInv, ClosingDrains, WrittenOut
    <3> QED
      BY <1>n, <2>1, <3>1 DEF QueueRecent, TakenRecent
  <2> QED
    BY <1>11, <2>2, <2>3 DEF AcksDone
<1>12. CASE Synced
  BY <1>12, <1>p DEF Synced, Sync, QueueRecent, TakenRecent
<1>13. CASE Persist \/ DirSync \/ Truncate \/ TruncateSync
  <2>1. UNCHANGED <<log, pending, hist, acked>> /\ taken' = {}
    BY <1>13 DEF Persist, DirSync, Truncate, TruncateSync, Goto, PipeInv, TakenUrgent
  <2> QED
    BY <1>p, <2>1 DEF QueueRecent, TakenRecent
<1>14. CASE Kill \/ PowerLoss
  <2>1. log' = <<>> /\ pending' = <<>> /\ taken' = {}
    BY <1>14 DEF Kill, PowerLoss, MemoryLost
  <2> QED
    BY <1>n, <2>1 DEF QueueRecent, TakenRecent
<1>15. CASE Reopen
  <2>1. log' = <<>> /\ pending' = <<>> /\ taken' = {}
    BY <1>15 DEF Reopen, Inv, LockInv, DownIsIdle, FlushersWait, ClientIdle, TypeInv, TypeOK
  <2> QED
    BY <1>n, <2>1 DEF QueueRecent, TakenRecent
<1> QED
  BY <1>1, <1>2, <1>3, <1>4, <1>5, <1>6, <1>7, <1>8, <1>9, <1>10, <1>11, <1>12, <1>13, <1>14,
     <1>15, EveryKind DEF Kind
-----------------------------------------------------------------------------
\* The parts together.
LEMMA PipeStep ==
    ASSUME Inv, LogInv, PipeInv, TypeOK', [Next]_vars
    PROVE  PipeInv'
<1>1. TakenUrgent' /\ Counted'
  BY TakenStep DEF PipeInv
<1>2. ClearRecent'
  BY ClearRecentStep DEF PipeInv, LogInv
<1>3. CaptureRecent' /\ TruncateRecent'
  BY SnapshotRecentStep DEF PipeInv, LogInv
<1>4. QueueRecent' /\ TakenRecent'
  BY RecordsRecentStep
<1> QED
  BY <1>1, <1>2, <1>3, <1>4 DEF PipeInv

\* Everything that holds whatever crashes there are.
StoreInv == Inv /\ LogInv /\ PipeInv

LEMMA StoreInvariance == Spec => []StoreInv
<1>1. Init => StoreInv
  BY TypeInit, LockInit, DrainInit, LogInit, PipeInit DEF StoreInv, Inv
<1>2. StoreInv /\ [Next]_vars => StoreInv'
  <2> SUFFICES ASSUME StoreInv, [Next]_vars PROVE StoreInv'
    OBVIOUS
  <2>1. Inv'
    BY TypeStep, LockStep, DrainStep DEF StoreInv, Inv, TypeInv
  <2>2. LogInv'
    BY MapStep, FreshStep, QueueStep DEF StoreInv, Inv, TypeInv, LogInv, Exact, Fresh
  <2>3. TypeOK'
    BY <2>1 DEF Inv, TypeInv
  <2>4. PipeInv'
    BY <2>3, PipeStep DEF StoreInv
  <2> QED
    BY <2>1, <2>2, <2>4 DEF StoreInv
<1> QED
  BY <1>1, <1>2, PTL DEF Spec

-----------------------------------------------------------------------------
(***************************************************************************)
(* Answers.  When the mark moves, everything up to it is in the WAL.       *)
(***************************************************************************)
LEMMA AnswerRecent ==
    ASSUME StoreInv, (\E c \in Clients : Ack(c)) \/ AcksDone, acked' # acked
    PROVE  /\ ~failed /\ wpc = "ack" /\ acked' \in Nat
           /\ Recent(hist, Replay(snap, wal), acked')
           /\ pending = <<>> /\ RecentLog(hist, log, acked')
<1>0. wal \in Seq(Record) /\ wal \o <<>> = wal /\ taken \subseteq Clients
      /\ flushAt \in [Clients -> Nat] /\ Len(hist) \in Nat
  BY ConcatEmptySeq DEF StoreInv, Inv, TypeInv, TypeOK
<1>1. ASSUME NEW c \in Clients, Ack(c)
      PROVE  /\ ~failed /\ wpc = "ack" /\ acked' \in Nat
             /\ Recent(hist, Replay(snap, wal), acked')
             /\ pending = <<>> /\ RecentLog(hist, log, acked')
  <2>1. ~failed /\ acked' = flushAt[c] /\ c \in taken /\ wpc = "ack"
    BY <1>1 DEF Ack
  <2>2. pending = <<>>
    BY <2>1 DEF StoreInv, Inv, DrainInv, WrittenOut
  <2>3. Recent(hist, Replay(snap, wal \o pending), flushAt[c])
    BY <2>1 DEF StoreInv, PipeInv, TakenRecent
  <2>4. RecentLog(hist, log, flushAt[c])
    BY <2>1 DEF StoreInv, PipeInv, TakenRecent
  <2> QED
    BY <1>0, <2>1, <2>2, <2>3, <2>4
<1>2. CASE AcksDone
  <2>1. closing /\ ~failed /\ acked' = Len(hist) /\ wpc = "ack"
    BY <1>2 DEF AcksDone
  <2>2. closed /\ log = <<>> /\ pending = <<>> /\ LockFree
    BY <2>1 DEF StoreInv, Inv, DrainInv, ClosingDrains, WrittenOut, LockInv, ClosedIsFree
  <2>3. Recent(hist, Replay(snap, (wal \o pending) \o log), Len(hist))
    BY <1>0, <2>1, <2>2, QueueMakesTip DEF StoreInv, Up
  <2>4. (wal \o pending) \o log = wal
    BY <1>0, <2>2
  <2>5. RecentLog(hist, log, acked')
    BY <2>2, RecentNone DEF RecentLog
  <2> QED
    BY <1>0, <2>1, <2>2, <2>3, <2>4, <2>5
<1> QED
  BY <1>1, <1>2

-----------------------------------------------------------------------------
(***************************************************************************)
(* Kills.  The page cache survives them: what counts is what the two files *)
(* show.                                                                   *)
(***************************************************************************)
FileRecent == Recent(hist, Replay(snap, wal), acked)

\* A prefix of the buffer behind the WAL, or such a prefix with a torn record behind it.
LEMMA WrittenPartly ==
    ASSUME StoreInv, FileRecent, NEW n \in 0..Len(pending), NEW tail \in {<<>>, <<Torn>>}
    PROVE  Recent(hist, Replay(snap, (wal \o SubSeq(pending, 1, n)) \o tail), acked)
<1>0. /\ wal \in Seq(Record) /\ pending \in Seq(Record) /\ snap \in MapType
      /\ Torn \in Record
  BY RecordTypes DEF StoreInv, Inv, TypeInv, TypeOK
<1> DEFINE part == SubSeq(pending, 1, n)
<1>1. part \in Seq(Record)
  BY <1>0
<1>2. RecentLog(hist, part, acked)
  BY <1>0, RecentPrefix DEF StoreInv, PipeInv, QueueRecent, RecentLog
<1> HIDE DEF part
<1>3. wal \o part \in Seq(Record) /\ Recent(hist, Replay(snap, wal \o part), acked)
  BY <1>0, <1>1, <1>2, RecentReplayConcat, ConcatProperties DEF FileRecent
<1>4. tail \in Seq(Record) /\ RecentLog(hist, tail, acked)
  <2>1. CASE tail = <<>>
    BY <2>1, NoRecords, RecentNone DEF RecentLog
  <2>2. CASE tail = <<Torn>>
    BY <1>0, <2>2, RecentTorn, RecentOne
  <2> QED
    BY <2>1, <2>2
<1>5. Recent(hist, Replay(snap, (wal \o part) \o tail), acked)
  BY <1>0, <1>3, <1>4, RecentReplayConcat
<1> QED
  BY <1>5 DEF part

\* Whatever a kill leaves in the WAL.
LEMMA KillRecent ==
    ASSUME StoreInv, FileRecent, NEW w \in KillWals
    PROVE  Recent(hist, Replay(snap, w), acked)
<1>0. /\ wal \in Seq(Record) /\ pending \in Seq(Record) /\ Torn \in Record
      /\ Len(pending) \in Nat
  BY RecordTypes DEF StoreInv, Inv, TypeInv, TypeOK
<1>1. CASE w = wal
  BY <1>1 DEF FileRecent
<1>2. ASSUME NEW n \in 0..Len(pending),
             \/ w = wal \o SubSeq(pending, 1, n)
             \/ w = wal \o Append(SubSeq(pending, 1, n), Torn)
      PROVE  Recent(hist, Replay(snap, w), acked)
  <2> DEFINE part == SubSeq(pending, 1, n)
  <2>1. part \in Seq(Record) /\ <<Torn>> \in Seq(Record)
    BY <1>0
  <2>2. \A tail \in {<<>>, <<Torn>>} :
            Recent(hist, Replay(snap, (wal \o part) \o tail), acked)
    BY WrittenPartly
  <2>3. w = wal \o part \/ w = wal \o Append(part, Torn)
    BY <1>2
  <2> HIDE DEF part
  <2>4. (wal \o part) \o <<>> = wal \o part
    BY <1>0, <2>1, ConcatProperties, ConcatEmptySeq
  <2>5. wal \o Append(part, Torn) = (wal \o part) \o <<Torn>>
    <3>1. Append(part, Torn) = part \o <<Torn>>
      BY <1>0, <2>1, AppendIsConcat
    <3> QED
      BY <1>0, <2>1, <3>1, LogConcat
  <2> QED
    BY <2>2, <2>3, <2>4, <2>5
<1> QED
  BY <1>1, <1>2 DEF KillWals, Prefixes

\* A write under way, with its error or without.
LEMMA FileWritten ==
    ASSUME StoreInv, FileRecent, NEW strict, NEW STATE next, WritePending(strict, next),
           UNCHANGED <<snap, hist, acked>>
    PROVE  FileRecent'
<1>0. /\ wal \in Seq(Record) /\ pending \in Seq(Record) /\ Len(pending) \in Nat
  BY DEF StoreInv, Inv, TypeInv, TypeOK
<1>1. CASE UNCHANGED wal
  BY <1>1 DEF FileRecent
<1>2. CASE WriteOk
  <2>1. wal' = (wal \o SubSeq(pending, 1, Len(pending))) \o <<>>
    <3>1. SubSeq(pending, 1, Len(pending)) = pending
      BY <1>0
    <3>2. (wal \o pending) \o <<>> = wal \o pending
      BY <1>0, ConcatProperties, ConcatEmptySeq
    <3> QED
      BY <1>2, <3>1, <3>2 DEF WriteOk
  <2>2. Len(pending) \in 0..Len(pending)
    BY <1>0
  <2>3. Recent(hist, Replay(snap, (wal \o SubSeq(pending, 1, Len(pending))) \o <<>>), acked)
    BY <2>2, WrittenPartly
  <2> QED
    BY <2>1, <2>3 DEF FileRecent
<1>3. CASE WriteFails
  <2>1. PICK n \in 0..(Len(pending) - 1), tail \in {<<>>, <<Torn>>} :
            wal' = wal \o SubSeq(pending, 1, n) \o tail
    BY <1>3 DEF WriteFails
  <2>2. n \in 0..Len(pending)
    BY <1>0
  <2>3. Recent(hist, Replay(snap, (wal \o SubSeq(pending, 1, n)) \o tail), acked)
    BY <2>2, WrittenPartly
  <2> QED
    BY <2>1, <2>3 DEF FileRecent
<1> QED
  BY <1>1, <1>2, <1>3 DEF WritePending

\* The captured map takes the place of the snapshot.
LEMMA CapturedMap ==
    ASSUME StoreInv, wpc = "persist"
    PROVE  captured \in MapType
BY DEF StoreInv, Inv, TypeInv, TypeOK, CapturedWhole, Touched, Record, MapType

\* As long as the power does not fail, the files stay recent.
LEMMA FileRecentStep ==
    ASSUME StoreInv, FileRecent, "power" \notin CrashKinds, [Next]_vars
    PROVE  FileRecent'
<1> USE DEF clientVars, sharedVars, diskVars, runVars, ghostVars
<1>0. /\ wal \in Seq(Record) /\ snap \in MapType /\ hist \in Seq(MapType) /\ acked \in Nat
      /\ Grows(hist, hist')
  BY EveryKind, HistGrows DEF StoreInv, Inv, TypeInv, TypeOK
<1>k. ASSUME UNCHANGED <<wal, snap, acked>> PROVE FileRecent'
  BY <1>0, <1>k, RecentGrows DEF FileRecent
<1>1. CASE Still
  BY <1>1, <1>k DEF Still
<1>2. ASSUME NEW rec \in Record, Logged(rec) PROVE FileRecent'
  BY <1>2, <1>k DEF Logged
<1>3. ASSUME NEW c \in Clients, Clear(c) \/ ClearLog(c) PROVE FileRecent'
  BY <1>3, <1>k DEF Clear, ClearLog
<1>4. CASE (\E c \in Clients : Ack(c)) \/ AcksDone
  <2>1. UNCHANGED <<wal, snap, hist>>
    BY <1>4 DEF Ack, AcksDone
  <2>2. CASE acked' = acked
    BY <2>1, <2>2 DEF FileRecent
  <2>3. CASE acked' # acked
    BY <1>4, <2>1, <2>3, AnswerRecent DEF FileRecent
  <2> QED
    BY <2>2, <2>3
<1>5. CASE Collect \/ CompactTake \/ Sweep
  BY <1>5, <1>k DEF Collect, CompactTake, Sweep
<1>6. CASE Write
  BY <1>6, FileWritten DEF Write
<1>7. CASE CompactWrite
  BY <1>7, FileWritten DEF CompactWrite
<1>8. CASE Synced \/ DirSync \/ TruncateSync
  BY <1>8, <1>k DEF Synced, DirSync, TruncateSync
<1>9. CASE Persist
  <2>1. snap' = captured /\ wpc = "persist" /\ UNCHANGED <<wal, hist, acked>>
    BY <1>9 DEF Persist, Goto
  <2>2. captured \in MapType
    BY <2>1, CapturedMap
  <2>3. Recent(hist, captured, acked)
    BY DEF StoreInv, PipeInv, CaptureRecent
  <2>4. Recent(hist, Replay(captured, wal), acked)
    BY <1>0, <2>2, <2>3, RecentRebase DEF FileRecent
  <2> QED
    BY <2>1, <2>4 DEF FileRecent
<1>10. CASE Truncate
  <2>1. wpc = "truncate" /\ UNCHANGED <<snap, hist, acked>>
    BY <1>10 DEF Truncate, Goto
  <2>2. CASE wal' = wal
    BY <2>1, <2>2 DEF FileRecent
  <2>3. CASE wal' = <<>>
    BY <1>0, <2>1, <2>3, ReplayNothing DEF FileRecent, StoreInv, PipeInv, TruncateRecent
  <2> QED
    BY <1>10, <2>2, <2>3 DEF Truncate
<1>11. CASE Kill
  <2>1. wal' \in KillWals /\ UNCHANGED <<snap, hist, acked>>
    BY <1>11 DEF Kill, MemoryLost
  <2> QED
    BY <2>1, KillRecent DEF FileRecent
<1>12. CASE PowerLoss
  BY <1>12 DEF PowerLoss
<1>13. CASE Reopen
  <2>1. wal' = ReadablePrefix(wal) /\ snap' = snap /\ acked' = acked
    BY <1>13 DEF Reopen
  <2>2. Replay(snap, ReadablePrefix(wal)) = Replay(snap, wal)
    BY <1>0, ReplayTruncated
  <2>3. Recent(hist', Replay(snap, wal), acked)
    BY <1>0, RecentGrows DEF FileRecent
  <2> QED
    BY <2>1, <2>2, <2>3 DEF FileRecent
<1>14. Kind
  BY EveryKind DEF StoreInv
<1> QED
  BY <1>1, <1>2, <1>3, <1>4, <1>5, <1>6, <1>7, <1>8, <1>9, <1>10, <1>11, <1>12, <1>13, <1>14
     DEF Kind

\* A recovered map that is recent satisfies FlushDurable key by key.
LEMMA RecentIsAsOf ==
    ASSUME TypeOK, NEW STATE m, m \in MapType, NEW STATE i, Recent(hist, m, i), NEW k \in Keys
    PROVE  AsOf(m, k, i)
<1>1. Len(hist) \in Nat
  BY DEF TypeOK
<1>2. m[k] \in Since(hist, k, i)
  BY DEF Recent, MapType, Value, Untouched
<1>3. PICK j \in 1..Len(hist) : j >= i /\ hist[j][k] = m[k]
  BY <1>2 DEF Since
<1> QED
  BY <1>1, <1>3 DEF AsOf

\* The files are recent at first.
LEMMA FileRecentInit == Init => FileRecent
<1> SUFFICES ASSUME Init PROVE FileRecent
  OBVIOUS
<1>1. /\ wal = <<>> /\ snap = NoKeys /\ hist = <<NoKeys>> /\ acked = 1
      /\ NoKeys \in MapType
  BY RecordTypes DEF Init
<1>2. Recent(hist, NoKeys, 1)
  <2>1. hist \in Seq(MapType) /\ Len(hist) = 1 /\ hist[Len(hist)] = NoKeys
    BY <1>1
  <2> QED
    BY <2>1, RecentTip
<1> QED
  BY <1>1, <1>2, ReplayNothing DEF FileRecent

(***************************************************************************)
(* Flushes and kills: if only the process can be killed, no kill at any    *)
(* moment leaves a key older than the last answered flush or clean close,  *)
(* whatever writes, fsyncs, snapshots or truncations have failed, and      *)
(* however often the store was closed and opened again.                    *)
(***************************************************************************)
THEOREM KillsKeepFlushed ==
    ASSUME "power" \notin CrashKinds
    PROVE  Spec => []FlushDurable
<1>1. Init => FileRecent
  BY FileRecentInit
<1>2. StoreInv /\ FileRecent /\ [Next]_vars => FileRecent'
  BY FileRecentStep
<1>3. StoreInv /\ FileRecent => FlushDurable
  <2> SUFFICES ASSUME StoreInv, FileRecent, NEW m \in Recovered, NEW k \in Keys
               PROVE  AsOf(m, k, acked)
    BY DEF FlushDurable
  <2>1. PICK w \in KillWals : m = Replay(snap, w)
    BY DEF Recovered, Images
  <2>2. w \in Seq(Record) /\ snap \in MapType /\ TypeOK
    BY CrashWals DEF StoreInv, Inv, TypeInv, TypeOK
  <2>3. Recent(hist, m, acked) /\ m \in MapType
    BY <2>1, <2>2, KillRecent, ReplayType
  <2> QED
    BY <2>2, <2>3, RecentIsAsOf
<1> QED
  BY <1>1, <1>2, <1>3, StoreInvariance, PTL DEF Spec
-----------------------------------------------------------------------------
(***************************************************************************)
(* Power losses.  What counts is what they are sure to leave: `stable`,    *)
(* and of the rest any prefix.  It is recent over either snapshot; behind  *)
(* it the WAL holds only recent records, or, while it is being truncated,  *)
(* the snapshots have them all.                                            *)
(***************************************************************************)
OneSnapshot  == wpc # "dirSync" => stableSnap = snap
CleanIsSure  == /\ wpc = "down" => stable = wal
                /\ ~failed /\ ~dirty /\ wpc # "truncateSync" => stable = wal
                /\ wpc = "persist" /\ ~failed => ~dirty
StableRecent == /\ Recent(hist, Replay(snap, stable), acked)
                /\ Recent(hist, Replay(stableSnap, stable), acked)
Aligned      == Len(stable) <= Len(wal) /\ stable = SubSeq(wal, 1, Len(stable))
Superseded   == /\ Recent(hist, snap, acked) /\ Recent(hist, stableSnap, acked)
                /\ RecentLog(hist, wal, acked)
TailRecent   == \/ Aligned /\ RecentFrom(hist, wal, Len(stable), acked)
                \/ Superseded
NeverFails   == Faults = {} => ~failed

PowerInv == OneSnapshot /\ CleanIsSure /\ StableRecent /\ TailRecent /\ NeverFails

\* The process is not killed, and a store that is opened again without a crash was closed
\* without an error: `dirty` is right about the WAL a writer starts with.
DirtyIsRight ==
    /\ "kill" \notin CrashKinds
    /\ "close" \in ReopenAfter => Faults = {}

\* Besides, the directory is fsynced when it should be.
PowerOnly == DirtyIsRight /\ "dirsync" \notin Faults

\* Nothing fails unless some I/O does.
LEMMA FailsNever ==
    ASSUME NeverFails, [Next]_vars
    PROVE  NeverFails'
<1> SUFFICES ASSUME Faults = {}, ~failed PROVE ~failed'
  BY DEF NeverFails
<1>1. CASE UNCHANGED vars
  BY <1>1 DEF vars, sharedVars
<1>2. ASSUME NEW c \in Clients, ClientCall(c) \/ ClientStep(c) PROVE ~failed'
  BY <1>2 DEF ClientCall, ClientStep, Set, Delete, Mutate, Clear, GateEnter, Flush, Close,
     BatchLog, BatchApply, ManyLock, ManyApply, GateRefused, Release, ClearRemove, ClearLog,
     Joined, sharedVars
<1>3. ASSUME WriterStep PROVE ~failed'
  <2>1. CASE \/ Collect \/ HoldWrite \/ (\E c \in Clients : Ack(c)) \/ AcksDone \/ CompactStart
             \/ CompactGate \/ CompactTake \/ Capture \/ CompactGivesUp \/ Persist \/ DirSync
             \/ Sweep \/ Loop
    BY <2>1 DEF Collect, HoldWrite, Ack, AcksDone, CompactStart, CompactGate, CompactTake,
       Capture, CompactGivesUp, Persist, DirSync, Sweep, Loop, sharedVars
  <2>2. CASE Write \/ CompactWrite
    BY <2>2 DEF Write, CompactWrite, WritePending, WriteOk, WriteFails
  <2>3. CASE StrictSync \/ BarrierSync \/ TimedSync \/ CompactStrictSync \/ CompactSync
    BY <2>3 DEF StrictSync, BarrierSync, TimedSync, CompactStrictSync, CompactSync, SyncStep,
       Sync
  <2>4. CASE PersistFails \/ Truncate \/ TruncateSync
    BY <2>4 DEF PersistFails, Truncate, TruncateSync
  <2> QED
    BY <1>3, <2>1, <2>2, <2>3, <2>4 DEF WriterStep
<1>4. CASE Kill \/ PowerLoss \/ Reopen
  BY <1>4 DEF Kill, PowerLoss, MemoryLost, Reopen
<1> QED
  BY <1>1, <1>2, <1>3, <1>4 DEF Next

\* A WAL that is safe when it is clean, and one snapshot.
LEMMA CleanStep ==
    ASSUME Inv, DirtyIsRight, CleanIsSure, NeverFails, [Next]_vars
    PROVE  CleanIsSure' /\ (OneSnapshot /\ "dirsync" \notin Faults => OneSnapshot')
<1> DEFINE Goal == CleanIsSure' /\ (OneSnapshot /\ "dirsync" \notin Faults => OneSnapshot')
<1> USE DEF OneSnapshot, CleanIsSure, clientVars, sharedVars, diskVars, runVars, ghostVars
<1>0. wal \in Seq(Record) /\ Len(wal) \in Nat /\ dirty \in BOOLEAN /\ failed \in BOOLEAN
  BY DEF Inv, TypeInv, TypeOK
<1>1. CASE Still
  BY <1>0, <1>1 DEF Still
<1>2. ASSUME NEW rec \in Record, Logged(rec) PROVE Goal
  BY <1>2 DEF Logged
<1>3. ASSUME NEW c \in Clients, Clear(c) \/ ClearLog(c) \/ Ack(c) PROVE Goal
  BY <1>3 DEF Clear, ClearLog, Ack
<1>4. CASE Collect \/ CompactTake \/ Sweep \/ AcksDone
  BY <1>4 DEF Collect, CompactTake, Sweep, AcksDone, Goto
<1>5. CASE Write
  BY <1>0, <1>5 DEF Write, WritePending, WriteOk, WriteFails, AfterWrite
<1>6. CASE CompactWrite
  BY <1>0, <1>6 DEF CompactWrite, WritePending, WriteOk, WriteFails
<1>7. CASE Synced
  BY <1>0, <1>7 DEF Synced, Sync
<1>8. CASE Persist \/ DirSync \/ Truncate \/ TruncateSync
  BY <1>0, <1>8 DEF Persist, DirSync, Truncate, TruncateSync, Goto
<1>9. CASE Kill
  BY <1>9 DEF Kill, DirtyIsRight
<1>10. CASE PowerLoss
  BY <1>10 DEF PowerLoss, MemoryLost
<1>11. CASE Reopen
  <2>1. stable = wal
    BY <1>0, <1>11 DEF Reopen, DirtyIsRight, NeverFails, Inv, DrainInv, SyncedOut
  <2>2. stable' = wal'
    <3>1. ReadableLen(wal) \in 0..Len(wal)
      BY <1>0, ReadableShape
    <3>2. ReadableLen(wal) = Len(wal) => ReadablePrefix(wal) = wal
      BY <1>0 DEF ReadablePrefix
    <3> QED
      BY <1>0, <1>11, <2>1, <3>1, <3>2 DEF Reopen
  <2> QED
    BY <1>11, <2>2 DEF Reopen
<1> QED
  BY <1>1, <1>2, <1>3, <1>4, <1>5, <1>6, <1>7, <1>8, <1>9, <1>10, <1>11, EveryKind DEF Kind

\* The images a power loss may leave are recent.
LEMMA PowerRecent ==
    ASSUME TypeOK, StableRecent, TailRecent, NEW s \in {snap, stableSnap}, NEW w \in PowerWals
    PROVE  Recent(hist, Replay(s, w), acked)
<1>0. /\ wal \in Seq(Record) /\ stable \in Seq(Record) /\ s \in MapType
      /\ Len(wal) \in Nat /\ Len(stable) \in Nat
  BY DEF TypeOK
<1>1. Recent(hist, Replay(s, stable), acked)
  BY DEF StableRecent
<1>2. CASE w = stable
  BY <1>1, <1>2
<1>3. ASSUME NEW n \in 0..Len(wal), w = SubSeq(wal, 1, n), Superseded
      PROVE  Recent(hist, Replay(s, w), acked)
  <2>1. Recent(hist, s, acked) /\ RecentLog(hist, wal, acked)
    BY <1>3 DEF Superseded
  <2>2. w \in Seq(Record) /\ RecentLog(hist, w, acked)
    BY <1>0, <1>3, <2>1, RecentPrefix DEF RecentLog
  <2> QED
    BY <1>0, <2>1, <2>2, RecentOver
<1>4. CASE Aligned
  <2>1. PICK n \in Len(stable)..Len(wal) : w = SubSeq(wal, 1, n)
    BY <1>4 DEF PowerWals, Aligned
  <2>2. n \in 0..Len(wal)
    BY <1>0, <2>1
  <2>3. CASE RecentFrom(hist, wal, Len(stable), acked)
    <3>1. /\ w \in Seq(Record) /\ Len(w) = n /\ Len(w) >= Len(stable)
          /\ \A j \in 1..Len(stable) : w[j] = stable[j]
      <4>1. \A j \in 1..Len(stable) : stable[j] = wal[j]
        BY <1>0, <1>4 DEF Aligned
      <4>2. \A j \in 1..Len(stable) : w[j] = wal[j]
        BY <1>0, <2>1
      <4> QED
        BY <1>0, <2>1, <4>1, <4>2
    <3>2. RecentFrom(hist, w, Len(stable), acked)
      BY <1>0, <2>1, <2>2, <2>3, RecentPrefix
    <3> QED
      BY <1>0, <1>1, <3>1, <3>2, RecentReplay
  <2>4. CASE Superseded
    BY <1>3, <2>1, <2>2, <2>4
  <2> QED
    BY <2>3, <2>4 DEF TailRecent
<1>5. CASE ~Aligned
  <2>1. Superseded
    BY <1>5 DEF TailRecent
  <2>2. w = stable \/ \E n \in 0..Len(wal) : w = SubSeq(wal, 1, n)
    BY <1>5 DEF PowerWals, Aligned, Prefixes
  <2> QED
    BY <1>2, <1>3, <2>1, <2>2
<1> QED
  BY <1>4, <1>5

\* Where `stable` is the WAL there is nothing behind it.
LEMMA NoTail ==
    ASSUME NEW h, NEW recs \in Seq(Record), NEW i
    PROVE  /\ Len(recs) <= Len(recs) /\ recs = SubSeq(recs, 1, Len(recs))
           /\ RecentFrom(h, recs, Len(recs), i)
<1>1. Len(recs) \in Nat
  OBVIOUS
<1> QED
  BY <1>1 DEF RecentFrom

\* What the files hold may become what a power loss leaves.
LEMMA SyncedRecent ==
    ASSUME TypeOK, OneSnapshot, wpc # "dirSync", StableRecent, TailRecent,
           stable' = wal, UNCHANGED <<wal, snap, stableSnap, hist, acked>>
    PROVE  StableRecent' /\ TailRecent'
<1>0. /\ wal \in Seq(Record) /\ stable \in Seq(Record) /\ snap \in MapType
      /\ Len(wal) \in Nat /\ Len(stable) \in Nat /\ stableSnap = snap
  BY DEF TypeOK, OneSnapshot
<1>1. Recent(hist, Replay(snap, wal), acked)
  <2>1. CASE Superseded
    BY <1>0, <2>1, RecentOver DEF Superseded
  <2>2. CASE Aligned /\ RecentFrom(hist, wal, Len(stable), acked)
    <3>1. Len(wal) >= Len(stable) /\ \A j \in 1..Len(stable) : wal[j] = stable[j]
      BY <1>0, <2>2 DEF Aligned
    <3> QED
      BY <1>0, <2>2, <3>1, RecentReplay DEF StableRecent
  <2> QED
    BY <2>1, <2>2 DEF TailRecent
<1>2. StableRecent'
  BY <1>0, <1>1 DEF StableRecent
<1>3. TailRecent'
  BY <1>0, NoTail DEF TailRecent, Aligned
<1> QED
  BY <1>2, <1>3

\* More recent records behind the WAL.
LEMMA TailWritten ==
    ASSUME StoreInv, StableRecent, TailRecent, NEW strict, NEW STATE next,
           WritePending(strict, next), UNCHANGED <<stable, snap, stableSnap, hist, acked>>
    PROVE  StableRecent' /\ TailRecent'
<1>0. /\ wal \in Seq(Record) /\ pending \in Seq(Record) /\ stable \in Seq(Record)
      /\ Len(pending) \in Nat /\ Len(stable) \in Nat /\ Len(wal) \in Nat /\ Torn \in Record
  BY RecordTypes DEF StoreInv, Inv, TypeInv, TypeOK
<1>1. StableRecent'
  BY DEF StableRecent
<1>2. RecentLog(hist, pending, acked)
  BY DEF StoreInv, PipeInv, QueueRecent
<1>u. /\ stable' = stable /\ snap' = snap /\ stableSnap' = stableSnap
      /\ hist' = hist /\ acked' = acked
  OBVIOUS
<1>3. CASE UNCHANGED wal
  <2>1. Aligned' = Aligned /\ Superseded' = Superseded
    BY <1>u, <1>3 DEF Aligned, Superseded
  <2>2. RecentFrom(hist, wal, Len(stable), acked)' = RecentFrom(hist, wal, Len(stable), acked)
    BY <1>u, <1>3
  <2> QED
    BY <1>1, <2>1, <2>2 DEF TailRecent
<1>4. ASSUME NEW more \in Seq(Record), RecentLog(hist, more, acked), wal' = wal \o more
      PROVE  TailRecent'
  <2>1. /\ Len(wal') = Len(wal) + Len(more) /\ Len(more) \in Nat /\ wal' \in Seq(Record)
        /\ \A j \in 1..Len(wal) : wal'[j] = wal[j]
    BY <1>0, <1>4, ConcatProperties
  <2>2. ASSUME Aligned PROVE Aligned'
    <3>1. SubSeq(wal', 1, Len(stable)) = SubSeq(wal, 1, Len(stable))
      BY <1>0, <2>1, <2>2 DEF Aligned
    <3> QED
      BY <1>0, <2>1, <2>2, <3>1 DEF Aligned
  <2>3. \A n \in Nat : RecentFrom(hist, wal, n, acked) => RecentFrom(hist, wal', n, acked)
    BY <1>0, <1>4, RecentConcat
  <2>4. CASE Aligned /\ RecentFrom(hist, wal, Len(stable), acked)
    <3>1. Len(stable') \in Nat /\ RecentFrom(hist', wal', Len(stable'), acked')
      BY <1>0, <1>u, <2>3, <2>4
    <3> QED
      BY <2>2, <2>4, <3>1 DEF TailRecent
  <2>5. CASE Superseded
    <3>1. RecentLog(hist', wal', acked')
      BY <1>u, <2>3, <2>5 DEF Superseded, RecentLog
    <3>2. Superseded'
      BY <1>u, <2>5, <3>1 DEF Superseded
    <3> QED
      BY <3>2 DEF TailRecent
  <2> QED
    BY <2>4, <2>5 DEF TailRecent
<1>5. CASE WriteOk
  BY <1>0, <1>1, <1>2, <1>4, <1>5 DEF WriteOk
<1>6. CASE WriteFails
  <2>1. PICK n \in 0..(Len(pending) - 1), tail \in {<<>>, <<Torn>>} :
            wal' = wal \o SubSeq(pending, 1, n) \o tail
    BY <1>6 DEF WriteFails
  <2> DEFINE part == SubSeq(pending, 1, n)
  <2>2. part \in Seq(Record) /\ RecentLog(hist, part, acked)
    BY <1>0, <1>2, <2>1, RecentPrefix DEF RecentLog
  <2>3. tail \in Seq(Record) /\ RecentLog(hist, tail, acked)
    <3>1. CASE tail = <<>>
      BY <3>1, NoRecords, RecentNone DEF RecentLog
    <3>2. CASE tail = <<Torn>>
      BY <1>0, <3>2, RecentTorn, RecentOne
    <3> QED
      BY <3>1, <3>2
  <2>4. wal' = (wal \o part) \o tail
    BY <2>1
  <2> HIDE DEF part
  <2>5. part \o tail \in Seq(Record) /\ RecentLog(hist, part \o tail, acked)
    BY <2>2, <2>3, RecentConcat, ConcatProperties DEF RecentLog
  <2>6. wal' = wal \o (part \o tail)
    BY <1>0, <2>2, <2>3, <2>4, LogConcat
  <2> QED
    BY <1>1, <1>4, <2>5, <2>6
<1>7. UNCHANGED wal \/ WriteOk \/ WriteFails
  BY DEF WritePending
<1> QED
  BY <1>3, <1>5, <1>6, <1>7
\* Where the WAL and both snapshots stay, so does what a power loss leaves.
LEMMA PowerKept ==
    ASSUME TypeOK, StableRecent, TailRecent, Grows(hist, hist'),
           UNCHANGED <<wal, stable, snap, stableSnap, acked>>
    PROVE  StableRecent' /\ TailRecent'
<1>0. /\ hist \in Seq(MapType) /\ acked \in Nat
      /\ wal' = wal /\ stable' = stable /\ snap' = snap /\ stableSnap' = stableSnap
      /\ acked' = acked
  BY DEF TypeOK
<1>1. \A rec : Recent(hist, rec, acked) => Recent(hist', rec, acked)
  BY <1>0, RecentGrows
<1>2. \A n : RecentFrom(hist, wal, n, acked) => RecentFrom(hist', wal, n, acked)
  BY <1>0, RecentLogGrows
<1>3. StableRecent'
  BY <1>0, <1>1 DEF StableRecent
<1>4. CASE Aligned /\ RecentFrom(hist, wal, Len(stable), acked)
  BY <1>0, <1>2, <1>3, <1>4 DEF TailRecent, Aligned
<1>5. CASE Superseded
  BY <1>0, <1>1, <1>2, <1>3, <1>5 DEF TailRecent, Superseded, RecentLog
<1> QED
  BY <1>4, <1>5 DEF TailRecent

\* As long as the process is not killed, what a power loss leaves stays recent.
LEMMA PowerRecentStep ==
    ASSUME StoreInv, PowerOnly, PowerInv, [Next]_vars
    PROVE  StableRecent' /\ TailRecent'
<1> USE DEF clientVars, sharedVars, diskVars, runVars, ghostVars
<1>0. /\ wal \in Seq(Record) /\ stable \in Seq(Record)
      /\ snap \in MapType /\ stableSnap \in MapType
      /\ hist \in Seq(MapType) /\ acked \in Nat /\ dirty \in BOOLEAN /\ failed \in BOOLEAN
      /\ Grows(hist, hist') /\ TypeOK
  BY EveryKind, HistGrows DEF StoreInv, Inv, TypeInv, TypeOK
<1>p. OneSnapshot /\ CleanIsSure /\ StableRecent /\ TailRecent /\ NeverFails
  BY DEF PowerInv
<1>k. ASSUME UNCHANGED <<wal, stable, snap, stableSnap, acked>>
      PROVE  StableRecent' /\ TailRecent'
  BY <1>0, <1>p, <1>k, PowerKept
<1>1. CASE Still
  BY <1>1, <1>k DEF Still
<1>2. ASSUME NEW rec \in Record, Logged(rec) PROVE StableRecent' /\ TailRecent'
  BY <1>2, <1>k DEF Logged
<1>3. ASSUME NEW c \in Clients, Clear(c) \/ ClearLog(c) PROVE StableRecent' /\ TailRecent'
  BY <1>3, <1>k DEF Clear, ClearLog
<1>4. CASE (\E c \in Clients : Ack(c)) \/ AcksDone
  <2>1. UNCHANGED <<wal, stable, snap, stableSnap, hist>>
    BY <1>4 DEF Ack, AcksDone
  <2>2. CASE acked' = acked
    BY <1>k, <2>1, <2>2
  <2>3. CASE acked' # acked
    <3>1. ~failed /\ wpc = "ack" /\ Recent(hist, Replay(snap, wal), acked')
      BY <1>4, <2>3, AnswerRecent
    <3>2. stable = wal /\ stableSnap = snap
      BY <1>0, <1>p, <3>1 DEF CleanIsSure, OneSnapshot, StoreInv, Inv, DrainInv, SyncedOut
    <3>3. StableRecent'
      BY <2>1, <3>1, <3>2 DEF StableRecent
    <3>4. TailRecent'
      BY <1>0, <2>1, <3>2, NoTail DEF TailRecent, Aligned
    <3> QED
      BY <3>3, <3>4
  <2> QED
    BY <2>2, <2>3
<1>5. CASE Collect \/ CompactTake \/ Sweep
  BY <1>5, <1>k DEF Collect, CompactTake, Sweep
<1>6. CASE Write
  BY <1>6, <1>p, TailWritten DEF Write
<1>7. CASE CompactWrite
  BY <1>7, <1>p, TailWritten DEF CompactWrite
<1>8. CASE Synced
  <2>1. wpc # "dirSync" /\ UNCHANGED <<wal, snap, stableSnap, hist, acked>>
    BY <1>8 DEF Synced
  <2>2. stable' = stable \/ stable' = wal
    BY <1>8 DEF Synced, Sync
  <2> QED
    BY <1>0, <1>k, <1>p, <2>1, <2>2, SyncedRecent
<1>9. CASE TruncateSync
  <2>1. wpc # "dirSync" /\ UNCHANGED <<wal, snap, stableSnap, hist, acked>>
    BY <1>9 DEF TruncateSync, Goto
  <2>2. stable' = stable \/ stable' = wal
    BY <1>9 DEF TruncateSync
  <2> QED
    BY <1>0, <1>k, <1>p, <2>1, <2>2, SyncedRecent
<1>10. CASE Persist
  <2>1. /\ snap' = captured /\ wpc = "persist" /\ ~failed
        /\ UNCHANGED <<wal, stable, stableSnap, hist, acked>>
    BY <1>10 DEF Persist, Goto
  <2>2. stable = wal
    BY <1>0, <1>p, <2>1 DEF CleanIsSure
  <2>3. captured \in MapType /\ Recent(hist, captured, acked)
    BY <2>1, CapturedMap DEF StoreInv, PipeInv, CaptureRecent
  <2>4. Recent(hist, Replay(captured, stable), acked)
    BY <1>0, <1>p, <2>3, RecentRebase DEF StableRecent
  <2>5. StableRecent'
    BY <1>p, <2>1, <2>4 DEF StableRecent
  <2>6. TailRecent'
    BY <1>0, <2>1, <2>2, NoTail DEF TailRecent, Aligned
  <2> QED
    BY <2>5, <2>6
<1>11. CASE DirSync
  <2>1. /\ stableSnap' = snap /\ snap' = snap /\ wal' = wal /\ stable' = stable
        /\ hist' = hist /\ acked' = acked
    BY <1>11 DEF DirSync, PowerOnly
  <2>2. StableRecent'
    BY <1>p, <2>1 DEF StableRecent
  <2>3. TailRecent'
    BY <1>p, <2>1 DEF TailRecent, Aligned, Superseded
  <2> QED
    BY <2>2, <2>3
<1>12. CASE Truncate
  <2>1. wpc = "truncate" /\ UNCHANGED <<stable, snap, stableSnap, hist, acked>>
    BY <1>12 DEF Truncate, Goto
  <2>2. CASE wal' = wal
    BY <1>k, <2>1, <2>2
  <2>3. CASE wal' = <<>>
    <3>1. Recent(hist, snap, acked) /\ stableSnap = snap
      BY <1>p, <2>1 DEF StoreInv, PipeInv, TruncateRecent, OneSnapshot
    <3>2. RecentLog(hist, <<>>, acked)
      BY RecentNone DEF RecentLog
    <3>3. Superseded'
      BY <2>1, <2>3, <3>1, <3>2 DEF Superseded
    <3>4. StableRecent'
      BY <1>p, <2>1 DEF StableRecent
    <3> QED
      BY <3>3, <3>4 DEF TailRecent
  <2> QED
    BY <1>12, <2>2, <2>3 DEF Truncate
<1>13. CASE PowerLoss
  <2>1. /\ wal' \in PowerWals /\ stable' = wal' /\ hist' = hist /\ acked' = acked
        /\ snap' \in {snap, stableSnap} /\ stableSnap' = snap'
    BY <1>13 DEF PowerLoss, MemoryLost
  <2>2. Recent(hist, Replay(snap', wal'), acked)
    BY <1>0, <1>p, <2>1, PowerRecent
  <2>3. wal' \in Seq(Record)
    BY <1>0, <2>1, CrashWals
  <2>4. StableRecent'
    BY <2>1, <2>2 DEF StableRecent
  <2>5. TailRecent'
    BY <2>1, <2>3, NoTail DEF TailRecent, Aligned
  <2> QED
    BY <2>4, <2>5
<1>14. CASE Kill
  BY <1>14 DEF Kill, PowerOnly, DirtyIsRight
<1>15. CASE Reopen
  <2>1. /\ wal' = ReadablePrefix(wal) /\ snap' = snap /\ stableSnap' = stableSnap
        /\ acked' = acked /\ wpc \in {"down", "done"}
    BY <1>15 DEF Reopen
  <2>2. stable = wal /\ stableSnap = snap
    BY <1>0, <1>p, <1>15 DEF Reopen, PowerOnly, DirtyIsRight, NeverFails, CleanIsSure, OneSnapshot,
       StoreInv, Inv, DrainInv, SyncedOut
  <2>3. stable' = wal' /\ wal' \in Seq(Record)
    <3>1. ReadableLen(wal) \in 0..Len(wal) /\ Len(wal) \in Nat
      BY <1>0, ReadableShape
    <3>2. /\ ReadablePrefix(wal) \in Seq(Record)
          /\ ReadableLen(wal) = Len(wal) => ReadablePrefix(wal) = wal
      BY <1>0, <3>1 DEF ReadablePrefix
    <3> QED
      BY <1>15, <2>2, <3>1, <3>2 DEF Reopen
  <2>4. Recent(hist', Replay(snap, wal'), acked)
    <3>1. Replay(snap, ReadablePrefix(wal)) = Replay(snap, wal)
      BY <1>0, ReplayTruncated
    <3>2. Recent(hist', Replay(snap, wal), acked)
      BY <1>0, <1>p, <2>2, RecentGrows DEF StableRecent
    <3> QED
      BY <2>1, <3>1, <3>2
  <2>5. StableRecent'
    BY <2>1, <2>2, <2>3, <2>4 DEF StableRecent
  <2>6. TailRecent'
    BY <2>3, NoTail DEF TailRecent, Aligned
  <2> QED
    BY <2>5, <2>6
<1>16. Kind
  BY EveryKind DEF StoreInv
<1> QED
  BY <1>1, <1>2, <1>3, <1>4, <1>5, <1>6, <1>7, <1>8, <1>9, <1>10, <1>11, <1>12, <1>13, <1>14,
     <1>15, <1>16 DEF Kind

\* So is what a power loss leaves.
LEMMA PowerInit == Init => PowerInv
<1> SUFFICES ASSUME Init PROVE PowerInv
  OBVIOUS
<1>1. /\ wal = <<>> /\ stable = <<>> /\ snap = NoKeys /\ stableSnap = NoKeys
      /\ hist = <<NoKeys>> /\ acked = 1 /\ ~failed /\ wpc = "collect"
      /\ NoKeys \in MapType /\ <<>> \in Seq(Record)
  BY RecordTypes, NoRecords DEF Init
<1>2. Recent(hist, NoKeys, 1)
  <2>1. hist \in Seq(MapType) /\ Len(hist) = 1 /\ hist[Len(hist)] = NoKeys
    BY <1>1
  <2> QED
    BY <2>1, RecentTip
<1>3. StableRecent
  BY <1>1, <1>2, ReplayNothing DEF StableRecent
<1>4. TailRecent
  BY <1>1, NoTail DEF TailRecent, Aligned
<1> QED
  BY <1>1, <1>3, <1>4 DEF PowerInv, OneSnapshot, CleanIsSure, NeverFails

(***************************************************************************)
(* Flushes and power losses: if the process is never killed, no power loss *)
(* at any moment leaves a key older than the last answered flush or clean  *)
(* close, whatever writes, fsyncs, snapshots or truncations have failed.   *)
(* The hypotheses are needed.  Without the first, a kill leaves a WAL that *)
(* Store::open takes for fsynced; without the second, sync_parent_dir      *)
(* ignores an error and the truncated WAL has lost what the new snapshot   *)
(* held; without the third, a store closed after a failed fsync is opened  *)
(* again with `dirty` false.                                               *)
(***************************************************************************)
THEOREM PowerLossKeepsFlushed ==
    ASSUME PowerOnly
    PROVE  Spec => []FlushDurable
<1>1. Init => PowerInv
  BY PowerInit
<1>2. StoreInv /\ PowerInv /\ [Next]_vars => PowerInv'
  BY PowerRecentStep, CleanStep, FailsNever DEF PowerInv, StoreInv, PowerOnly
<1>3. StoreInv /\ PowerInv => FlushDurable
  <2> SUFFICES ASSUME StoreInv, PowerInv, NEW m \in Recovered, NEW k \in Keys
               PROVE  AsOf(m, k, acked)
    BY DEF FlushDurable
  <2>1. PICK s \in {snap, stableSnap}, w \in PowerWals : m = Replay(s, w)
    BY DEF Recovered, Images, PowerOnly, DirtyIsRight
  <2>2. w \in Seq(Record) /\ s \in MapType /\ TypeOK
    BY CrashWals DEF StoreInv, Inv, TypeInv, TypeOK
  <2>3. Recent(hist, m, acked) /\ m \in MapType
    BY <2>1, <2>2, PowerRecent, ReplayType DEF PowerInv
  <2> QED
    BY <2>2, <2>3, RecentIsAsOf
<1> QED
  BY <1>1, <1>2, <1>3, StoreInvariance, PTL DEF Spec

-----------------------------------------------------------------------------

(***************************************************************************)
(* What a crash leaves of a batch, for any number of keys, clients and     *)
(* batches: all of it or none (BatchAtomic), when the process may be killed*)
(* and when the power may fail.  In both the records of a batch are        *)
(* followed from the log through the buffer to the WAL, and from the map   *)
(* through a capture to the snapshot that replaces them.                   *)
(***************************************************************************)

(***************************************************************************)
(* Batches.  A batch is its index in the history and its keys.  A record,  *)
(* or a map, carries the batch when one of those keys has the value the    *)
(* batch gave it.                                                          *)
(***************************************************************************)
Batch == [at : Nat, keys : SUBSET Keys]

Carries(rec, tx)     == \E k \in tx.keys : rec[k] = tx.at
Holds(recs, k, v)    == \E a \in 1..Len(recs) : recs[a][k] = v
Shows(recs, k, v)    == \E a \in Readable(recs) : recs[a][k] = v

\* The one record that carries the batch is all of it, and nothing older comes behind.
Ordered(h, recs, tx) ==
    \A a \in 1..Len(recs) : Carries(recs[a], tx) =>
        /\ \A k \in tx.keys : recs[a][k] # Untouched
        /\ \A b \in 1..Len(recs) : b >= a => Recent(h, recs[b], tx.at)

\* A map that carries the batch has nothing older.
Whole(h, m, tx) == Carries(m, tx) => Recent(h, m, tx.at)

\* A snapshot that has a key of the batch does not lie under older records, unless the
\* batch is among them.
Backed(h, m, recs, tx) ==
    \A k \in tx.keys : m[k] = tx.at =>
        Shows(recs, k, tx.at) \/ RecentLog(h, recs, tx.at)

Atomic(h, m, recs, tx) ==
    Ordered(h, recs, tx) /\ Whole(h, m, tx) /\ Backed(h, m, recs, tx)

\* Such a pair of files recovers the batch whole.
LEMMA BatchRecovers ==
    ASSUME NEW h, NEW base \in MapType, NEW recs \in Seq(Record), NEW tx \in Batch,
           Atomic(h, base, recs, tx), Carries(Replay(base, recs), tx), NEW k \in tx.keys
    PROVE  Replay(base, recs)[k] \in Since(h, k, tx.at)
<1>0. k \in Keys /\ tx.at \in Nat
  BY DEF Batch
<1>1. PICK k0 \in tx.keys : Replay(base, recs)[k0] = tx.at
  BY DEF Carries
<1>2. k0 \in Keys
  BY DEF Batch
<1>3. CASE \E i \in Readable(recs) : recs[i][k0] # Untouched
  <2>1. PICK a \in 1..Len(recs) : IsLastWrite(recs, k0, a)
    BY <1>2, <1>3, LastWriteExists
  <2>2. a \in Readable(recs) /\ recs[a][k0] = tx.at
    BY <1>1, <1>2, <2>1, ReplayLast DEF IsLastWrite
  <2>3. Carries(recs[a], tx)
    BY <2>2 DEF Carries
  <2>4. /\ recs[a][k] # Untouched
        /\ \A b \in 1..Len(recs) : b >= a => Recent(h, recs[b], tx.at)
    BY <2>1, <2>3 DEF Atomic, Ordered
  <2>5. PICK b \in 1..Len(recs) : IsLastWrite(recs, k, b)
    BY <1>0, <2>2, <2>4, LastWriteExists
  <2>6. b >= a /\ recs[b][k] # Untouched
    BY <2>2, <2>4, <2>5 DEF IsLastWrite
  <2>7. Replay(base, recs)[k] = recs[b][k]
    BY <1>0, <2>5, ReplayLast
  <2> QED
    BY <1>0, <2>4, <2>6, <2>7 DEF Recent
<1>4. CASE \A i \in Readable(recs) : recs[i][k0] = Untouched
  <2>1. base[k0] = tx.at
    BY <1>1, <1>2, <1>4, ReplayUntouched
  <2>2. Recent(h, base, tx.at)
    BY <2>1 DEF Atomic, Whole, Carries
  <2>3. ~Shows(recs, k0, tx.at)
    BY <1>0, <1>4 DEF Shows, Untouched
  <2>4. RecentLog(h, recs, tx.at)
    BY <2>1, <2>3 DEF Atomic, Backed
  <2>5. Recent(h, Replay(base, recs), tx.at) /\ Replay(base, recs) \in MapType
    BY <2>2, <2>4, RecentOver, ReplayType
  <2> QED
    BY <1>0, <2>5 DEF Recent, MapType, Value, Untouched
<1> QED
  BY <1>3, <1>4

-----------------------------------------------------------------------------
(***************************************************************************)
(* What failures and crashes make of a log: some of its records, in their  *)
(* order, and torn ones.                                                   *)
(***************************************************************************)
Thinned(recs, part) ==
    \E f \in [1..Len(part) -> 0..Len(recs)] :
        /\ \A j \in 1..Len(part) :
              part[j] = Torn \/ (f[j] >= 1 /\ part[j] = recs[f[j]])
        /\ \A i, j \in 1..Len(part) : i <= j => f[i] <= f[j]

\* Fewer records can only be in order, and recent, if all of them were.
LEMMA ThinnedOrdered ==
    ASSUME NEW h, NEW recs \in Seq(Record), NEW part \in Seq(Record), Thinned(recs, part),
           NEW tx \in Batch, Ordered(h, recs, tx)
    PROVE  Ordered(h, part, tx)
<1>0. Len(recs) \in Nat
  OBVIOUS
<1>1. PICK f \in [1..Len(part) -> 0..Len(recs)] :
          /\ \A j \in 1..Len(part) :
                part[j] = Torn \/ (f[j] >= 1 /\ part[j] = recs[f[j]])
          /\ \A i, j \in 1..Len(part) : i <= j => f[i] <= f[j]
  BY DEF Thinned
<1> SUFFICES ASSUME NEW a \in 1..Len(part), Carries(part[a], tx)
             PROVE  /\ \A k \in tx.keys : part[a][k] # Untouched
                    /\ \A b \in 1..Len(part) : b >= a => Recent(h, part[b], tx.at)
  BY DEF Ordered
<1>2. f[a] \in 1..Len(recs) /\ part[a] = recs[f[a]]
  <2>1. ~Carries(Torn, tx)
    BY DEF Carries, Torn, Batch, Untouched
  <2> QED
    BY <1>0, <1>1, <2>1
<1>3. /\ \A k \in tx.keys : recs[f[a]][k] # Untouched
      /\ \A b \in 1..Len(recs) : b >= f[a] => Recent(h, recs[b], tx.at)
  BY <1>2 DEF Ordered
<1>4. ASSUME NEW b \in 1..Len(part), b >= a PROVE Recent(h, part[b], tx.at)
  <2>1. CASE part[b] = Torn
    BY <2>1, RecentTorn
  <2>2. CASE f[b] >= 1 /\ part[b] = recs[f[b]]
    <3>1. f[b] >= f[a]
      BY <1>1, <1>4
    <3> QED
      BY <1>0, <1>3, <2>2, <3>1
  <2> QED
    BY <1>1, <2>1, <2>2
<1> QED
  BY <1>2, <1>3, <1>4

\* Less of a recent log is recent.
LEMMA ThinnedRecent ==
    ASSUME NEW h, NEW recs \in Seq(Record), NEW part, Thinned(recs, part), NEW i,
           RecentLog(h, recs, i)
    PROVE  RecentLog(h, part, i)
<1> SUFFICES ASSUME NEW j \in 1..Len(part) PROVE Recent(h, part[j], i)
  BY DEF RecentLog, RecentFrom
<1>1. part[j] = Torn \/ \E x \in 1..Len(recs) : part[j] = recs[x]
  BY DEF Thinned
<1>2. \A x \in 1..Len(recs) : Recent(h, recs[x], i)
  BY DEF RecentLog, RecentFrom
<1> QED
  BY <1>1, <1>2, RecentTorn

\* The beginning of a log.
LEMMA ThinnedPrefix ==
    ASSUME NEW recs \in Seq(Record), NEW part \in Seq(Record), Len(part) <= Len(recs),
           \A j \in 1..Len(part) : part[j] = recs[j]
    PROVE  Thinned(recs, part)
<1> DEFINE f == [j \in 1..Len(part) |-> j]
<1>1. Len(part) \in Nat /\ Len(recs) \in Nat
  OBVIOUS
<1>2. f \in [1..Len(part) -> 0..Len(recs)]
  BY <1>1
<1>3. \A j \in 1..Len(part) : f[j] >= 1 /\ part[j] = recs[f[j]]
  BY <1>1
<1> QED
  BY <1>2, <1>3 DEF Thinned

\* Nothing left, or a torn record.
LEMMA ThinnedAway ==
    ASSUME NEW recs \in Seq(Record)
    PROVE  Thinned(recs, <<>>) /\ Thinned(recs, <<Torn>>) /\ Thinned(recs, recs)
<1>1. Len(recs) \in Nat /\ Torn \in Record
  BY RecordTypes
<1>2. Thinned(recs, <<>>) /\ Thinned(recs, recs)
  <2> DEFINE none == <<>>
  <2>1. none \in Seq(Record) /\ Len(none) = 0
    BY NoRecords
  <2> HIDE DEF none
  <2>2. Thinned(recs, none)
    <3>1. Len(none) <= Len(recs) /\ \A j \in 1..Len(none) : none[j] = recs[j]
      BY <1>1, <2>1
    <3> QED
      BY <2>1, <3>1, ThinnedPrefix
  <2>3. Thinned(recs, recs)
    BY <1>1, ThinnedPrefix
  <2> QED
    BY <2>2, <2>3 DEF none
<1>3. Thinned(recs, <<Torn>>)
  <2> DEFINE part == <<Torn>>
             f == [j \in 1..Len(part) |-> 0]
  <2>1. Len(part) = 1 /\ part[1] = Torn
    OBVIOUS
  <2>2. f \in [1..Len(part) -> 0..Len(recs)] /\ f[1] = 0
    BY <1>1
  <2> HIDE DEF part, f
  <2>3. Thinned(recs, part)
    BY <2>1, <2>2 DEF Thinned
  <2> QED
    BY <2>3 DEF part
<1> QED
  BY <1>2, <1>3

\* Two logs, each with less of it, one behind the other.
LEMMA ThinnedConcat ==
    ASSUME NEW a \in Seq(Record), NEW b \in Seq(Record), NEW p \in Seq(Record),
           NEW q \in Seq(Record), Thinned(a, p), Thinned(b, q)
    PROVE  Thinned(a \o b, p \o q)
<1>1. PICK f \in [1..Len(p) -> 0..Len(a)] :
          /\ \A j \in 1..Len(p) : p[j] = Torn \/ (f[j] >= 1 /\ p[j] = a[f[j]])
          /\ \A i, j \in 1..Len(p) : i <= j => f[i] <= f[j]
  BY DEF Thinned
<1>2. PICK g \in [1..Len(q) -> 0..Len(b)] :
          /\ \A j \in 1..Len(q) : q[j] = Torn \/ (g[j] >= 1 /\ q[j] = b[g[j]])
          /\ \A i, j \in 1..Len(q) : i <= j => g[i] <= g[j]
  BY DEF Thinned
<1> DEFINE recs == a \o b
           part == p \o q
           m == Len(a)
           n == Len(p)
           r == [j \in 1..Len(part) |-> IF j <= n THEN f[j] ELSE g[j - n] + m]
<1>3. /\ recs \in Seq(Record) /\ Len(recs) = m + Len(b)
      /\ \A j \in 1..m + Len(b) : recs[j] = IF j <= m THEN a[j] ELSE b[j - m]
  BY ConcatProperties
<1>4. /\ part \in Seq(Record) /\ Len(part) = n + Len(q)
      /\ \A j \in 1..n + Len(q) : part[j] = IF j <= n THEN p[j] ELSE q[j - n]
  BY ConcatProperties
<1>5. /\ m \in Nat /\ n \in Nat /\ Len(b) \in Nat /\ Len(q) \in Nat
      /\ Len(a) = m /\ Len(p) = n
  OBVIOUS
<1> HIDE DEF recs, part, m, n
<1>6. ASSUME NEW j \in 1..Len(part)
      PROVE  \/ j <= n /\ j \in 1..Len(p) /\ r[j] = f[j] /\ f[j] \in 0..m
             \/ /\ j > n /\ j - n \in 1..Len(q) /\ r[j] = g[j - n] + m
                /\ g[j - n] \in 0..Len(b)
  <2>1. r[j] = IF j <= n THEN f[j] ELSE g[j - n] + m
    OBVIOUS
  <2>2. CASE j <= n
    <3>1. j \in 1..Len(p) /\ r[j] = f[j]
      BY <1>4, <1>5, <2>1, <2>2
    <3> QED
      BY <1>1, <1>5, <2>2, <3>1
  <2>3. CASE j > n
    <3>1. j - n \in 1..Len(q) /\ r[j] = g[j - n] + m
      BY <1>4, <1>5, <2>1, <2>3
    <3> QED
      BY <1>2, <2>3, <3>1
  <2> QED
    BY <1>4, <1>5, <2>2, <2>3
<1>7. r \in [1..Len(part) -> 0..Len(recs)]
  <2>1. \A j \in 1..Len(part) : r[j] \in 0..Len(recs)
    BY <1>3, <1>5, <1>6
  <2>2. r = [j \in 1..Len(part) |-> r[j]]
    OBVIOUS
  <2> HIDE DEF r
  <2> QED
    BY <2>1, <2>2
<1> HIDE DEF r
<1>8. ASSUME NEW j \in 1..Len(part)
      PROVE  part[j] = Torn \/ (r[j] >= 1 /\ part[j] = recs[r[j]])
  <2>1. CASE j <= n /\ j \in 1..Len(p) /\ r[j] = f[j] /\ f[j] \in 0..m
    <3>1. part[j] = p[j]
      BY <1>4, <1>5, <2>1
    <3>2. p[j] = Torn \/ (f[j] >= 1 /\ p[j] = a[f[j]])
      BY <1>1, <2>1
    <3>3. f[j] >= 1 => recs[f[j]] = a[f[j]]
      BY <1>3, <1>5, <2>1
    <3> QED
      BY <2>1, <3>1, <3>2, <3>3
  <2>2. CASE j > n /\ j - n \in 1..Len(q) /\ r[j] = g[j - n] + m /\ g[j - n] \in 0..Len(b)
    <3>1. part[j] = q[j - n]
      BY <1>4, <1>5, <2>2
    <3>2. q[j - n] = Torn \/ (g[j - n] >= 1 /\ q[j - n] = b[g[j - n]])
      BY <1>2, <2>2
    <3>3. g[j - n] >= 1 => r[j] >= 1 /\ recs[r[j]] = b[g[j - n]]
      BY <1>3, <1>5, <2>2
    <3> QED
      BY <3>1, <3>2, <3>3
  <2> QED
    BY <1>6, <2>1, <2>2
<1>9. ASSUME NEW i \in 1..Len(part), NEW j \in 1..Len(part), i <= j PROVE r[i] <= r[j]
  <2>0. i \in Nat /\ j \in Nat /\ i >= 1 /\ j >= 1
    BY <1>4, <1>5
  <2>1. CASE j <= n
    <3>1. i \in 1..Len(p) /\ j \in 1..Len(p) /\ r[i] = f[i] /\ r[j] = f[j]
      BY <1>5, <1>6, <1>9, <2>0, <2>1
    <3> QED
      BY <1>1, <1>9, <3>1
  <2>2. CASE i <= n /\ j > n
    BY <1>5, <1>6, <2>2
  <2>3. CASE i > n
    <3>1. i - n \in 1..Len(q) /\ j - n \in 1..Len(q) /\ i - n <= j - n
      BY <1>4, <1>5, <1>6, <1>9, <2>3
    <3>2. g[i - n] <= g[j - n]
      BY <1>2, <3>1
    <3> QED
      BY <1>4, <1>5, <1>6, <1>9, <2>3, <3>2
  <2> QED
    BY <1>4, <1>5, <2>1, <2>2, <2>3
<1>10. Thinned(recs, part)
  BY <1>7, <1>8, <1>9 DEF Thinned
<1> QED
  BY <1>10 DEF recs, part

\* A log with a piece of it cut short, and perhaps torn.
LEMMA ThinnedCut ==
    ASSUME NEW a \in Seq(Record), NEW b \in Seq(Record), NEW n \in 0..Len(b),
           NEW tail \in {<<>>, <<Torn>>}
    PROVE  Thinned(a \o b, (a \o SubSeq(b, 1, n)) \o tail)
<1> DEFINE cut == SubSeq(b, 1, n)
<1>1. Len(b) \in Nat /\ Torn \in Record
  BY RecordTypes
<1>2. cut \in Seq(Record) /\ Len(cut) <= Len(b) /\ \A j \in 1..Len(cut) : cut[j] = b[j]
  BY <1>1
<1> HIDE DEF cut
<1>3. Thinned(b, cut) /\ Thinned(a, a)
  BY <1>2, ThinnedPrefix, ThinnedAway
<1>4. Thinned(a \o b, a \o cut) /\ a \o b \in Seq(Record) /\ a \o cut \in Seq(Record)
  BY <1>2, <1>3, ThinnedConcat, ConcatProperties
<1>5. tail \in Seq(Record) /\ Thinned(<<>>, tail)
  <2>1. CASE tail = <<>>
    BY <2>1, NoRecords, ThinnedAway
  <2>2. CASE tail = <<Torn>>
    <3>1. <<Torn>> \in Seq(Record)
      BY <1>1
    <3>2. Thinned(<<>>, <<Torn>>)
      BY NoRecords, ThinnedAway
    <3> QED
      BY <2>2, <3>1, <3>2
  <2> QED
    BY <2>1, <2>2
<1>6. Thinned((a \o b) \o <<>>, (a \o cut) \o tail)
  BY <1>4, <1>5, NoRecords, ThinnedConcat
<1>7. (a \o b) \o <<>> = a \o b
  BY <1>4, ConcatEmptySeq
<1> QED
  BY <1>6, <1>7 DEF cut

-----------------------------------------------------------------------------
(***************************************************************************)
(* The same facts as the history and the log go on.                        *)
(***************************************************************************)
LEMMA OrderedGrows ==
    ASSUME NEW h \in Seq(MapType), NEW g, Grows(h, g), NEW recs, NEW tx \in Batch,
           Ordered(h, recs, tx)
    PROVE  Ordered(g, recs, tx)
<1>1. tx.at \in Nat
  BY DEF Batch
<1>2. \A rec : Recent(h, rec, tx.at) => Recent(g, rec, tx.at)
  BY <1>1, RecentGrows
<1> QED
  BY <1>2 DEF Ordered

\* A map that has nothing older than a batch keeps that as the history goes on.
LEMMA WholeGrows ==
    ASSUME NEW h \in Seq(MapType), NEW g, Grows(h, g), NEW m, NEW tx \in Batch,
           Whole(h, m, tx)
    PROVE  Whole(g, m, tx)
<1>1. tx.at \in Nat
  BY DEF Batch
<1> QED
  BY <1>1, RecentGrows DEF Whole

\* A recent record comes last; if it carries the batch, it is all of it.
LEMMA OrderedAppend ==
    ASSUME NEW h, NEW recs \in Seq(Record), NEW rec \in Record, NEW tx \in Batch,
           Ordered(h, recs, tx), Recent(h, rec, tx.at),
           Carries(rec, tx) => \A k \in tx.keys : rec[k] # Untouched
    PROVE  Ordered(h, Append(recs, rec), tx)
<1> DEFINE more == Append(recs, rec)
<1>1. /\ Len(recs) \in Nat /\ Len(more) = Len(recs) + 1
      /\ \A j \in 1..Len(more) : more[j] = IF j <= Len(recs) THEN recs[j] ELSE rec
  OBVIOUS
<1> HIDE DEF more
<1>2. ASSUME NEW a \in 1..Len(more), Carries(more[a], tx)
      PROVE  /\ \A k \in tx.keys : more[a][k] # Untouched
             /\ \A b \in 1..Len(more) : b >= a => Recent(h, more[b], tx.at)
  <2>1. CASE a <= Len(recs)
    <3>1. a \in 1..Len(recs) /\ more[a] = recs[a]
      BY <1>1, <2>1
    <3>2. /\ \A k \in tx.keys : recs[a][k] # Untouched
          /\ \A b \in 1..Len(recs) : b >= a => Recent(h, recs[b], tx.at)
      BY <1>2, <3>1 DEF Ordered
    <3> QED
      BY <1>1, <3>1, <3>2
  <2>2. CASE a > Len(recs)
    <3>1. a = Len(recs) + 1 /\ more[a] = rec
      BY <1>1, <2>2
    <3>2. \A b \in 1..Len(more) : b >= a => more[b] = rec
      BY <1>1, <3>1
    <3> QED
      BY <1>2, <3>1, <3>2
  <2> QED
    BY <1>1, <2>1, <2>2
<1>3. Ordered(h, more, tx)
  BY <1>2 DEF Ordered
<1> QED
  BY <1>3 DEF more

\* What comes behind the record of a batch is recent.
LEMMA AfterCarrier ==
    ASSUME NEW h, NEW a \in Seq(Record), NEW b \in Seq(Record), NEW tx \in Batch,
           Ordered(h, a \o b, tx), NEW k \in tx.keys, Holds(a, k, tx.at)
    PROVE  RecentLog(h, b, tx.at)
<1> DEFINE recs == a \o b
<1>1. /\ Len(a) \in Nat /\ Len(b) \in Nat /\ Len(recs) = Len(a) + Len(b)
      /\ \A j \in 1..Len(recs) : recs[j] = IF j <= Len(a) THEN a[j] ELSE b[j - Len(a)]
  BY ConcatProperties
<1>2. PICK x \in 1..Len(a) : a[x][k] = tx.at
  BY DEF Holds
<1>3. Ordered(h, recs, tx)
  OBVIOUS
<1> HIDE DEF recs
<1>4. x \in 1..Len(recs) /\ recs[x] = a[x] /\ Carries(recs[x], tx)
  BY <1>1, <1>2 DEF Carries
<1>5. \A j \in 1..Len(recs) : j >= x => Recent(h, recs[j], tx.at)
  BY <1>3, <1>4 DEF Ordered
<1>6. ASSUME NEW j \in 1..Len(b) PROVE Recent(h, b[j], tx.at)
  <2>1. Len(a) + j \in 1..Len(recs) /\ Len(a) + j >= x /\ Len(a) + j > Len(a)
    BY <1>1, <1>2
  <2>2. recs[Len(a) + j] = b[(Len(a) + j) - Len(a)] /\ (Len(a) + j) - Len(a) = j
    BY <1>1, <2>1
  <2> QED
    BY <1>5, <2>1, <2>2
<1> QED
  BY <1>6 DEF RecentLog, RecentFrom

\* A value is held by a log when one of its parts holds it.
LEMMA HoldsConcat ==
    ASSUME NEW a \in Seq(Record), NEW b \in Seq(Record), NEW k, NEW v
    PROVE  Holds(a \o b, k, v) <=> Holds(a, k, v) \/ Holds(b, k, v)
<1> DEFINE recs == a \o b
<1>1. /\ Len(a) \in Nat /\ Len(b) \in Nat /\ Len(recs) = Len(a) + Len(b)
      /\ \A j \in 1..Len(recs) : recs[j] = IF j <= Len(a) THEN a[j] ELSE b[j - Len(a)]
  BY ConcatProperties
<1> HIDE DEF recs
<1>2. ASSUME NEW j \in 1..Len(a) PROVE j \in 1..Len(recs) /\ recs[j] = a[j]
  BY <1>1
<1>3. ASSUME NEW j \in 1..Len(b)
      PROVE  Len(a) + j \in 1..Len(recs) /\ recs[Len(a) + j] = b[j]
  <2>1. Len(a) + j \in 1..Len(recs) /\ Len(a) + j > Len(a) /\ (Len(a) + j) - Len(a) = j
    BY <1>1
  <2> QED
    BY <1>1, <2>1
<1>4. ASSUME NEW j \in 1..Len(recs)
      PROVE  \/ j \in 1..Len(a) /\ recs[j] = a[j]
             \/ j - Len(a) \in 1..Len(b) /\ recs[j] = b[j - Len(a)]
  BY <1>1
<1>5. ASSUME Holds(a, k, v) PROVE Holds(recs, k, v)
  BY <1>2, <1>5 DEF Holds
<1>6. ASSUME Holds(b, k, v) PROVE Holds(recs, k, v)
  BY <1>3, <1>6 DEF Holds
<1>7. ASSUME Holds(recs, k, v) PROVE Holds(a, k, v) \/ Holds(b, k, v)
  BY <1>4, <1>7 DEF Holds
<1> QED
  BY <1>5, <1>6, <1>7 DEF recs

\* What a log shows it shows with more behind it, and what is readable of it shows it too.
LEMMA ShowsMore ==
    ASSUME NEW recs \in Seq(Record), NEW more \in Seq(Record), Len(more) >= Len(recs),
           \A j \in 1..Len(recs) : more[j] = recs[j], NEW k, NEW v, Shows(recs, k, v)
    PROVE  Shows(more, k, v)
<1>1. Len(recs) \in Nat /\ Len(more) \in Nat
  OBVIOUS
<1>2. PICK a \in Readable(recs) : recs[a][k] = v
  BY DEF Shows
<1>3. a \in 1..Len(recs) /\ \A j \in 1..a : recs[j] # Torn
  BY <1>2 DEF Readable
<1>4. a \in 1..Len(more) /\ more[a] = recs[a] /\ \A j \in 1..a : more[j] # Torn
  BY <1>1, <1>3
<1> QED
  BY <1>2, <1>4 DEF Shows, Readable

\* So does a log in front of another.
LEMMA ShowsConcat ==
    ASSUME NEW a \in Seq(Record), NEW b \in Seq(Record), NEW k, NEW v, Shows(a, k, v)
    PROVE  Shows(a \o b, k, v)
<1> DEFINE recs == a \o b
<1>1. /\ recs \in Seq(Record) /\ Len(recs) >= Len(a)
      /\ \A j \in 1..Len(a) : recs[j] = a[j]
  BY ConcatProperties
<1> HIDE DEF recs
<1>2. Shows(recs, k, v)
  BY <1>1, ShowsMore
<1> QED
  BY <1>2 DEF recs

\* And one that recovery cuts at its first torn record.
LEMMA ShowsCut ==
    ASSUME NEW recs \in Seq(Record), NEW k, NEW v, Shows(recs, k, v)
    PROVE  Shows(ReadablePrefix(recs), k, v)
<1> DEFINE cut == ReadablePrefix(recs)
<1>1. ReadableLen(recs) \in 0..Len(recs) /\ Readable(recs) = 1..ReadableLen(recs)
  BY ReadableShape
<1>2. Len(recs) \in Nat
  OBVIOUS
<1>3. Len(cut) = ReadableLen(recs) /\ \A j \in 1..Len(cut) : cut[j] = recs[j]
  BY <1>1, <1>2 DEF ReadablePrefix
<1> HIDE DEF cut
<1>4. PICK a \in Readable(recs) : recs[a][k] = v
  BY DEF Shows
<1>5. a \in 1..Len(cut) /\ \A j \in 1..a : recs[j] # Torn /\ cut[j] = recs[j]
  BY <1>1, <1>2, <1>3, <1>4 DEF Readable
<1>6. a \in Readable(cut) /\ cut[a][k] = v
  BY <1>3, <1>4, <1>5 DEF Readable
<1>7. Shows(cut, k, v)
  BY <1>6 DEF Shows
<1> QED
  BY <1>7 DEF cut

\* Where nothing is torn, what a log holds shows.
LEMMA HoldsShows ==
    ASSUME NEW recs, \A j \in 1..Len(recs) : recs[j] # Torn, Len(recs) \in Nat,
           NEW k, NEW v, Holds(recs, k, v)
    PROVE  Shows(recs, k, v)
BY DEF Holds, Shows, Readable

\* What is readable of a log is less of it.
LEMMA ThinnedReadable ==
    ASSUME NEW recs \in Seq(Record)
    PROVE  Thinned(recs, ReadablePrefix(recs)) /\ ReadablePrefix(recs) \in Seq(Record)
<1>1. ReadableLen(recs) \in 0..Len(recs) /\ Len(recs) \in Nat
  BY ReadableShape
<1> DEFINE cut == ReadablePrefix(recs)
<1>2. /\ cut \in Seq(Record) /\ Len(cut) <= Len(recs)
      /\ \A j \in 1..Len(cut) : cut[j] = recs[j]
  BY <1>1 DEF ReadablePrefix
<1> HIDE DEF cut
<1>3. Thinned(recs, cut)
  BY <1>2, ThinnedPrefix
<1> QED
  BY <1>2, <1>3 DEF cut

-----------------------------------------------------------------------------
(***************************************************************************)
(* Values are bounded by the length of the history, so nothing that was    *)
(* there before carries a new batch.                                       *)
(***************************************************************************)
Below(n, rec)     == \A k \in Keys : rec[k] <= n
BelowLog(n, recs) == \A a \in 1..Len(recs) : Below(n, recs[a])

\* A torn record and an empty one have no values.
LEMMA BelowTorn == \A n \in Nat : Below(n, Torn) /\ Below(n, NoKeys)
BY DEF Below, Torn, NoKeys, Untouched, Missing

\* A bound that grows.
LEMMA BelowMore ==
    ASSUME NEW n \in Nat, NEW m \in Nat, n <= m
    PROVE  /\ \A rec \in Record : Below(n, rec) => Below(m, rec)
           /\ \A recs \in Seq(Record) : BelowLog(n, recs) => BelowLog(m, recs)
<1>1. \A rec \in Record : Below(n, rec) => Below(m, rec)
  BY DEF Below, Record, Value, Untouched
<1>2. ASSUME NEW recs \in Seq(Record), BelowLog(n, recs) PROVE BelowLog(m, recs)
  <2>1. \A a \in 1..Len(recs) : recs[a] \in Record
    OBVIOUS
  <2> QED
    BY <1>1, <1>2, <2>1 DEF BelowLog
<1> QED
  BY <1>1, <1>2

\* Less of a log keeps its bound.
LEMMA BelowThinned ==
    ASSUME NEW recs \in Seq(Record), NEW part, Thinned(recs, part), NEW n \in Nat,
           BelowLog(n, recs)
    PROVE  BelowLog(n, part)
<1> SUFFICES ASSUME NEW j \in 1..Len(part) PROVE Below(n, part[j])
  BY DEF BelowLog
<1>1. part[j] = Torn \/ \E x \in 1..Len(recs) : part[j] = recs[x]
  BY DEF Thinned
<1> QED
  BY <1>1, BelowTorn DEF BelowLog

\* So does a log that gets a record below it.
LEMMA BelowAppend ==
    ASSUME NEW recs \in Seq(Record), NEW rec \in Record, NEW n, BelowLog(n, recs),
           Below(n, rec)
    PROVE  BelowLog(n, Append(recs, rec))
<1>1. Len(recs) \in Nat /\ Len(Append(recs, rec)) = Len(recs) + 1
  OBVIOUS
<1>2. \A j \in 1..Len(Append(recs, rec)) :
          Append(recs, rec)[j] = IF j <= Len(recs) THEN recs[j] ELSE rec
  BY <1>1
<1> QED
  BY <1>1, <1>2 DEF BelowLog

\* What is below the index of a batch does not carry it.
LEMMA BelowBatch ==
    ASSUME NEW tx \in Batch, NEW n \in Nat, n < tx.at
    PROVE  /\ \A rec : Below(n, rec) => ~Carries(rec, tx)
           /\ \A h, recs : BelowLog(n, recs) => Ordered(h, recs, tx)
<1>1. tx.at \in Nat /\ tx.keys \subseteq Keys
  BY DEF Batch
<1>2. ASSUME NEW rec, Below(n, rec) PROVE ~Carries(rec, tx)
  <2> SUFFICES ASSUME NEW k \in tx.keys, rec[k] = tx.at PROVE FALSE
    BY DEF Carries
  <2>1. rec[k] <= n
    BY <1>1, <1>2 DEF Below
  <2> QED
    BY <1>1, <2>1
<1> QED
  BY <1>2 DEF BelowLog, Ordered

-----------------------------------------------------------------------------
(***************************************************************************)
(* What a step does to everything recorded since the snapshot: it stays,   *)
(* a new record comes behind it, or some of it goes: with an error, a      *)
(* crash, a truncation or a recovery.                                      *)
(***************************************************************************)
Added == \E rec \in Record :
            /\ New(rec) /\ Below(Len(hist'), rec) /\ Queue' = Append(Queue, rec)
            /\ \A i \in Nat : i <= Len(hist') => Recent(hist', rec, i)

Lost == /\ Thinned(Queue, Queue') \/ (PowerLoss /\ Thinned(stable, Queue'))
        /\ Sound' => Truncate \/ Reopen

\* What is left of the WAL is left of the queue.
LEMMA WalThinned ==
    ASSUME TypeOK, NEW w \in Seq(Record), Thinned(wal \o pending, w)
    PROVE  Thinned(Queue, w)
<1>1. wal \o pending \in Seq(Record) /\ log \in Seq(Record) /\ <<>> \in Seq(Record)
  BY NoRecords, ConcatProperties DEF TypeOK
<1>2. Thinned(log, <<>>)
  BY <1>1, ThinnedAway
<1> DEFINE front == wal \o pending
           none == <<>>
<1>3. Thinned(front \o log, w \o none)
  <2>1. /\ front \in Seq(Record) /\ log \in Seq(Record) /\ none \in Seq(Record)
        /\ Thinned(front, w) /\ Thinned(log, none)
    BY <1>1, <1>2
  <2> HIDE DEF front, none
  <2> QED
    BY <2>1, ThinnedConcat
<1>4. w \o none = w
  BY ConcatEmptySeq
<1> QED
  BY <1>3, <1>4 DEF Queue

\* Less of the WAL is less of the queue.
LEMMA FileThinned ==
    ASSUME TypeOK, NEW w \in Seq(Record), Thinned(wal, w)
    PROVE  Thinned(Queue, w)
<1>1. wal \in Seq(Record) /\ pending \in Seq(Record) /\ <<>> \in Seq(Record)
  BY NoRecords DEF TypeOK
<1>2. Thinned(pending, <<>>)
  BY <1>1, ThinnedAway
<1> DEFINE none == <<>>
<1>3. Thinned(wal \o pending, w \o none)
  <2>1. none \in Seq(Record) /\ Thinned(pending, none)
    BY <1>1, <1>2
  <2> HIDE DEF none
  <2> QED
    BY <1>1, <2>1, ThinnedConcat
<1>4. w \o none = w
  BY ConcatEmptySeq
<1> QED
  BY <1>3, <1>4, WalThinned

\* So is what a kill leaves, and what a power loss leaves, unless that is `stable`.
LEMMA KillThinned ==
    ASSUME TypeOK, NEW w \in KillWals
    PROVE  Thinned(Queue, w) /\ w \in Seq(Record)
<1>0. /\ wal \in Seq(Record) /\ pending \in Seq(Record) /\ Torn \in Record
      /\ Len(pending) \in Nat
  BY RecordTypes DEF TypeOK
<1>1. CASE w = wal
  BY <1>0, <1>1, ThinnedAway, FileThinned
<1>2. ASSUME NEW n \in 0..Len(pending),
             \/ w = wal \o SubSeq(pending, 1, n)
             \/ w = wal \o Append(SubSeq(pending, 1, n), Torn)
      PROVE  Thinned(Queue, w) /\ w \in Seq(Record)
  <2> DEFINE part == SubSeq(pending, 1, n)
  <2>1. part \in Seq(Record) /\ <<Torn>> \in Seq(Record)
    BY <1>0
  <2>2. \A tail \in {<<>>, <<Torn>>} : Thinned(wal \o pending, (wal \o part) \o tail)
    BY <1>0, ThinnedCut
  <2>3. w = wal \o part \/ w = wal \o Append(part, Torn)
    BY <1>2
  <2> HIDE DEF part
  <2>4. (wal \o part) \o <<>> = wal \o part /\ wal \o part \in Seq(Record)
    BY <1>0, <2>1, ConcatProperties, ConcatEmptySeq
  <2>5. wal \o Append(part, Torn) = (wal \o part) \o <<Torn>>
    <3>1. Append(part, Torn) = part \o <<Torn>>
      BY <1>0, <2>1, AppendIsConcat
    <3> QED
      BY <1>0, <2>1, <3>1, LogConcat
  <2>6. Thinned(wal \o pending, w)
    BY <2>2, <2>3, <2>4, <2>5
  <2>7. w \in Seq(Record)
    BY <2>1, <2>3, <2>4, <2>5, ConcatProperties
  <2> QED
    BY <2>6, <2>7, WalThinned
<1> QED
  BY <1>1, <1>2 DEF KillWals, Prefixes

\* A power loss leaves what was last synced, or the beginning of the WAL.
LEMMA PowerThinned ==
    ASSUME TypeOK, NEW w \in PowerWals
    PROVE  /\ w = stable \/ \E n \in 0..Len(wal) : w = SubSeq(wal, 1, n)
           /\ w \in Seq(Record) /\ (w = stable \/ Thinned(Queue, w))
<1>0. wal \in Seq(Record) /\ stable \in Seq(Record) /\ Len(wal) \in Nat /\ Len(stable) \in Nat
  BY DEF TypeOK
<1>1. w = stable \/ \E n \in 0..Len(wal) : w = SubSeq(wal, 1, n)
  BY <1>0 DEF PowerWals, Prefixes
<1>2. ASSUME NEW n \in 0..Len(wal), w = SubSeq(wal, 1, n)
      PROVE  w \in Seq(Record) /\ Thinned(Queue, w)
  <2>1. w \in Seq(Record) /\ Len(w) <= Len(wal) /\ \A j \in 1..Len(w) : w[j] = wal[j]
    BY <1>0, <1>2
  <2> QED
    BY <1>0, <2>1, ThinnedPrefix, FileThinned
<1> QED
  BY <1>0, <1>1, <1>2

\* Writing the buffer out leaves the queue as it is, or records an error and loses some of it.
LEMMA QueueWritten ==
    ASSUME TypeOK, NEW strict, NEW STATE next, WritePending(strict, next), log' = log
    PROVE  Queue' = Queue \/ Lost
<1>0. wal \in Seq(Record) /\ pending \in Seq(Record) /\ log \in Seq(Record)
      /\ <<>> \in Seq(Record) /\ Len(pending) \in Nat
  BY NoRecords DEF TypeOK
<1>1. CASE UNCHANGED <<wal, pending>>
  BY <1>1 DEF Queue
<1>2. CASE WriteOk
  <2>1. (wal \o pending) \o <<>> = wal \o pending
    BY <1>0, ConcatProperties, ConcatEmptySeq
  <2> QED
    BY <1>2, <2>1 DEF WriteOk, Queue
<1>3. CASE WriteFails
  <2>1. PICK n \in 0..(Len(pending) - 1), tail \in {<<>>, <<Torn>>} :
            wal' = wal \o SubSeq(pending, 1, n) \o tail
    BY <1>3 DEF WriteFails
  <2>2. pending' = <<>> /\ failed' = TRUE
    BY <1>3 DEF WriteFails
  <2>3. n \in 0..Len(pending)
    BY <1>0
  <2>4. Thinned(wal \o pending, wal')
    BY <1>0, <2>1, <2>3, ThinnedCut
  <2>5. wal' \in Seq(Record)
    BY <1>0, WriteTypes
  <2>6. wal' \o <<>> = wal'
    BY <2>5, ConcatEmptySeq
  <2>7. Thinned((wal \o pending) \o log, wal' \o log)
    <3>1. Thinned(log, log) /\ wal \o pending \in Seq(Record)
      BY <1>0, ThinnedAway, ConcatProperties
    <3> QED
      BY <1>0, <2>4, <2>5, <3>1, ThinnedConcat
  <2>8. Thinned(Queue, Queue')
    BY <2>2, <2>6, <2>7 DEF Queue
  <2> QED
    BY <2>2, <2>8 DEF Lost, Sound
<1> QED
  BY <1>1, <1>2, <1>3 DEF WritePending

\* Every step does one of the three.
LEMMA QueueKinds ==
    ASSUME StoreInv, [Next]_vars
    PROVE  Queue' = Queue \/ Added \/ Lost
<1> USE DEF clientVars, sharedVars, diskVars, runVars, ghostVars
<1>0. /\ wal \in Seq(Record) /\ pending \in Seq(Record) /\ log \in Seq(Record) /\ TypeOK
      /\ <<>> \in Seq(Record) /\ hist \in Seq(MapType) /\ Len(hist) >= 1 /\ Len(hist) \in Nat
      /\ Tip \in MapType
  BY NoRecords, HistType DEF StoreInv, Inv, TypeInv, TypeOK
<1>k. ASSUME UNCHANGED <<wal, pending, log>> PROVE Queue' = Queue
  BY <1>k DEF Queue
<1>a. ASSUME NEW rec \in Record, New(rec), hist' = Append(hist, Apply(Tip, rec))
      PROVE  /\ \A i \in Nat : i <= Len(hist') => Recent(hist', rec, i)
             /\ Below(Len(hist'), rec)
  <2>1. Apply(Tip, rec) \in MapType
    BY <1>0, ApplyType
  <2>2. Len(hist') = Len(hist) + 1
    BY <1>0, <1>a, <2>1
  <2>3. Below(Len(hist'), rec)
    <3> DEFINE n == Len(hist)
               m == Len(hist')
    <3>1. n \in Nat /\ m = n + 1 /\ \A k \in Keys : rec[k] \in {-1, 0, n + 1}
      BY <1>0, <1>a, <2>2 DEF New, Stamp, Untouched, Missing
    <3> HIDE DEF n, m
    <3>2. Below(m, rec)
      BY <3>1 DEF Below
    <3> QED
      BY <3>2 DEF m
  <2> QED
    BY <1>0, <1>a, <2>2, <2>3, RecentApplied
<1>1. CASE Still
  BY <1>1, <1>k DEF Still
<1>2. ASSUME NEW rec \in Record, Logged(rec) PROVE Added
  <2>1. /\ log' = Append(log, rec) /\ hist' = Append(hist, Apply(Tip, rec))
        /\ wal' = wal /\ pending' = pending /\ New(rec)
    BY <1>2 DEF Logged
  <2>2. Queue' = Append(Queue, rec)
    BY <1>0, <2>1, LogGrows
  <2> QED
    BY <1>a, <2>1, <2>2 DEF Added
<1>3. ASSUME NEW c \in Clients, ClearLog(c) PROVE Added
  <2>1. /\ log' = Append(log, ClearRecord) /\ hist' = hist
        /\ wal' = wal /\ pending' = pending /\ Clearing
    BY <1>3 DEF ClearLog, Clearing
  <2>2. ClearRecord \in Record /\ ClearRecord = NoKeys /\ Tip = NoKeys
    BY <2>1, RecordTypes DEF ClearRecord, NoKeys, StoreInv, LogInv, MapIsTip
  <2>3. Queue' = Append(Queue, ClearRecord)
    BY <1>0, <2>1, <2>2, LogGrows
  <2>4. \A i \in Nat : i <= Len(hist') => Recent(hist', ClearRecord, i)
    BY <1>0, <2>1, <2>2, RecentTip DEF Tip
  <2>5. Below(Len(hist'), ClearRecord)
    BY <1>0, <2>1, <2>2, BelowTorn
  <2> QED
    BY <2>2, <2>3, <2>4, <2>5, NewRecords DEF Added
<1>4. ASSUME NEW c \in Clients, Clear(c) \/ Ack(c) PROVE Queue' = Queue
  BY <1>4, <1>k DEF Clear, Ack
<1>5. CASE Collect \/ CompactTake
  <2>1. pending' = pending \o log /\ log' = <<>> /\ wal' = wal
    BY <1>5 DEF Collect, CompactTake
  <2> QED
    BY <1>0, <2>1, LogTaken
<1>6. CASE Sweep
  <2>1. PICK k \in Keys : /\ pending' = (pending \o log) \o <<DeleteRecord(k)>>
                          /\ hist' = Append(hist, Apply(Tip, DeleteRecord(k)))
    BY <1>6 DEF Sweep, Present
  <2>2. log' = <<>> /\ wal' = wal
    BY <1>6 DEF Sweep
  <2>3. DeleteRecord(k) \in Record /\ <<DeleteRecord(k)>> \in Seq(Record)
    <3>1. DeleteRecord(k) \in Record
      BY RecordTypes
    <3> QED
      BY <3>1
  <2>4. Queue' = Queue \o <<DeleteRecord(k)>>
    BY <1>0, <2>1, <2>2, <2>3, QueueTaken
  <2>5. Queue' = Append(Queue, DeleteRecord(k))
    BY <1>0, <2>3, <2>4, QueueType, LogAppend
  <2> QED
    BY <1>a, <2>1, <2>3, <2>5, NewRecords DEF Added
<1>7. CASE Write
  BY <1>0, <1>7, QueueWritten DEF Write
<1>8. CASE CompactWrite
  BY <1>0, <1>8, QueueWritten DEF CompactWrite
<1>9. CASE AcksDone \/ Synced \/ Persist \/ DirSync \/ TruncateSync
  BY <1>9, <1>k DEF AcksDone, Synced, Persist, DirSync, TruncateSync
<1>10. CASE Truncate
  <2>1. log' = log /\ pending' = pending /\ (wal' = wal \/ wal' = <<>>)
    BY <1>10 DEF Truncate
  <2>2. CASE wal' = <<>>
    <3>1. /\ Thinned(wal, wal') /\ Thinned(pending, pending) /\ Thinned(log, log)
          /\ wal' \in Seq(Record)
      BY <1>0, <2>2, ThinnedAway
    <3>2. /\ Thinned(wal \o pending, wal' \o pending)
          /\ wal \o pending \in Seq(Record) /\ wal' \o pending \in Seq(Record)
      BY <1>0, <3>1, ThinnedConcat, ConcatProperties
    <3>3. Thinned((wal \o pending) \o log, (wal' \o pending) \o log)
      BY <1>0, <3>1, <3>2, ThinnedConcat
    <3> QED
      BY <1>10, <2>1, <3>3 DEF Lost, Queue
  <2> QED
    BY <1>k, <2>1, <2>2
<1>e. ASSUME wal' \in Seq(Record), pending' = <<>>, log' = <<>> PROVE Queue' = wal'
  <2>1. wal' \o <<>> = wal'
    BY <1>e, ConcatEmptySeq
  <2> QED
    BY <1>e, <2>1 DEF Queue
<1>11. CASE Kill
  <2>1. /\ wal' \in KillWals /\ pending' = <<>> /\ log' = <<>> /\ wpc' = "down"
    BY <1>11 DEF Kill, MemoryLost
  <2>2. Thinned(Queue, wal') /\ wal' \in Seq(Record)
    BY <1>0, <2>1, KillThinned
  <2>3. Queue' = wal'
    BY <1>e, <2>1, <2>2
  <2> QED
    BY <2>1, <2>2, <2>3 DEF Lost, Sound, Up
<1>12. CASE PowerLoss
  <2>1. /\ wal' \in PowerWals /\ pending' = <<>> /\ log' = <<>> /\ wpc' = "down"
    BY <1>12 DEF PowerLoss, MemoryLost
  <2>2. wal' \in Seq(Record) /\ (wal' = stable \/ Thinned(Queue, wal'))
    BY <1>0, <2>1, PowerThinned
  <2>3. Queue' = wal'
    BY <1>e, <2>1, <2>2
  <2>4. Thinned(stable, stable)
    BY ThinnedAway DEF StoreInv, Inv, TypeInv, TypeOK
  <2>5. Thinned(Queue, Queue') \/ Thinned(stable, Queue')
    BY <2>2, <2>3, <2>4
  <2> QED
    BY <1>12, <2>1, <2>5 DEF Lost, Sound, Up
<1>13. CASE Reopen
  <2>1. /\ wal' = ReadablePrefix(wal) /\ pending' = <<>> /\ log' = <<>>
    BY <1>13 DEF Reopen
  <2>2. Thinned(wal, wal') /\ wal' \in Seq(Record)
    BY <1>0, <2>1, ThinnedReadable
  <2>3. Queue' = wal'
    BY <1>e, <2>1, <2>2
  <2> QED
    BY <1>0, <1>13, <2>2, <2>3, FileThinned DEF Lost
<1>14. Kind
  BY EveryKind DEF StoreInv
<1> QED
  BY <1>1, <1>2, <1>3, <1>4, <1>5, <1>6, <1>7, <1>8, <1>9, <1>10, <1>11, <1>12, <1>13, <1>14
     DEF Kind

-----------------------------------------------------------------------------
(***************************************************************************)
(* What a step does to the map, to a batch under way, and to the files.    *)
(***************************************************************************)
\* A key gets a new value, loses its own, or gets what a batch has logged for it.
LEMMA MapKinds ==
    ASSUME StoreInv, [Next]_vars, ~Reopen, NEW k \in Keys
    PROVE  \/ map'[k] \in {map[k], Missing}
           \/ map'[k] = Stamp /\ Len(hist') = Len(hist) + 1
           \/ \E c \in Clients : cpc[c] = "batch" /\ map'[k] = todo[c][k]
<1> DEFINE Goal == \/ map'[k] \in {map[k], Missing}
                   \/ map'[k] = Stamp /\ Len(hist') = Len(hist) + 1
                   \/ \E c \in Clients : cpc[c] = "batch" /\ map'[k] = todo[c][k]
<1>0. map \in MapType /\ hist \in Seq(MapType) /\ todo \in [Clients -> Record] /\ Tip \in MapType
  BY HistType DEF StoreInv, Inv, TypeInv, TypeOK
<1>a. ASSUME NEW rec \in Record, New(rec), map' = Apply(map, rec),
             hist' = Append(hist, Apply(Tip, rec))
      PROVE  Goal
  <2>1. Len(hist') = Len(hist) + 1
    BY <1>0, <1>a, ApplyType
  <2>2. map'[k] = IF rec[k] # Untouched THEN rec[k] ELSE map[k]
    BY <1>a DEF Apply
  <2>3. rec[k] \in {Untouched, Missing, Stamp}
    BY <1>a DEF New
  <2> QED
    BY <2>1, <2>2, <2>3
<1>k. ASSUME map' = map PROVE Goal
  BY <1>k
<1>1. CASE UNCHANGED vars
  BY <1>1, <1>k DEF vars
<1>2. ASSUME NEW c \in Clients, ClientCall(c) \/ ClientStep(c) PROVE Goal
  <2>1. CASE Set(c)
    <3>1. PICK x \in Keys : Mutate(c, SetRecord(x, Stamp))
      BY <2>1 DEF Set
    <3>2. SetRecord(x, Stamp) \in Record
      BY RecordTypes, HistType DEF StoreInv, Inv, TypeInv
    <3> QED
      BY <1>a, <3>1, <3>2, NewRecords DEF Mutate
  <2>2. CASE Delete(c)
    <3>1. PICK x \in Keys : Mutate(c, DeleteRecord(x))
      BY <2>2 DEF Delete, Present
    <3> QED
      BY <1>a, <3>1, RecordTypes, NewRecords DEF Mutate
  <2>3. CASE ManyApply(c)
    <3>1. PICK x \in Keys : /\ map' = Apply(map, SetRecord(x, Stamp))
                            /\ hist' = Append(hist, Apply(Tip, SetRecord(x, Stamp)))
      BY <2>3 DEF ManyApply, Touched
    <3>2. SetRecord(x, Stamp) \in Record
      BY RecordTypes, HistType DEF StoreInv, Inv, TypeInv
    <3> QED
      BY <1>a, <3>1, <3>2, NewRecords
  <2>4. CASE BatchApply(c)
    <3>1. PICK x \in Keys : map' = [map EXCEPT ![x] = todo[c][x]]
      BY <2>4 DEF BatchApply, Touched
    <3>2. map'[k] = IF k = x THEN todo[c][x] ELSE map[k]
      BY <1>0, <3>1 DEF MapType
    <3>3. cpc[c] = "batch"
      BY <2>4 DEF BatchApply
    <3> QED
      BY <3>2, <3>3
  <2>5. CASE ClearRemove(c)
    <3>1. PICK x \in Keys : map' = [map EXCEPT ![x] = Missing]
      BY <2>5 DEF ClearRemove, Present
    <3>2. map'[k] = IF k = x THEN Missing ELSE map[k]
      BY <1>0, <3>1 DEF MapType
    <3> QED
      BY <3>2
  <2>6. CASE \/ Clear(c) \/ GateEnter(c) \/ Flush(c) \/ Close(c) \/ BatchLog(c) \/ ManyLock(c)
             \/ GateRefused(c) \/ Release(c) \/ ClearLog(c) \/ Joined(c)
    BY <1>k, <2>6 DEF Clear, GateEnter, Flush, Close, BatchLog, ManyLock, GateRefused, Release,
       ClearLog, Joined
  <2> QED
    BY <1>2, <2>1, <2>2, <2>3, <2>4, <2>5, <2>6 DEF ClientCall, ClientStep
<1>3. CASE Sweep
  <2>1. PICK x \in Keys : /\ map' = Apply(map, DeleteRecord(x))
                          /\ hist' = Append(hist, Apply(Tip, DeleteRecord(x)))
    BY <1>3 DEF Sweep, Present
  <2> QED
    BY <1>a, <2>1, RecordTypes, NewRecords
<1>4. ASSUME WriterStep, ~Sweep PROVE Goal
  <2>1. map' = map
    BY <1>4 DEF WriterStep, Collect, Write, HoldWrite, StrictSync, BarrierSync, TimedSync,
       SyncStep, Ack, AcksDone, CompactStart, CompactGate, CompactTake, CompactWrite,
       CompactStrictSync, Capture, CompactSync, CompactGivesUp, Persist, PersistFails, DirSync,
       Truncate, TruncateSync, Loop
  <2> QED
    BY <1>k, <2>1
<1>5. CASE Kill \/ PowerLoss
  BY <1>5 DEF Kill, PowerLoss, MemoryLost, NoKeys
<1> QED
  BY <1>1, <1>2, <1>3, <1>4, <1>5 DEF Next

\* Only a batch adds to the batches.
LEMMA BatchKinds ==
    ASSUME [Next]_vars
    PROVE  txs' = txs \/ \E c \in Clients : BatchLog(c)
<1> USE DEF ghostVars
<1>1. CASE UNCHANGED vars
  BY <1>1 DEF vars
<1>2. ASSUME NEW c \in Clients, ClientCall(c) \/ ClientStep(c), ~BatchLog(c) PROVE txs' = txs
  BY <1>2 DEF ClientCall, ClientStep, Set, Delete, Mutate, Clear, GateEnter, Flush, Close,
     BatchApply, ManyLock, ManyApply, GateRefused, Release, ClearRemove, ClearLog, Joined
<1>3. CASE WriterStep
  BY <1>3 DEF WriterStep, Collect, Write, HoldWrite, StrictSync, BarrierSync, TimedSync,
     SyncStep, Ack, AcksDone, CompactStart, CompactGate, CompactTake, CompactWrite,
     CompactStrictSync, Capture, CompactSync, CompactGivesUp, Persist, PersistFails, DirSync,
     Truncate, TruncateSync, Sweep, Loop
<1>4. CASE Kill \/ PowerLoss \/ Reopen
  BY <1>4 DEF Kill, PowerLoss, MemoryLost, Reopen
<1> QED
  BY <1>1, <1>2, <1>3, <1>4 DEF Next

\* A batch logs one record that touches all its keys; it is what is left to apply.
LEMMA BatchLogs ==
    ASSUME StoreInv, NEW c \in Clients, BatchLog(c)
    PROVE  \E rec \in Record, tx \in Batch :
               /\ Logged(rec) /\ todo' = [todo EXCEPT ![c] = rec]
               /\ txs' = txs \cup {tx} /\ tx.at = Len(hist) + 1 /\ Len(hist') = Len(hist) + 1
               /\ \A k \in tx.keys : rec[k] # Untouched
               /\ ~GateTaken /\ ~Clearing
               /\ UNCHANGED <<map, captured, failed, wpc, wal, pending, stable, snap, stableSnap>>
               /\ \A d \in Clients : d # c => cpc'[d] = cpc[d] /\ cpc[d] # "batch"
<1> USE DEF clientVars, sharedVars, diskVars, runVars, ghostVars
<1>0. hist \in Seq(MapType) /\ Tip \in MapType /\ Stamp \in Nat /\ Len(hist) \in Nat
  BY HistType DEF StoreInv, Inv, TypeInv, TypeOK
<1>1. PICK shape \in BatchShapes :
          /\ log' = Append(log, BatchRecord(shape, Stamp))
          /\ todo' = [todo EXCEPT ![c] = BatchRecord(shape, Stamp)]
          /\ hist' = Append(hist, Apply(Tip, BatchRecord(shape, Stamp)))
          /\ txs' = txs \cup {[at |-> Stamp, keys |-> DOMAIN shape]}
  BY DEF BatchLog
<1> DEFINE rec == BatchRecord(shape, Stamp)
           tx == [at |-> Stamp, keys |-> DOMAIN shape]
<1>2. rec \in Record /\ New(rec)
  BY <1>0, RecordTypes, NewRecords
<1>3. DOMAIN shape \subseteq Keys
  BY WalStoreAssumption
<1>4. tx \in Batch /\ tx.at = Len(hist) + 1
  BY <1>0, <1>3 DEF Batch, Stamp
<1>5. \A k \in tx.keys : rec[k] # Untouched
  BY <1>0, <1>3 DEF BatchRecord, Untouched, Missing
<1>6. Logged(rec)
  BY <1>1, <1>2 DEF BatchLog, Logged
<1>7. Len(hist') = Len(hist) + 1
  BY <1>0, <1>1, <1>2, ApplyType
<1>8. ~GateTaken
  BY DEF BatchLog, Readers, StoreInv, Inv, LockInv, GateExcludes
<1>9. LockFree /\ ~Clearing
  BY DEF BatchLog, Admitted, LockFree, Clearing
<1>10. \A d \in Clients : d # c => cpc'[d] = cpc[d] /\ cpc[d] # "batch"
  BY <1>9 DEF BatchLog, LockFree, StoreInv, Inv, TypeInv, TypeOK
<1>11. UNCHANGED <<map, captured, failed, wpc, wal, pending, stable, snap, stableSnap>>
  BY DEF BatchLog
<1> HIDE DEF rec, tx
<1>12. todo' = [todo EXCEPT ![c] = rec] /\ txs' = txs \cup {tx}
  BY <1>1 DEF rec, tx
<1> QED
  BY <1>2, <1>4, <1>5, <1>6, <1>7, <1>8, <1>9, <1>10, <1>11, <1>12

\* What the disk is sure to keep of the WAL is what it was, or some of what is recorded.
LEMMA FileKinds ==
    ASSUME StoreInv, [Next]_vars
    PROVE  /\ stable' = stable \/ Thinned(Queue, stable')
           /\ snap' \in {snap, stableSnap} \/ (Persist /\ snap' = captured)
           /\ stableSnap' \in {snap, stableSnap}
<1> USE DEF clientVars, sharedVars, diskVars, runVars, ghostVars
<1>0. wal \in Seq(Record) /\ stable \in Seq(Record) /\ TypeOK
  BY DEF StoreInv, Inv, TypeInv, TypeOK
<1>w. Thinned(Queue, wal)
  BY <1>0, ThinnedAway, FileThinned
<1> DEFINE Goal == /\ stable' = stable \/ Thinned(Queue, stable')
                   /\ snap' \in {snap, stableSnap} \/ (Persist /\ snap' = captured)
                   /\ stableSnap' \in {snap, stableSnap}
<1>1. CASE Still
  BY <1>1 DEF Still
<1>2. ASSUME NEW rec \in Record, Logged(rec) PROVE Goal
  BY <1>2 DEF Logged
<1>3. ASSUME NEW c \in Clients, Clear(c) \/ ClearLog(c) \/ Ack(c) PROVE Goal
  BY <1>3 DEF Clear, ClearLog, Ack
<1>4. CASE Collect \/ CompactTake \/ Sweep \/ AcksDone
  BY <1>4 DEF Collect, CompactTake, Sweep, AcksDone
<1>5. CASE Write \/ CompactWrite
  BY <1>5 DEF Write, CompactWrite
<1>6. CASE Synced
  BY <1>w, <1>6 DEF Synced, Sync
<1>7. CASE Persist \/ DirSync \/ Truncate
  BY <1>7 DEF Persist, DirSync, Truncate
<1>8. CASE TruncateSync
  <2>1. wal' = wal /\ (stable' = stable \/ stable' = wal) /\ UNCHANGED <<snap, stableSnap>>
    BY <1>8 DEF TruncateSync
  <2> QED
    BY <1>w, <2>1
<1>9. CASE Kill
  BY <1>9 DEF Kill
<1>10. CASE PowerLoss
  <2>1. /\ wal' \in PowerWals /\ stable' = wal'
        /\ snap' \in {snap, stableSnap} /\ stableSnap' = snap'
    BY <1>10 DEF PowerLoss
  <2>2. wal' = stable \/ Thinned(Queue, wal')
    BY <1>0, <2>1, PowerThinned
  <2> QED
    BY <2>1, <2>2
<1>11. CASE Reopen
  <2>1. /\ stable' \in {stable, ReadablePrefix(wal)} /\ UNCHANGED <<snap, stableSnap>>
    BY <1>11 DEF Reopen
  <2>2. Thinned(Queue, ReadablePrefix(wal))
    BY <1>0, ThinnedReadable, FileThinned
  <2> QED
    BY <2>1, <2>2
<1>12. Kind
  BY EveryKind DEF StoreInv
<1> QED
  BY <1>1, <1>2, <1>3, <1>4, <1>5, <1>6, <1>7, <1>8, <1>9, <1>10, <1>11, <1>12 DEF Kind

\* What an operation has yet to apply is new with it, and only shrinks.
LEMMA TodoKinds ==
    ASSUME StoreInv, [Next]_vars, NEW c \in Clients, NEW k \in Keys
    PROVE  \/ todo'[c][k] \in {todo[c][k], Untouched, Missing}
           \/ todo'[c][k] = Stamp /\ Len(hist') = Len(hist) + 1
<1> DEFINE Goal == \/ todo'[c][k] \in {todo[c][k], Untouched, Missing}
                   \/ todo'[c][k] = Stamp /\ Len(hist') = Len(hist) + 1
<1> USE DEF clientVars, sharedVars, diskVars, runVars, ghostVars
<1>0. todo \in [Clients -> Record]
  BY DEF StoreInv, Inv, TypeInv, TypeOK
<1>k. ASSUME todo' = todo PROVE Goal
  BY <1>k
<1>x. ASSUME NEW d \in Clients, NEW rec, todo' = [todo EXCEPT ![d] = rec],
             rec[k] \in {todo[d][k], Untouched, Missing}
      PROVE  Goal
  <2>1. todo'[c] = IF c = d THEN rec ELSE todo[c]
    BY <1>0, <1>x
  <2> QED
    BY <1>x, <2>1
<1>1. CASE UNCHANGED vars
  BY <1>1, <1>k DEF vars
<1>2. ASSUME NEW d \in Clients, ClientCall(d) \/ ClientStep(d) PROVE Goal
  <2>1. CASE BatchLog(d)
    <3>1. PICK rec \in Record : /\ Logged(rec) /\ todo' = [todo EXCEPT ![d] = rec]
                                /\ Len(hist') = Len(hist) + 1
      BY <2>1, BatchLogs
    <3>2. rec[k] \in {Untouched, Missing, Stamp}
      BY <3>1 DEF Logged, New
    <3>3. todo'[c] = IF c = d THEN rec ELSE todo[c]
      BY <1>0, <3>1
    <3> QED
      BY <3>1, <3>2, <3>3
  <2>2. CASE ManyLock(d)
    <3>1. PICK shape \in BatchShapes :
              todo' = [todo EXCEPT ![d] = BatchRecord(shape, Missing)]
      BY <2>2 DEF ManyLock
    <3>2. BatchRecord(shape, Missing)[k] \in {Untouched, Missing}
      BY DEF BatchRecord
    <3> QED
      BY <1>x, <3>1, <3>2
  <2>3. CASE BatchApply(d) \/ ManyApply(d)
    <3>1. PICK x \in Keys : todo' = [todo EXCEPT ![d] = Without(todo[d], x)]
      BY <2>3 DEF BatchApply, ManyApply, Touched
    <3>2. Without(todo[d], x)[k] \in {todo[d][k], Untouched}
      BY <1>0 DEF Without, Record
    <3> QED
      BY <1>x, <3>1, <3>2
  <2>4. CASE \/ Set(d) \/ Delete(d) \/ Clear(d) \/ GateEnter(d) \/ Flush(d) \/ Close(d)
             \/ GateRefused(d) \/ Release(d) \/ ClearRemove(d) \/ ClearLog(d) \/ Joined(d)
    BY <1>k, <2>4 DEF Set, Delete, Mutate, Clear, GateEnter, Flush, Close, GateRefused, Release,
       ClearRemove, ClearLog, Joined
  <2> QED
    BY <1>2, <2>1, <2>2, <2>3, <2>4 DEF ClientCall, ClientStep
<1>3. CASE WriterStep
  <2>1. todo' = todo
    BY <1>3 DEF WriterStep, Collect, Write, HoldWrite, StrictSync, BarrierSync, TimedSync,
       SyncStep, Ack, AcksDone, CompactStart, CompactGate, CompactTake, CompactWrite,
       CompactStrictSync, Capture, CompactSync, CompactGivesUp, Persist, PersistFails, DirSync,
       Truncate, TruncateSync, Sweep, Loop
  <2> QED
    BY <1>k, <2>1
<1>4. CASE Kill \/ PowerLoss
  BY <1>4 DEF Kill, PowerLoss, MemoryLost, NoWrites, Torn
<1>5. CASE Reopen
  BY <1>5, <1>k DEF Reopen
<1> QED
  BY <1>1, <1>2, <1>3, <1>4, <1>5 DEF Next

\* While a batch is being applied nobody logs or takes a record.
LEMMA BatchWaits ==
    ASSUME StoreInv, [Next]_vars, NEW c \in Clients, cpc'[c] = "batch", ~BatchLog(c)
    PROVE  /\ cpc[c] = "batch" /\ log' = log
           /\ \A k \in Keys : todo'[c][k] \in {todo[c][k], Untouched}
<1> DEFINE Goal == /\ cpc[c] = "batch" /\ log' = log
                   /\ \A k \in Keys : todo'[c][k] \in {todo[c][k], Untouched}
<1> USE DEF clientVars, sharedVars, diskVars, runVars, ghostVars
<1>0. todo \in [Clients -> Record] /\ DOMAIN cpc = Clients
  BY DEF StoreInv, Inv, TypeInv, TypeOK
<1>h. ASSUME cpc[c] = "batch"
      PROVE  ~LockFree /\ \A d \in Clients : d # c => cpc[d] \notin {"batch", "many", "clear"}
  BY <1>h DEF LockFree, StoreInv, Inv, LockInv, OneHolder, Holders
<1>1. CASE UNCHANGED vars
  BY <1>1 DEF vars
<1>2. ASSUME NEW d \in Clients, ClientCall(d) \/ ClientStep(d) PROVE Goal
  <2>1. CASE \/ Set(d) \/ Delete(d) \/ Clear(d) \/ BatchLog(d) \/ ManyLock(d) \/ GateRefused(d)
             \/ Flush(d) \/ Close(d)
    <3>1. LockFree
      BY <2>1 DEF Set, Delete, Mutate, Clear, BatchLog, ManyLock, GateRefused, Flush, Close,
         Admitted
    <3>2. cpc[c] # "batch"
      BY <1>h, <3>1
    <3>3. cpc'[c] = cpc[c] \/ d = c
      BY <1>0, <2>1 DEF Set, Delete, Mutate, Clear, BatchLog, ManyLock, GateRefused, Flush, Close
    <3>4. d = c
      BY <3>2, <3>3
    <3>5. cpc'[c] # "batch"
      BY <1>0, <2>1, <3>2, <3>4 DEF Set, Delete, Mutate, Clear, ManyLock, GateRefused, Flush, Close
    <3> QED
      BY <3>5
  <2>2. CASE GateEnter(d) \/ Joined(d) \/ Release(d)
    <3>1. log' = log /\ todo' = todo /\ (cpc'[c] = cpc[c] \/ cpc'[c] # "batch")
      BY <1>0, <2>2 DEF GateEnter, Joined, Release
    <3> QED
      BY <3>1
  <2>3. CASE BatchApply(d)
    <3>1. cpc' = cpc /\ log' = log
      BY <2>3 DEF BatchApply
    <3>2. PICK x \in Keys : todo' = [todo EXCEPT ![d] = Without(todo[d], x)]
      BY <2>3 DEF BatchApply, Touched
    <3>3. \A k \in Keys : Without(todo[d], x)[k] \in {todo[d][k], Untouched}
      BY <1>0 DEF Without, Record
    <3>4. todo'[c] = IF c = d THEN Without(todo[d], x) ELSE todo[c]
      BY <1>0, <3>2
    <3> QED
      BY <3>1, <3>3, <3>4
  <2>4. CASE ManyApply(d) \/ ClearRemove(d) \/ ClearLog(d)
    <3>1. cpc[d] \in {"many", "clear"}
      BY <2>4 DEF ManyApply, ClearRemove, ClearLog
    <3>2. cpc[c] # "batch"
      BY <1>h, <3>1
    <3>3. cpc'[c] = cpc[c] \/ cpc'[c] = "idle"
      BY <1>0, <2>4 DEF ManyApply, ClearRemove, ClearLog
    <3> QED
      BY <3>2, <3>3
  <2> QED
    BY <1>2, <2>1, <2>2, <2>3, <2>4 DEF ClientCall, ClientStep
<1>3. CASE WriterStep
  <2>1. todo' = todo /\ (cpc'[c] = cpc[c] \/ cpc'[c] = "idle")
    BY <1>0, <1>3 DEF WriterStep, Collect, Write, HoldWrite, StrictSync, BarrierSync, TimedSync,
       SyncStep, Ack, AcksDone, CompactStart, CompactGate, CompactTake, CompactWrite,
       CompactStrictSync, Capture, CompactSync, CompactGivesUp, Persist, PersistFails, DirSync,
       Truncate, TruncateSync, Sweep, Loop
  <2>2. cpc[c] = "batch" /\ ~LockFree
    BY <1>h, <2>1
  <2>3. log' = log
    BY <1>3, <2>2 DEF WriterStep, Collect, Write, HoldWrite, StrictSync, BarrierSync, TimedSync,
       SyncStep, Ack, AcksDone, CompactStart, CompactGate, CompactTake, CompactWrite,
       CompactStrictSync, Capture, CompactSync, CompactGivesUp, Persist, PersistFails, DirSync,
       Truncate, TruncateSync, Sweep, Loop
  <2> QED
    BY <2>1, <2>2, <2>3
<1>4. CASE Kill \/ PowerLoss
  BY <1>4 DEF Kill, PowerLoss, MemoryLost, ClientIdle
<1>5. CASE Reopen
  <2>1. cpc = ClientIdle /\ cpc' = cpc
    BY <1>5 DEF Reopen, StoreInv, Inv, LockInv, DownIsIdle
  <2> QED
    BY <2>1 DEF ClientIdle
<1> QED
  BY <1>1, <1>2, <1>3, <1>4, <1>5 DEF Next

-----------------------------------------------------------------------------
(***************************************************************************)
(* BatchAtomic is not inductive: it speaks of the files.  A batch logs     *)
(* its record before it touches the map, so what the map has of a batch,   *)
(* and what a capture reads of it, is in the queue, or the queue has only  *)
(* newer records; the gate keeps batches out between the moment the writer *)
(* takes the log and the end of the capture, so what is captured is in the *)
(* WAL; and a captured map has either nothing of a batch or nothing older. *)
(***************************************************************************)
Bounds == /\ \A tx \in txs : tx.at \in 2..Len(hist)
          /\ Below(Len(hist), map) /\ Below(Len(hist), captured)
          /\ Below(Len(hist), snap) /\ Below(Len(hist), stableSnap)
          /\ \A c \in Clients : Below(Len(hist), todo[c])
          /\ BelowLog(Len(hist), Queue) /\ BelowLog(Len(hist), stable)

TodoLogged == \A c \in Clients : cpc[c] = "batch" =>
                  log # <<>> /\ \A k \in Keys : todo[c][k] \in {Untouched, log[Len(log)][k]}

\* For each batch.
InOrder(tx)        == Ordered(hist, Queue, tx) /\ Ordered(hist, stable, tx)
InQueue(k, tx)     == Holds(Queue, k, tx.at) \/ RecentLog(hist, Queue, tx.at)
MapLogged(tx)      == Sound => \A k \in tx.keys : map[k] = tx.at => InQueue(k, tx)
GatedLog(tx)       == wpc \in {"compactWrite", "compactStrict", "capture"} =>
                          \A a \in 1..Len(log) : ~Carries(log[a], tx)
ClearedWhole(tx)   == Clearing => Recent(hist, map, tx.at)
CapturedWholly(tx) == \/ Recent(hist, captured, tx.at)
                      \/ wpc # "capture" /\ ~Carries(captured, tx)
CapturedLogged(tx) == ~failed /\ wpc \in {"capture", "compactSync", "persist"} =>
                          \A k \in tx.keys : captured[k] = tx.at =>
                              Holds(wal, k, tx.at) \/ RecentLog(hist, Queue, tx.at)

Threaded(tx) == /\ InOrder(tx) /\ MapLogged(tx) /\ GatedLog(tx) /\ ClearedWhole(tx)
                /\ CapturedWholly(tx) /\ CapturedLogged(tx)

BatchInv == Bounds /\ TodoLogged /\ \A tx \in txs : Threaded(tx)

\* There are no batches at first.
LEMMA BatchInit == Init => BatchInv
<1> SUFFICES ASSUME Init PROVE BatchInv
  OBVIOUS
<1>1. /\ txs = {} /\ map = NoKeys /\ captured = Torn /\ snap = NoKeys /\ stableSnap = NoKeys
      /\ stable = <<>> /\ Queue = <<>> /\ hist = <<NoKeys>>
      /\ \A c \in Clients : todo[c] = Torn /\ cpc[c] = "idle"
  BY DEF Init, Queue, NoWrites, ClientIdle
<1>2. Len(hist) \in Nat
  BY <1>1
<1>3. BelowLog(Len(hist), <<>>)
  BY DEF BelowLog
<1> QED
  BY <1>1, <1>2, <1>3, BelowTorn DEF BatchInv, Bounds, TodoLogged

\* The record a batch waits for is the last of the log.
LEMMA TodoStep ==
    ASSUME StoreInv, TodoLogged, [Next]_vars
    PROVE  TodoLogged'
<1> SUFFICES ASSUME NEW c \in Clients, cpc'[c] = "batch"
             PROVE  log' # <<>> /\ \A k \in Keys : todo'[c][k] \in {Untouched, log'[Len(log')][k]}
  BY DEF TodoLogged
<1>0. log \in Seq(Record) /\ Len(log) \in Nat /\ todo \in [Clients -> Record]
  BY DEF StoreInv, Inv, TypeInv, TypeOK
<1>1. CASE BatchLog(c)
  <2>1. PICK rec \in Record : Logged(rec) /\ todo' = [todo EXCEPT ![c] = rec]
    BY <1>1, BatchLogs
  <2>2. log' = Append(log, rec) /\ todo'[c] = rec
    BY <1>0, <2>1 DEF Logged
  <2>3. Len(log') = Len(log) + 1 /\ log'[Len(log')] = rec
    BY <1>0, <2>2
  <2>4. log' # <<>>
    BY <1>0, <2>3
  <2> QED
    BY <2>2, <2>3, <2>4
<1>2. CASE ~BatchLog(c)
  <2>1. /\ cpc[c] = "batch" /\ log' = log
        /\ \A k \in Keys : todo'[c][k] \in {todo[c][k], Untouched}
    BY <1>2, BatchWaits
  <2> QED
    BY <2>1 DEF TodoLogged
<1> QED
  BY <1>1, <1>2

\* Values stay below the length of the history.
LEMMA BoundsStep ==
    ASSUME StoreInv, Bounds, TypeOK', [Next]_vars
    PROVE  Bounds'
<1> DEFINE n == Len(hist)
           m == Len(hist')
<1>0. /\ hist \in Seq(MapType) /\ n \in Nat /\ n >= 1 /\ TypeOK /\ Grows(hist, hist')
      /\ map \in MapType /\ captured \in Record /\ snap \in MapType /\ stableSnap \in MapType
      /\ stable \in Seq(Record) /\ wal \in Seq(Record) /\ todo \in [Clients -> Record]
      /\ Queue \in Seq(Record) /\ Stamp = n + 1
  <2>1. TypeOK /\ Kind
    BY EveryKind DEF StoreInv, Inv, TypeInv
  <2>2. Grows(hist, hist') /\ Queue \in Seq(Record)
    BY <2>1, HistGrows, QueueType
  <2> QED
    BY <2>1, <2>2 DEF TypeOK, Stamp
<1>1. m \in Nat /\ n <= m /\ (m = n \/ m = n + 1)
  BY <1>0 DEF Grows
<1>b. /\ \A tx \in txs : tx.at \in 2..n
      /\ Below(n, map) /\ Below(n, captured) /\ Below(n, snap) /\ Below(n, stableSnap)
      /\ \A c \in Clients : Below(n, todo[c])
      /\ BelowLog(n, Queue) /\ BelowLog(n, stable)
  BY DEF Bounds
<1> HIDE DEF n, m
<1>m. /\ \A rec \in MapType \cup Record : Below(n, rec) => Below(m, rec)
      /\ \A recs \in Seq(Record) : BelowLog(n, recs) => BelowLog(m, recs)
  <2>1. MapType \subseteq Record
    BY DEF MapType, Record
  <2> QED
    BY <1>0, <1>1, <2>1, BelowMore
<1>s. Below(m, map) /\ Below(m, captured) /\ Below(m, snap) /\ Below(m, stableSnap)
      /\ BelowLog(m, Queue) /\ BelowLog(m, stable)
  BY <1>0, <1>b, <1>m
<1>2. \A tx \in txs' : tx.at \in 2..m
  <2>1. CASE txs' = txs
    <3>1. \A tx \in txs : tx.at \in 2..n
      BY <1>b
    <3>2. 2..n \subseteq 2..m
      BY <1>0, <1>1
    <3> QED
      BY <2>1, <3>1, <3>2
  <2>2. CASE \E c \in Clients : BatchLog(c)
    <3>1. PICK tx \in Batch : txs' = txs \cup {tx} /\ tx.at = n + 1 /\ m = n + 1
      BY <2>2, BatchLogs DEF n, m
    <3> QED
      BY <1>0, <1>1, <1>b, <3>1
  <2> QED
    BY <2>1, <2>2, BatchKinds
<1>3. Below(m, map')
  <2> SUFFICES ASSUME NEW k \in Keys PROVE map'[k] <= m
    BY DEF Below
  <2>1. map[k] <= m
    BY <1>s DEF Below
  <2>2. ASSUME NEW c \in Clients PROVE todo[c][k] <= m
    <3>1. Below(m, todo[c])
      BY <1>0, <1>b, <1>m
    <3> QED
      BY <3>1 DEF Below
  <2>3. CASE Reopen
    <3>1. map' = Replay(snap, wal)
      BY <2>3 DEF Reopen
    <3>2. BelowLog(m, wal)
      BY <1>0, <1>1, <1>s, ThinnedAway, FileThinned, BelowThinned
    <3>3. CASE \E i \in Readable(wal) : wal[i][k] # Untouched
      <4>1. PICK i \in 1..Len(wal) : IsLastWrite(wal, k, i)
        BY <1>0, <3>3, LastWriteExists
      <4>2. map'[k] = wal[i][k]
        BY <1>0, <3>1, <4>1, ReplayLast
      <4> QED
        BY <3>2, <4>2 DEF BelowLog, Below
    <3>4. CASE \A i \in Readable(wal) : wal[i][k] = Untouched
      <4>1. map'[k] = snap[k]
        BY <1>0, <3>1, <3>4, ReplayUntouched
      <4> QED
        BY <1>s, <4>1 DEF Below
    <3> QED
      BY <3>3, <3>4
  <2>4. CASE ~Reopen
    <3>1. \/ map'[k] \in {map[k], Missing}
          \/ map'[k] = n + 1 /\ m = n + 1
          \/ \E c \in Clients : cpc[c] = "batch" /\ map'[k] = todo[c][k]
      BY <1>0, <2>4, MapKinds DEF n, m
    <3> QED
      BY <1>1, <2>1, <2>2, <3>1 DEF Missing
  <2> QED
    BY <2>3, <2>4
<1>4. Below(m, captured')
  <2>1. Capture \/ captured' = Torn \/ captured' = captured
    BY CapturedKinds DEF StoreInv, LogInv
  <2>2. CASE Capture
    <3>1. PICK k \in Keys : captured' = [captured EXCEPT ![k] = map[k]]
      BY <2>2 DEF Capture
    <3>2. \A x \in Keys : captured'[x] = IF x = k THEN map[x] ELSE captured[x]
      BY <1>0, <3>1 DEF Record
    <3> QED
      BY <1>s, <3>2 DEF Below
  <2> QED
    BY <1>1, <1>s, <2>1, <2>2, BelowTorn
<1>5. Below(m, snap') /\ Below(m, stableSnap')
  BY <1>s, FileKinds
<1>6. \A c \in Clients : Below(m, todo'[c])
  <2> SUFFICES ASSUME NEW c \in Clients, NEW k \in Keys PROVE todo'[c][k] <= m
    BY DEF Below
  <2>1. todo[c][k] <= m
    <3>1. Below(m, todo[c])
      BY <1>0, <1>b, <1>m
    <3> QED
      BY <3>1 DEF Below
  <2>2. \/ todo'[c][k] \in {todo[c][k], Untouched, Missing}
        \/ todo'[c][k] = n + 1 /\ m = n + 1
    BY <1>0, TodoKinds DEF n, m
  <2> QED
    BY <1>1, <2>1, <2>2 DEF Missing, Untouched
<1>7. BelowLog(m, stable')
  BY <1>0, <1>1, <1>s, FileKinds, BelowThinned
<1>8. BelowLog(m, Queue')
  <2>1. CASE Queue' = Queue
    BY <1>s, <2>1
  <2>2. CASE Added
    <3>1. PICK rec \in Record : Below(m, rec) /\ Queue' = Append(Queue, rec)
      BY <2>2 DEF Added, m
    <3> QED
      BY <1>0, <1>s, <3>1, BelowAppend
  <2>3. CASE Lost
    BY <1>0, <1>1, <1>s, <2>3, BelowThinned DEF Lost
  <2> QED
    BY <2>1, <2>2, <2>3, QueueKinds
<1> QED
  BY <1>2, <1>3, <1>4, <1>5, <1>6, <1>7, <1>8 DEF Bounds, m

-----------------------------------------------------------------------------
(***************************************************************************)
(* A step and the batches there were before it.                            *)
(***************************************************************************)
\* A batch is known, and no new record carries it.
LEMMA KnownBatch ==
    ASSUME StoreInv, Bounds, NEW tx \in txs
    PROVE  /\ tx \in Batch /\ tx.keys \subseteq Keys /\ Len(hist) \in Nat
           /\ tx.at \in Nat /\ tx.at >= 2 /\ tx.at <= Len(hist)
           /\ \A rec : New(rec) => ~Carries(rec, tx)
<1>1. tx \in Batch /\ Len(hist) \in Nat
  BY DEF StoreInv, Inv, TypeInv, TypeOK, Batch
<1>2. tx.at \in 2..Len(hist)
  BY DEF Bounds
<1>3. tx.keys \subseteq Keys
  BY <1>1 DEF Batch
<1>4. ASSUME NEW rec, New(rec), NEW k \in tx.keys PROVE rec[k] # tx.at
  BY <1>1, <1>2, <1>3, <1>4 DEF New, Stamp, Untouched, Missing
<1> QED
  BY <1>1, <1>2, <1>3, <1>4 DEF Carries

\* The records of a batch stay in order.
LEMMA InOrderStep ==
    ASSUME StoreInv, Bounds, [Next]_vars, NEW tx \in txs, InOrder(tx)
    PROVE  InOrder(tx)'
<1>0. /\ hist \in Seq(MapType) /\ Grows(hist, hist') /\ Queue \in Seq(Record)
      /\ stable \in Seq(Record) /\ TypeOK'
  <2>1. TypeOK /\ Kind /\ TypeOK'
    BY EveryKind, TypeStep DEF StoreInv, Inv, TypeInv
  <2> QED
    BY <2>1, HistGrows, QueueType DEF TypeOK
<1>1. /\ tx \in Batch /\ tx.at \in Nat /\ tx.at <= Len(hist) /\ Len(hist) \in Nat
      /\ \A rec : New(rec) => ~Carries(rec, tx)
  BY KnownBatch
<1>2. Ordered(hist', Queue, tx) /\ Ordered(hist', stable, tx)
  BY <1>0, <1>1, OrderedGrows DEF InOrder
<1>3. tx.at <= Len(hist')
  BY <1>0, <1>1 DEF Grows
<1>4. Queue' \in Seq(Record) /\ stable' \in Seq(Record)
  <2>1. wal' \in Seq(Record) /\ pending' \in Seq(Record) /\ log' \in Seq(Record)
        /\ stable' \in Seq(Record)
    BY <1>0 DEF TypeOK
  <2> QED
    BY <2>1, ConcatProperties DEF Queue
<1>5. Ordered(hist', Queue', tx)
  <2>1. CASE Queue' = Queue
    BY <1>2, <2>1
  <2>2. CASE Added
    <3>1. PICK rec \in Record : /\ New(rec) /\ Queue' = Append(Queue, rec)
                                /\ \A i \in Nat : i <= Len(hist') => Recent(hist', rec, i)
      BY <2>2 DEF Added
    <3>2. Recent(hist', rec, tx.at) /\ ~Carries(rec, tx)
      BY <1>1, <1>3, <3>1
    <3> QED
      BY <1>0, <1>1, <1>2, <3>1, <3>2, OrderedAppend
  <2>3. CASE Lost
    BY <1>0, <1>1, <1>2, <1>4, <2>3, ThinnedOrdered DEF Lost
  <2> QED
    BY <2>1, <2>2, <2>3, QueueKinds
<1>6. Ordered(hist', stable', tx)
  BY <1>0, <1>1, <1>2, <1>4, FileKinds, ThinnedOrdered
<1> QED
  BY <1>5, <1>6 DEF InOrder

\* A queue that has nothing older than a state gets nothing older.
LEMMA RecentQueueStep ==
    ASSUME StoreInv, [Next]_vars, ~PowerLoss, NEW i \in Nat, i <= Len(hist),
           RecentLog(hist, Queue, i)
    PROVE  RecentLog(hist', Queue', i)
<1>0. /\ hist \in Seq(MapType) /\ Grows(hist, hist') /\ Queue \in Seq(Record)
      /\ Len(hist) \in Nat
  <2>1. TypeOK /\ Kind
    BY EveryKind DEF StoreInv, Inv, TypeInv
  <2> QED
    BY <2>1, HistGrows, QueueType DEF TypeOK
<1>1. RecentLog(hist', Queue, i)
  BY <1>0, RecentLogGrows DEF RecentLog
<1>2. CASE Queue' = Queue
  BY <1>1, <1>2
<1>3. CASE Added
  <2>1. PICK rec \in Record : /\ Queue' = Append(Queue, rec)
                              /\ \A x \in Nat : x <= Len(hist') => Recent(hist', rec, x)
    BY <1>3 DEF Added
  <2>2. i <= Len(hist')
    BY <1>0 DEF Grows
  <2> QED
    BY <1>0, <1>1, <2>1, <2>2, RecentAppend DEF RecentLog
<1>4. CASE Lost
  BY <1>0, <1>1, <1>4, ThinnedRecent DEF Lost
<1> QED
  BY <1>2, <1>3, <1>4, QueueKinds

\* What the queue holds it keeps, unless some of it is lost.
LEMMA HoldsStep ==
    ASSUME StoreInv, Queue' = Queue \/ Added, NEW k, NEW v, Holds(Queue, k, v)
    PROVE  Holds(Queue', k, v)
<1>0. Queue \in Seq(Record)
  BY QueueType DEF StoreInv, Inv, TypeInv
<1>1. ASSUME NEW rec \in Record, Queue' = Append(Queue, rec) PROVE Holds(Queue', k, v)
  <2>1. PICK a \in 1..Len(Queue) : Queue[a][k] = v
    BY DEF Holds
  <2>2. a \in 1..Len(Queue') /\ Queue'[a] = Queue[a]
    BY <1>0, <1>1
  <2> QED
    BY <2>1, <2>2 DEF Holds
<1> QED
  BY <1>1 DEF Added

\* Once the WAL is emptied the queue is the log.
LEMMA TruncatedQueue ==
    ASSUME StoreInv, Truncate, wal' = <<>>
    PROVE  /\ Queue = wal \o log /\ Queue' = log /\ wal \in Seq(Record) /\ log \in Seq(Record)
           /\ hist' = hist
<1>1. wpc = "truncate" /\ log' = log /\ pending' = pending /\ hist' = hist
  BY DEF Truncate, Goto, ghostVars
<1>2. pending = <<>> /\ wal \in Seq(Record) /\ log \in Seq(Record) /\ <<>> \in Seq(Record)
  BY <1>1, NoRecords DEF StoreInv, LogInv, BufferEmpty, Inv, TypeInv, TypeOK
<1>3. wal \o <<>> = wal /\ <<>> \o <<>> = <<>> /\ <<>> \o log = log
  BY <1>2, ConcatEmptySeq
<1> QED
  BY <1>1, <1>2, <1>3 DEF Queue

\* A store becomes sound by being opened.
LEMMA SoundStep ==
    ASSUME StoreInv, [Next]_vars, Sound', ~Reopen
    PROVE  Sound /\ ~PowerLoss /\ ~Kill
<1> USE DEF Sound, Up, sharedVars
<1>1. CASE UNCHANGED vars
  <2>1. wpc' = wpc /\ failed' = failed
    BY <1>1 DEF vars
  <2> QED
    BY <2>1 DEF Kill, PowerLoss, MemoryLost
<1>2. ASSUME NEW c \in Clients, ClientCall(c) \/ ClientStep(c) PROVE wpc' = wpc /\ failed' = failed
  BY <1>2 DEF ClientCall, ClientStep, Set, Delete, Mutate, Clear, GateEnter, Flush, Close,
     BatchLog, BatchApply, ManyLock, ManyApply, GateRefused, Release, ClearRemove, ClearLog,
     Joined
<1>3. ASSUME WriterStep PROVE Up /\ (failed => failed')
  BY <1>3 DEF WriterStep, Collect, Write, WritePending, WriteOk, WriteFails, HoldWrite,
     StrictSync, BarrierSync, TimedSync, SyncStep, Sync, Ack, AcksDone, CompactStart,
     CompactGate, CompactTake, CompactWrite, CompactStrictSync, Capture, CompactSync,
     CompactGivesUp, Persist, PersistFails, DirSync, Truncate, TruncateSync, Sweep, Loop, Goto
<1>4. ~Kill /\ ~PowerLoss
  BY DEF Kill, PowerLoss, MemoryLost
<1> QED
  BY <1>1, <1>2, <1>3, <1>4 DEF Next

\* What the queue has of a batch it keeps, or it has nothing older left.
LEMMA InQueueStep ==
    ASSUME StoreInv, Bounds, [Next]_vars, Sound', ~Reopen, NEW tx \in txs, InOrder(tx),
           NEW k \in tx.keys, InQueue(k, tx)
    PROVE  Holds(Queue', k, tx.at) \/ RecentLog(hist', Queue', tx.at)
<1>0. tx \in Batch /\ tx.at \in Nat /\ tx.at <= Len(hist)
  BY KnownBatch
<1>1. Sound /\ ~PowerLoss
  BY SoundStep
<1>2. CASE RecentLog(hist, Queue, tx.at)
  BY <1>0, <1>1, <1>2, RecentQueueStep
<1>3. CASE Holds(Queue, k, tx.at)
  <2>1. CASE Queue' = Queue \/ Added
    BY <1>3, <2>1, HoldsStep
  <2>2. CASE Lost
    <3>1. Truncate
      BY <2>2 DEF Lost
    <3>2. wal' = <<>>
      BY <3>1 DEF Truncate, Sound
    <3>3. /\ Queue = wal \o log /\ Queue' = log /\ wal \in Seq(Record) /\ log \in Seq(Record)
          /\ hist' = hist
      BY <3>1, <3>2, TruncatedQueue
    <3>4. CASE Holds(log, k, tx.at)
      BY <3>3, <3>4
    <3>5. CASE Holds(wal, k, tx.at)
      <4>1. Ordered(hist, wal \o log, tx)
        BY <3>3 DEF InOrder
      <4>2. RecentLog(hist, log, tx.at)
        BY <1>0, <3>3, <3>5, <4>1, AfterCarrier
      <4> QED
        BY <3>3, <4>2
    <3> QED
      BY <1>3, <3>3, <3>4, <3>5, HoldsConcat
  <2> QED
    BY <2>1, <2>2, QueueKinds
<1> QED
  BY <1>2, <1>3 DEF InQueue

\* What a store that is opened has of a batch is in the WAL it leaves.
LEMMA MapReplayed ==
    ASSUME StoreInv, Bounds, NEW tx \in txs, Reopen, Backed(hist, snap, wal, tx),
           NEW k \in tx.keys, map'[k] = tx.at
    PROVE  Holds(Queue', k, tx.at) \/ RecentLog(hist', Queue', tx.at)
<1>0. /\ tx.at \in Nat /\ k \in Keys /\ wal \in Seq(Record) /\ snap \in MapType
      /\ hist \in Seq(MapType)
  BY KnownBatch DEF StoreInv, Inv, TypeInv, TypeOK
<1>1. /\ map' = Replay(snap, wal) /\ wal' = ReadablePrefix(wal) /\ log' = <<>> /\ pending' = <<>>
      /\ hist' = Append(hist, Replay(snap, wal))
  BY DEF Reopen
<1>2. Thinned(wal, ReadablePrefix(wal)) /\ ReadablePrefix(wal) \in Seq(Record)
  BY <1>0, ThinnedReadable
<1>3. Queue' = ReadablePrefix(wal)
  <2>1. Queue' = (ReadablePrefix(wal) \o <<>>) \o <<>>
    BY <1>1 DEF Queue
  <2> QED
    BY <1>2, <2>1, ConcatEmptySeq
<1>4. Grows(hist, hist')
  BY <1>0, <1>1, ReplayType DEF Grows
<1>5. CASE \E i \in Readable(wal) : wal[i][k] # Untouched
  <2>1. PICK a \in 1..Len(wal) : IsLastWrite(wal, k, a)
    BY <1>0, <1>5, LastWriteExists
  <2>2. a \in Readable(wal) /\ wal[a][k] = tx.at
    BY <1>0, <1>1, <2>1, ReplayLast DEF IsLastWrite
  <2>3. Shows(wal, k, tx.at)
    BY <2>2 DEF Shows
  <2>4. Shows(Queue', k, tx.at)
    BY <1>0, <1>3, <2>3, ShowsCut
  <2> QED
    BY <2>4 DEF Shows, Holds, Readable
<1>6. CASE \A i \in Readable(wal) : wal[i][k] = Untouched
  <2>1. snap[k] = tx.at
    BY <1>0, <1>1, <1>6, ReplayUntouched
  <2>2. ~Shows(wal, k, tx.at)
    BY <1>0, <1>6 DEF Shows, Untouched
  <2>3. RecentLog(hist, wal, tx.at)
    BY <2>1, <2>2 DEF Backed
  <2>4. RecentLog(hist, Queue', tx.at)
    BY <1>0, <1>2, <1>3, <2>3, ThinnedRecent
  <2> QED
    BY <1>0, <1>4, <2>4, RecentLogGrows DEF RecentLog
<1> QED
  BY <1>5, <1>6

\* What the map has of a batch is in the queue.
LEMMA MapLoggedStep ==
    ASSUME StoreInv, Bounds, TodoLogged, [Next]_vars, NEW tx \in txs, InOrder(tx),
           MapLogged(tx), Reopen => Backed(hist, snap, wal, tx)
    PROVE  MapLogged(tx)'
<1> SUFFICES ASSUME Sound', NEW k \in tx.keys, map'[k] = tx.at
             PROVE  Holds(Queue', k, tx.at) \/ RecentLog(hist', Queue', tx.at)
  BY DEF MapLogged, InQueue
<1>1. CASE Reopen
  BY <1>1, MapReplayed
<1>2. CASE ~Reopen
  <2>0. /\ tx.at \in Nat /\ tx.at >= 2 /\ k \in Keys /\ tx.at <= Len(hist) /\ Len(hist) \in Nat
    BY KnownBatch
  <2>1. Sound
    BY <1>2, SoundStep
  <2>2. InQueue(k, tx)
    <3>1. CASE map'[k] \in {map[k], Missing}
      BY <2>0, <2>1, <3>1 DEF MapLogged, Missing
    <3>2. CASE map'[k] = Stamp
      BY <2>0, <3>2 DEF Stamp
    <3>3. CASE \E c \in Clients : cpc[c] = "batch" /\ map'[k] = todo[c][k]
      <4>1. PICK c \in Clients : cpc[c] = "batch" /\ map'[k] = todo[c][k]
        BY <3>3
      <4>2. log # <<>> /\ todo[c][k] \in {Untouched, log[Len(log)][k]}
        BY <2>0, <4>1 DEF TodoLogged
      <4>3. log[Len(log)][k] = tx.at
        BY <2>0, <4>1, <4>2 DEF Untouched
      <4>4. /\ log \in Seq(Record) /\ wal \in Seq(Record) /\ pending \in Seq(Record)
            /\ wal \o pending \in Seq(Record)
        BY ConcatProperties DEF StoreInv, Inv, TypeInv, TypeOK
      <4>5. Len(log) \in 1..Len(log)
        BY <4>2, <4>4
      <4>6. Holds(log, k, tx.at)
        BY <4>3, <4>5 DEF Holds
      <4>7. Holds(Queue, k, tx.at)
        BY <4>4, <4>6, HoldsConcat DEF Queue
      <4> QED
        BY <4>7 DEF InQueue
    <3> QED
      BY <1>2, <2>0, <3>1, <3>2, <3>3, MapKinds
  <2> QED
    BY <1>2, <2>2, InQueueStep
<1> QED
  BY <1>1, <1>2

-----------------------------------------------------------------------------
\* Behind the gate the log only gets records that are new.
LEMMA GatedLogKinds ==
    ASSUME StoreInv, [Next]_vars, wpc' \in {"compactWrite", "compactStrict", "capture"}
    PROVE  \/ log' = <<>>
           \/ /\ wpc \in {"compactWrite", "compactStrict", "capture"}
              /\ log' = log \/ \E rec \in Record : New(rec) /\ log' = Append(log, rec)
<1> DEFINE Gated == wpc \in {"compactWrite", "compactStrict", "capture"}
           Grown == log' = log \/ \E rec \in Record : New(rec) /\ log' = Append(log, rec)
<1> USE DEF clientVars, sharedVars, diskVars, runVars, ghostVars
<1>1. CASE UNCHANGED vars
  BY <1>1 DEF vars
<1>2. ASSUME NEW c \in Clients, ClientCall(c) \/ ClientStep(c) PROVE Gated /\ Grown
  <2>0. wpc' = wpc
    BY <1>2 DEF ClientCall, ClientStep, Set, Delete, Mutate, Clear, GateEnter, Flush, Close,
       BatchLog, BatchApply, ManyLock, ManyApply, GateRefused, Release, ClearRemove, ClearLog,
       Joined
  <2>1. CASE \/ Clear(c) \/ GateEnter(c) \/ Flush(c) \/ Close(c) \/ BatchApply(c)
             \/ ManyLock(c) \/ GateRefused(c) \/ Release(c) \/ ClearRemove(c) \/ Joined(c)
    BY <2>0, <2>1 DEF Clear, GateEnter, Flush, Close, BatchApply, ManyLock, GateRefused,
       Release, ClearRemove, Joined
  <2>2. CASE Set(c) \/ Delete(c)
    <3>1. Stamp \in Nat
      BY HistType DEF StoreInv, Inv, TypeInv
    <3>2. \E rec \in Record : New(rec) /\ log' = Append(log, rec)
      BY <2>2, <3>1, RecordTypes, NewRecords DEF Set, Delete, Mutate, Present
    <3> QED
      BY <2>0, <3>2
  <2>3. CASE BatchLog(c)
    <3>1. PICK rec \in Record : Logged(rec)
      BY <2>3, BatchLogs
    <3> QED
      BY <2>0, <3>1 DEF Logged
  <2>4. CASE ManyApply(c)
    <3>1. Stamp \in Nat
      BY HistType DEF StoreInv, Inv, TypeInv
    <3>2. \E rec \in Record : New(rec) /\ log' = Append(log, rec)
      BY <2>4, <3>1, RecordTypes, NewRecords DEF ManyApply, Touched
    <3> QED
      BY <2>0, <3>2
  <2>5. CASE ClearLog(c)
    BY <2>0, <2>5, RecordTypes, NewRecords DEF ClearLog
  <2> QED
    BY <1>2, <2>1, <2>2, <2>3, <2>4, <2>5 DEF ClientCall, ClientStep
<1>3. CASE WriterStep
  <2>1. CASE CompactTake
    BY <2>1 DEF CompactTake
  <2>2. CASE CompactWrite \/ CompactStrictSync \/ Capture
    BY <2>2 DEF CompactWrite, CompactStrictSync, SyncStep, Capture, Goto
  <2>3. CASE ~(CompactTake \/ CompactWrite \/ CompactStrictSync \/ Capture)
    BY <1>3, <2>3 DEF WriterStep, Collect, Write, WritePending, AfterWrite, HoldWrite,
       StrictSync, BarrierSync, TimedSync, SyncStep, Ack, AcksDone, CompactStart, CompactGate,
       CompactSync, CompactGivesUp, Persist, PersistFails, DirSync, Truncate, TruncateSync,
       Sweep, Loop, Goto
  <2> QED
    BY <2>1, <2>2, <2>3
<1>4. CASE Kill \/ PowerLoss \/ Reopen
  BY <1>4 DEF Kill, PowerLoss, MemoryLost, Reopen
<1> QED
  BY <1>1, <1>2, <1>3, <1>4 DEF Next

\* What is logged behind the gate is not of a batch.
LEMMA GatedLogStep ==
    ASSUME StoreInv, Bounds, [Next]_vars, NEW tx \in txs, GatedLog(tx)
    PROVE  GatedLog(tx)'
<1> SUFFICES ASSUME wpc' \in {"compactWrite", "compactStrict", "capture"},
                    NEW a \in 1..Len(log')
             PROVE  ~Carries(log'[a], tx)
  BY DEF GatedLog, Carries
<1>0. log \in Seq(Record)
  BY DEF StoreInv, Inv, TypeInv, TypeOK
<1>1. CASE log' = <<>>
  BY <1>1
<1>2. CASE wpc \in {"compactWrite", "compactStrict", "capture"} /\ log' = log
  BY <1>2 DEF GatedLog
<1>3. ASSUME wpc \in {"compactWrite", "compactStrict", "capture"},
             NEW rec \in Record, New(rec), log' = Append(log, rec)
      PROVE  ~Carries(log'[a], tx)
  <2>1. ~Carries(rec, tx)
    BY <1>3, KnownBatch
  <2>2. \A b \in 1..Len(log) : ~Carries(log[b], tx)
    BY <1>3 DEF GatedLog
  <2>3. log'[a] = rec \/ (a \in 1..Len(log) /\ log'[a] = log[a])
    BY <1>0, <1>3
  <2> QED
    BY <2>1, <2>2, <2>3
<1> QED
  BY <1>1, <1>2, <1>3, GatedLogKinds

\* A map that is being cleared has nothing older than a batch it may have.
LEMMA ClearedWholeStep ==
    ASSUME StoreInv, Bounds, [Next]_vars, NEW tx \in txs, ClearedWhole(tx)
    PROVE  ClearedWhole(tx)'
<1> SUFFICES ASSUME Clearing' PROVE Recent(hist', map', tx.at)
  BY DEF ClearedWhole
<1>0. /\ hist \in Seq(MapType) /\ Len(hist) >= 1 /\ map \in MapType /\ Inv
      /\ tx.at \in Nat /\ tx.at <= Len(hist) /\ MapIsTip
  BY KnownBatch DEF StoreInv, Inv, TypeInv, TypeOK, LogInv
<1>1. CASE ~Clearing
  <2>1. PICK c \in Clients : Clear(c)
    BY <1>0, <1>1, ClearBegins
  <2>2. map = Tip /\ Grows(hist, hist') /\ map' = map
    BY <1>0, <2>1, ClearedType DEF Clear, Admitted, MapIsTip, Grows
  <2>3. Recent(hist, Tip, tx.at)
    BY <1>0, RecentTip DEF Tip
  <2> QED
    BY <1>0, <2>2, <2>3, RecentGrows
<1>2. CASE Clearing
  <2>1. /\ hist' = hist
        /\ map' = map \/ \E k \in Keys : map' = [map EXCEPT ![k] = Missing]
    BY <1>0, <1>2, WhileClearing
  <2>2. hist[Len(hist)] = NoKeys
    BY <1>0, <1>2 DEF MapIsTip, Tip
  <2>3. Recent(hist, map, tx.at)
    BY <1>2 DEF ClearedWhole
  <2> QED
    BY <1>0, <2>1, <2>2, <2>3, RecentRemove
<1> QED
  BY <1>1, <1>2

-----------------------------------------------------------------------------
\* While a capture lasts the WAL stays as it is.
LEMMA CaptureKinds ==
    ASSUME StoreInv, [Next]_vars, wpc' \in {"capture", "compactSync", "persist"}, ~Capture
    PROVE  /\ captured' = captured /\ ~PowerLoss /\ (wpc' = "capture" => wpc # "compactSync")
           /\ \/ wpc \in {"compactWrite", "compactStrict"}
              \/ /\ wpc \in {"capture", "compactSync"} \/ wpc = wpc'
                 /\ wal' = wal /\ (failed => failed')
<1> DEFINE Goal == /\ captured' = captured /\ ~PowerLoss
                   /\ (wpc' = "capture" => wpc # "compactSync")
                   /\ \/ wpc \in {"compactWrite", "compactStrict"}
                      \/ /\ wpc \in {"capture", "compactSync"} \/ wpc = wpc'
                         /\ wal' = wal /\ (failed => failed')
<1> USE DEF clientVars, sharedVars, diskVars, runVars, ghostVars
<1>0. ~Kill /\ ~PowerLoss
  BY DEF Kill, PowerLoss, MemoryLost
<1>1. CASE UNCHANGED vars
  <2>1. wpc' = wpc /\ wal' = wal /\ failed' = failed /\ captured' = captured
    BY <1>1 DEF vars
  <2> QED
    BY <1>0, <2>1
<1>2. ASSUME NEW c \in Clients, ClientCall(c) \/ ClientStep(c) PROVE Goal
  <2>1. wpc' = wpc /\ wal' = wal /\ failed' = failed /\ captured' = captured
    BY <1>2 DEF ClientCall, ClientStep, Set, Delete, Mutate, Clear, GateEnter, Flush, Close,
       BatchLog, BatchApply, ManyLock, ManyApply, GateRefused, Release, ClearRemove, ClearLog,
       Joined
  <2> QED
    BY <1>0, <2>1
<1>3. CASE WriterStep
  <2>1. CASE CompactWrite
    BY <1>0, <2>1 DEF CompactWrite
  <2>2. CASE CompactStrictSync \/ CompactSync
    BY <1>0, <2>2 DEF CompactStrictSync, CompactSync, SyncStep, Sync, Goto
  <2>3. CASE ~(CompactWrite \/ CompactStrictSync \/ CompactSync)
    BY <1>3, <2>3 DEF WriterStep, Collect, Write, WritePending, AfterWrite, HoldWrite,
       StrictSync, BarrierSync, TimedSync, SyncStep, Ack, AcksDone, CompactStart, CompactGate,
       CompactTake, CompactGivesUp, Persist, PersistFails, DirSync, Truncate, TruncateSync,
       Sweep, Loop, Goto
  <2> QED
    BY <2>1, <2>2, <2>3
<1>4. CASE Reopen
  BY <1>4 DEF Reopen
<1> QED
  BY <1>0, <1>1, <1>2, <1>3, <1>4 DEF Next

\* What capture reads of the map is not older than a batch.
LEMMA CaptureReadsWhole ==
    ASSUME StoreInv, Bounds, NEW tx \in txs, ClearedWhole(tx), wpc = "capture"
    PROVE  Recent(hist, map, tx.at)
<1>1. /\ hist \in Seq(MapType) /\ Len(hist) >= 1 /\ tx.at \in Nat /\ tx.at <= Len(hist)
      /\ MapIsTip
  BY KnownBatch DEF StoreInv, Inv, TypeInv, TypeOK, LogInv
<1>2. CASE Clearing
  BY <1>2 DEF ClearedWhole
<1>3. CASE ~Clearing
  <2>1. LockFree
    BY <1>3 DEF Clearing, LockFree, StoreInv, Inv, LockInv, GateExcludes, GateTaken, Readers
  <2>2. map = Tip
    BY <1>1, <2>1 DEF MapIsTip, Up
  <2> QED
    BY <1>1, <2>2, RecentTip DEF Tip
<1> QED
  BY <1>2, <1>3

\* A snapshot being made has a batch whole.
LEMMA CapturedWhollyStep ==
    ASSUME StoreInv, Bounds, [Next]_vars, NEW tx \in txs, ClearedWhole(tx), CapturedWholly(tx)
    PROVE  CapturedWholly(tx)'
<1>0. /\ hist \in Seq(MapType) /\ captured \in Record /\ Grows(hist, hist')
      /\ tx \in Batch /\ tx.at \in Nat /\ CapturedFresh /\ Inv
  BY EveryKind, HistGrows, KnownBatch DEF StoreInv, LogInv, Inv, TypeInv, TypeOK
<1>1. CASE Capture
  <2>1. PICK k \in Keys : captured' = [captured EXCEPT ![k] = map[k]]
    BY <1>1 DEF Capture
  <2>2. hist' = hist /\ wpc = "capture"
    BY <1>1 DEF Capture, ghostVars
  <2>3. Recent(hist, map, tx.at) /\ Recent(hist, captured, tx.at)
    BY <2>2, CaptureReadsWhole DEF CapturedWholly
  <2>4. \A x \in Keys : captured'[x] = IF x = k THEN map[x] ELSE captured[x]
    BY <1>0, <2>1 DEF Record
  <2>5. Recent(hist', captured', tx.at)
    BY <2>2, <2>3, <2>4 DEF Recent
  <2> QED
    BY <2>5 DEF CapturedWholly
<1>2. CASE captured' = Torn
  BY <1>2, RecentTorn DEF CapturedWholly
<1>3. CASE captured' = captured /\ ~Capture
  <2>1. CASE Recent(hist, captured, tx.at)
    BY <1>0, <1>3, <2>1, RecentGrows DEF CapturedWholly
  <2>2. CASE wpc # "capture" /\ ~Carries(captured, tx)
    <3>1. CASE wpc' # "capture"
      BY <1>3, <2>2, <3>1 DEF CapturedWholly, Carries
    <3>2. CASE wpc' = "capture"
      <4>1. wpc \in {"compactWrite", "compactStrict"}
        BY <1>3, <2>2, <3>2, CaptureKinds
      <4>2. captured' = Torn
        BY <1>0, <1>3, <4>1 DEF CapturedFresh
      <4> QED
        BY <4>2, RecentTorn DEF CapturedWholly
    <3> QED
      BY <3>1, <3>2
  <2> QED
    BY <2>1, <2>2 DEF CapturedWholly
<1> QED
  BY <1>0, <1>1, <1>2, <1>3, CapturedKinds

\* What a snapshot being made has of a batch is in the WAL.
LEMMA CapturedLoggedStep ==
    ASSUME StoreInv, Bounds, [Next]_vars, NEW tx \in txs, MapLogged(tx), GatedLog(tx),
           CapturedLogged(tx)
    PROVE  CapturedLogged(tx)'
<1> SUFFICES ASSUME ~failed', wpc' \in {"capture", "compactSync", "persist"},
                    NEW k \in tx.keys, captured'[k] = tx.at
             PROVE  Holds(wal', k, tx.at) \/ RecentLog(hist', Queue', tx.at)
  BY DEF CapturedLogged
<1>0. /\ tx.at \in Nat /\ tx.at <= Len(hist) /\ tx.at >= 2 /\ k \in Keys
      /\ wal \in Seq(Record) /\ log \in Seq(Record) /\ captured \in Record
  BY KnownBatch DEF StoreInv, Inv, TypeInv, TypeOK
<1>1. CASE Capture
  <2>1. PICK x \in Keys : captured' = [captured EXCEPT ![x] = map[x]]
    BY <1>1 DEF Capture
  <2>2. /\ wpc = "capture" /\ ~failed
        /\ UNCHANGED <<wal, pending, log, hist>>
    BY <1>1 DEF Capture, sharedVars, diskVars, ghostVars
  <2>3. Queue' = Queue
    BY <2>2 DEF Queue
  <2>4. captured[k] = tx.at \/ map[k] = tx.at
    BY <1>0, <2>1 DEF Record
  <2>5. CASE captured[k] = tx.at
    BY <2>2, <2>3, <2>5 DEF CapturedLogged
  <2>6. CASE map[k] = tx.at
    <3>1. InQueue(k, tx)
      BY <2>2, <2>6 DEF MapLogged, Sound, Up
    <3>2. Queue = wal \o log
      <4>1. pending = <<>>
        BY <2>2 DEF StoreInv, LogInv, BufferEmpty
      <4> QED
        BY <1>0, <4>1, ConcatEmptySeq DEF Queue
    <3>3. ~Holds(log, k, tx.at)
      BY <2>2 DEF GatedLog, Holds, Carries
    <3>4. Holds(Queue, k, tx.at) => Holds(wal, k, tx.at)
      BY <1>0, <3>2, <3>3, HoldsConcat
    <3> QED
      BY <2>2, <2>3, <3>1, <3>4 DEF InQueue
  <2> QED
    BY <2>4, <2>5, <2>6
<1>2. CASE ~Capture
  <2>1. /\ captured' = captured /\ ~PowerLoss
        /\ \/ wpc \in {"compactWrite", "compactStrict"}
           \/ /\ wpc \in {"capture", "compactSync", "persist"}
              /\ wal' = wal /\ (failed => failed')
    BY <1>2, CaptureKinds
  <2>2. CASE wpc \in {"compactWrite", "compactStrict"}
    <3>1. captured = Torn
      BY <2>2 DEF StoreInv, LogInv, CapturedFresh
    <3> QED
      BY <1>0, <2>1, <3>1 DEF Torn, Untouched
  <2>3. CASE wpc \in {"capture", "compactSync", "persist"} /\ wal' = wal /\ (failed => failed')
    <3>1. Holds(wal, k, tx.at) \/ RecentLog(hist, Queue, tx.at)
      BY <2>1, <2>3 DEF CapturedLogged
    <3> QED
      BY <1>0, <2>1, <2>3, <3>1, RecentQueueStep
  <2> QED
    BY <2>1, <2>2, <2>3
<1> QED
  BY <1>1, <1>2

-----------------------------------------------------------------------------
\* A new batch is in the log and nowhere else.
LEMMA NewBatch ==
    ASSUME StoreInv, Bounds, [Next]_vars, NEW tx \in txs', tx \notin txs
    PROVE  Threaded(tx)'
<1>1. PICK c \in Clients : BatchLog(c)
  BY BatchKinds
<1>2. PICK rec \in Record, new \in Batch :
          /\ Logged(rec)
          /\ txs' = txs \cup {new} /\ new.at = Len(hist) + 1 /\ Len(hist') = Len(hist) + 1
          /\ \A k \in new.keys : rec[k] # Untouched
          /\ ~GateTaken /\ ~Clearing
          /\ UNCHANGED <<map, captured, wpc, wal, pending, stable, snap, stableSnap>>
  BY <1>1, BatchLogs
<1>3. tx = new
  BY <1>2
<1>4. /\ Len(hist) \in Nat /\ hist \in Seq(MapType) /\ tx \in Batch /\ tx.at = Len(hist) + 1
      /\ tx.at \in Nat /\ Tip \in MapType /\ TypeOK /\ tx.keys \subseteq Keys
  BY <1>2, <1>3, HistType DEF StoreInv, Inv, TypeInv, TypeOK, Batch
<1>5. /\ \A r : Below(Len(hist), r) => ~Carries(r, tx)
      /\ \A h, recs : BelowLog(Len(hist), recs) => Ordered(h, recs, tx)
  BY <1>4, BelowBatch
<1>6. ~Carries(map', tx) /\ ~Carries(captured', tx)
  BY <1>2, <1>5 DEF Bounds
<1>7. Ordered(hist', Queue', tx)
  <2>1. Queue \in Seq(Record) /\ Queue' = Append(Queue, rec)
    BY <1>2, <1>4, QueueType, LogGrows DEF Logged
  <2>2. Recent(hist', rec, tx.at)
    BY <1>2, <1>4, RecentApplied DEF Logged
  <2>3. Ordered(hist', Queue, tx)
    BY <1>5 DEF Bounds
  <2> QED
    BY <1>2, <1>3, <1>4, <2>1, <2>2, <2>3, OrderedAppend
<1>8. Ordered(hist', stable', tx)
  BY <1>2, <1>5 DEF Bounds
<1>9. ~Clearing'
  BY <1>1, <1>2 DEF BatchLog, Clearing, StoreInv, Inv, TypeInv, TypeOK
<1>10. wpc' \notin {"compactWrite", "compactStrict", "capture"}
  BY <1>2 DEF GateTaken
<1>11. \A k \in tx.keys : map'[k] # tx.at /\ captured'[k] # tx.at
  BY <1>6 DEF Carries
<1>12. InOrder(tx)'
  BY <1>7, <1>8 DEF InOrder
<1>13. MapLogged(tx)' /\ CapturedLogged(tx)'
  BY <1>11 DEF MapLogged, CapturedLogged
<1>14. GatedLog(tx)' /\ ClearedWhole(tx)'
  BY <1>9, <1>10 DEF GatedLog, ClearedWhole
<1>15. CapturedWholly(tx)'
  BY <1>6, <1>10 DEF CapturedWholly, Carries
<1> QED
  BY <1>12, <1>13, <1>14, <1>15 DEF Threaded

\* Every step keeps it, if a store that is opened finds its snapshot backed by its WAL.
LEMMA BatchStep ==
    ASSUME StoreInv, BatchInv, TypeOK', [Next]_vars,
           Reopen => \A tx \in txs : Backed(hist, snap, wal, tx)
    PROVE  BatchInv'
<1>1. Bounds' /\ TodoLogged'
  BY BoundsStep, TodoStep DEF BatchInv
<1>2. ASSUME NEW tx \in txs' PROVE Threaded(tx)'
  <2>1. CASE tx \in txs
    <3>1. Bounds /\ TodoLogged /\ Threaded(tx)
      BY <2>1 DEF BatchInv
    <3>2. InOrder(tx)' /\ MapLogged(tx)'
      BY <2>1, <3>1, InOrderStep, MapLoggedStep DEF Threaded
    <3>3. GatedLog(tx)' /\ ClearedWhole(tx)'
      BY <2>1, <3>1, GatedLogStep, ClearedWholeStep DEF Threaded
    <3>4. CapturedWholly(tx)' /\ CapturedLogged(tx)'
      BY <2>1, <3>1, CapturedWhollyStep, CapturedLoggedStep DEF Threaded
    <3> QED
      BY <3>2, <3>3, <3>4 DEF Threaded
  <2>2. CASE tx \notin txs
    BY <2>2, NewBatch DEF BatchInv
  <2> QED
    BY <2>1, <2>2
<1> QED
  BY <1>1, <1>2 DEF BatchInv

-----------------------------------------------------------------------------
(***************************************************************************)
(* Kills.  The snapshot has a batch whole, and what it has of one the WAL  *)
(* still shows, unless nothing older than the batch is recorded any more.  *)
(***************************************************************************)
KillBacked(tx) == /\ Whole(hist, snap, tx)
                  /\ \A k \in tx.keys : snap[k] = tx.at =>
                        Shows(wal, k, tx.at) \/ RecentLog(hist, Queue, tx.at)
KillInv == BatchInv /\ \A tx \in txs : KillBacked(tx)

\* What a kill leaves of the WAL is the WAL and perhaps more.
LEMMA KillExtends ==
    ASSUME TypeOK, NEW w \in KillWals
    PROVE  \E more \in Seq(Record) : w = wal \o more
<1>0. wal \in Seq(Record) /\ pending \in Seq(Record) /\ Torn \in Record
  BY RecordTypes DEF TypeOK
<1>1. \A n \in 0..Len(pending) : /\ SubSeq(pending, 1, n) \in Seq(Record)
                                 /\ Append(SubSeq(pending, 1, n), Torn) \in Seq(Record)
  BY <1>0
<1>2. CASE w = wal
  BY <1>0, <1>2, NoRecords, ConcatEmptySeq
<1>3. CASE \E p \in Prefixes(pending) : w = wal \o p \/ w = wal \o Append(p, Torn)
  <2>1. PICK n \in 0..Len(pending) : \/ w = wal \o SubSeq(pending, 1, n)
                                     \/ w = wal \o Append(SubSeq(pending, 1, n), Torn)
    BY <1>3 DEF Prefixes
  <2> QED
    BY <1>1, <2>1
<1> QED
  BY <1>2, <1>3 DEF KillWals

\* Without a power loss the WAL grows, is emptied by a compaction, or is cut when it is read.
LEMMA WalKinds ==
    ASSUME StoreInv, [Next]_vars, ~PowerLoss
    PROVE  \/ \E more \in Seq(Record) : wal' = wal \o more
           \/ Truncate /\ wal' = <<>>
           \/ Reopen /\ wal' = ReadablePrefix(wal)
<1> DEFINE Goal == \/ \E more \in Seq(Record) : wal' = wal \o more
                   \/ Truncate /\ wal' = <<>>
                   \/ Reopen /\ wal' = ReadablePrefix(wal)
<1> USE DEF clientVars, sharedVars, diskVars, runVars, ghostVars
<1>0. TypeOK /\ wal \in Seq(Record) /\ pending \in Seq(Record) /\ Torn \in Record
  BY RecordTypes DEF StoreInv, Inv, TypeInv, TypeOK
<1>k. wal' = wal => Goal
  BY <1>0, NoRecords, ConcatEmptySeq
<1>1. CASE UNCHANGED vars
  <2>1. wal' = wal
    BY <1>1 DEF vars
  <2> QED
    BY <1>k, <2>1
<1>2. ASSUME NEW c \in Clients, ClientCall(c) \/ ClientStep(c) PROVE Goal
  <2>1. wal' = wal
    BY <1>2 DEF ClientCall, ClientStep, Set, Delete, Mutate, Clear, GateEnter, Flush, Close,
       BatchLog, BatchApply, ManyLock, ManyApply, GateRefused, Release, ClearRemove, ClearLog,
       Joined
  <2> QED
    BY <1>k, <2>1
<1>3. CASE WriterStep
  <2>1. CASE Write \/ CompactWrite
    <3>1. PICK strict, next : WritePending(strict, next)
      BY <2>1 DEF Write, CompactWrite
    <3>2. CASE wal' = wal
      BY <1>k, <3>2
    <3>3. CASE wal' = wal \o pending
      BY <1>0, <3>3
    <3>4. CASE WriteFails
      <4>1. PICK n \in 0..(Len(pending) - 1), tail \in {<<>>, <<Torn>>} :
                wal' = wal \o SubSeq(pending, 1, n) \o tail
        BY <3>4 DEF WriteFails
      <4> DEFINE part == SubSeq(pending, 1, n)
      <4>2. part \in Seq(Record) /\ tail \in Seq(Record)
        <5>1. Len(pending) \in Nat /\ <<>> \in Seq(Record) /\ <<Torn>> \in Seq(Record)
          BY <1>0, NoRecords
        <5>2. n \in 0..Len(pending)
          BY <5>1
        <5>3. part \in Seq(Record)
          BY <1>0, <5>1, <5>2
        <5>4. tail \in Seq(Record)
          BY <5>1, <4>1
        <5> QED
          BY <5>3, <5>4
      <4>3. wal' = (wal \o part) \o tail
        BY <4>1
      <4> HIDE DEF part
      <4>4. wal' = wal \o (part \o tail) /\ part \o tail \in Seq(Record)
        BY <1>0, <4>2, <4>3, LogConcat, ConcatProperties
      <4> QED
        BY <4>4
    <3> QED
      BY <3>1, <3>2, <3>3, <3>4 DEF WritePending, WriteOk
  <2>2. CASE Truncate
    BY <1>k, <2>2 DEF Truncate
  <2>3. CASE ~(Write \/ CompactWrite \/ Truncate)
    <3>1. wal' = wal
      BY <1>3, <2>3 DEF WriterStep, Collect, HoldWrite, StrictSync, BarrierSync, TimedSync,
         SyncStep, Ack, AcksDone, CompactStart, CompactGate, CompactTake, CompactStrictSync,
         Capture, CompactSync, CompactGivesUp, Persist, PersistFails, DirSync, TruncateSync,
         Sweep, Loop
    <3> QED
      BY <1>k, <3>1
  <2> QED
    BY <2>1, <2>2, <2>3
<1>4. CASE Kill
  BY <1>0, <1>4, KillExtends DEF Kill
<1>5. CASE Reopen
  BY <1>5 DEF Reopen
<1> QED
  BY <1>1, <1>2, <1>3, <1>4, <1>5 DEF Next

\* Without a power loss only a compaction changes the snapshot.
LEMMA SnapKinds ==
    ASSUME StoreInv, [Next]_vars, ~PowerLoss
    PROVE  snap' = snap \/ Persist
<1> USE DEF clientVars, sharedVars, diskVars, runVars, ghostVars
<1>1. CASE UNCHANGED vars
  BY <1>1 DEF vars
<1>2. ASSUME NEW c \in Clients, ClientCall(c) \/ ClientStep(c) PROVE snap' = snap
  BY <1>2 DEF ClientCall, ClientStep, Set, Delete, Mutate, Clear, GateEnter, Flush, Close,
     BatchLog, BatchApply, ManyLock, ManyApply, GateRefused, Release, ClearRemove, ClearLog,
     Joined
<1>3. CASE WriterStep
  BY <1>3 DEF WriterStep, Collect, Write, HoldWrite, StrictSync, BarrierSync, TimedSync,
     SyncStep, Ack, AcksDone, CompactStart, CompactGate, CompactTake, CompactWrite,
     CompactStrictSync, Capture, CompactSync, CompactGivesUp, PersistFails, DirSync, Truncate,
     TruncateSync, Sweep, Loop
<1>4. CASE Kill \/ Reopen
  BY <1>4 DEF Kill, Reopen
<1> QED
  BY <1>1, <1>2, <1>3, <1>4 DEF Next

\* A snapshot that is put in place has a batch whole, and the WAL shows what it has of it.
LEMMA PersistBacked ==
    ASSUME StoreInv, Persist, NEW tx \in txs, tx \in Batch, CapturedWholly(tx),
           CapturedLogged(tx)
    PROVE  /\ snap' = captured /\ UNCHANGED <<wal, stable, stableSnap, hist, failed>>
           /\ Queue' = Queue
           /\ Whole(hist, captured, tx)
           /\ \A k \in tx.keys : captured[k] = tx.at =>
                 Shows(wal, k, tx.at) \/ RecentLog(hist, Queue, tx.at)
<1>1. /\ snap' = captured /\ wpc = "persist" /\ ~failed
      /\ UNCHANGED <<wal, pending, log, stable, stableSnap, hist, failed>>
  BY DEF Persist, Goto, ghostVars, sharedVars
<1>2. Queue' = Queue
  BY <1>1 DEF Queue
<1>3. Whole(hist, captured, tx)
  BY DEF CapturedWholly, Whole
<1>4. ASSUME NEW k \in tx.keys, captured[k] = tx.at
      PROVE  Shows(wal, k, tx.at) \/ RecentLog(hist, Queue, tx.at)
  <2>1. Holds(wal, k, tx.at) \/ RecentLog(hist, Queue, tx.at)
    BY <1>1, <1>4 DEF CapturedLogged
  <2>2. \A i \in 1..Len(Queue) : Queue[i] # Torn
    BY <1>1 DEF StoreInv, LogInv, WholeRecords, Sound, Up
  <2>3. /\ wal \in Seq(Record) /\ pending \in Seq(Record) /\ log \in Seq(Record)
        /\ wal \o pending \in Seq(Record)
    BY ConcatProperties DEF StoreInv, Inv, TypeInv, TypeOK
  <2>4. ASSUME NEW j \in 1..Len(wal) PROVE wal[j] # Torn
    <3>1. j \in 1..Len(wal \o pending) /\ (wal \o pending)[j] = wal[j]
      BY <2>3, ConcatProperties
    <3>2. j \in 1..Len(Queue) /\ Queue[j] = wal[j]
      BY <2>3, <3>1, ConcatProperties DEF Queue
    <3> QED
      BY <2>2, <3>2
  <2>5. Len(wal) \in Nat
    BY <2>3
  <2> QED
    BY <2>1, <2>4, <2>5, HoldsShows
<1> QED
  BY <1>1, <1>2, <1>3, <1>4

\* What the WAL shows of a batch it goes on to show, or nothing older is left.
LEMMA ShowsStep ==
    ASSUME StoreInv, Bounds, [Next]_vars, ~PowerLoss, NEW tx \in txs, InOrder(tx),
           NEW k \in tx.keys, Shows(wal, k, tx.at)
    PROVE  Shows(wal', k, tx.at) \/ RecentLog(hist', Queue', tx.at)
<1>0. wal \in Seq(Record) /\ tx \in Batch /\ Len(wal) \in Nat
  BY KnownBatch DEF StoreInv, Inv, TypeInv, TypeOK
<1>1. CASE \E more \in Seq(Record) : wal' = wal \o more
  BY <1>0, <1>1, ShowsConcat
<1>2. CASE Truncate /\ wal' = <<>>
  <2>1. /\ Queue = wal \o log /\ Queue' = log /\ log \in Seq(Record) /\ hist' = hist
    BY <1>2, TruncatedQueue
  <2>2. Holds(wal, k, tx.at)
    BY DEF Shows, Holds, Readable
  <2>3. Ordered(hist, wal \o log, tx)
    BY <2>1 DEF InOrder
  <2>4. RecentLog(hist, log, tx.at)
    BY <1>0, <2>1, <2>2, <2>3, AfterCarrier
  <2> QED
    BY <2>1, <2>4
<1>3. CASE wal' = ReadablePrefix(wal)
  BY <1>0, <1>3, ShowsCut
<1> QED
  BY <1>1, <1>2, <1>3, WalKinds


\* The step that preserves what a kill needs.
LEMMA KillStep ==
    ASSUME StoreInv, KillInv, TypeOK', "power" \notin CrashKinds, [Next]_vars
    PROVE  KillInv'
<1>0. ~PowerLoss /\ BatchInv /\ Bounds /\ Bounds' /\ hist \in Seq(MapType) /\ TypeOK
  BY BoundsStep DEF PowerLoss, KillInv, BatchInv, StoreInv, Inv, TypeInv, TypeOK
<1>g. Grows(hist, hist')
  BY EveryKind, HistGrows DEF StoreInv, Inv, TypeInv
<1>1. ASSUME NEW tx \in txs PROVE Backed(hist, snap, wal, tx)
  <2>1. ASSUME NEW k \in tx.keys, RecentLog(hist, Queue, tx.at)
        PROVE  RecentLog(hist, wal, tx.at)
    <3>1. Thinned(Queue, wal) /\ Queue \in Seq(Record)
      BY <1>0, ThinnedAway, FileThinned, QueueType DEF TypeOK
    <3> QED
      BY <2>1, <3>1, ThinnedRecent
  <2> QED
    BY <2>1 DEF KillInv, KillBacked, Backed
<1>2. BatchInv'
  BY <1>0, <1>1, BatchStep
<1>3. ASSUME NEW tx \in txs' PROVE KillBacked(tx)'
  <2>1. CASE tx \in txs
    <3>0. /\ tx \in Batch /\ tx.at \in Nat /\ tx.at <= Len(hist) /\ tx.keys \subseteq Keys
      BY <1>0, <2>1, KnownBatch
    <3>1. KillBacked(tx) /\ Threaded(tx)
      BY <1>0, <2>1 DEF KillInv, BatchInv
    <3>2. CASE Persist
      <4>1. /\ snap' = captured /\ UNCHANGED <<wal, hist>> /\ Queue' = Queue
            /\ Whole(hist, captured, tx)
            /\ \A k \in tx.keys : captured[k] = tx.at =>
                  Shows(wal, k, tx.at) \/ RecentLog(hist, Queue, tx.at)
        BY <2>1, <3>0, <3>1, <3>2, PersistBacked DEF Threaded
      <4> QED
        BY <4>1 DEF KillBacked
    <3>3. CASE snap' = snap
      <4>1. Whole(hist', snap, tx)
        BY <1>0, <1>g, <3>0, <3>1, WholeGrows DEF KillBacked
      <4>2. ASSUME NEW k \in tx.keys, snap[k] = tx.at
            PROVE  Shows(wal', k, tx.at) \/ RecentLog(hist', Queue', tx.at)
        <5>1. Shows(wal, k, tx.at) \/ RecentLog(hist, Queue, tx.at)
          BY <3>1, <4>2 DEF KillBacked
        <5>2. CASE Shows(wal, k, tx.at)
          BY <1>0, <2>1, <3>1, <5>2, ShowsStep DEF Threaded
        <5>3. CASE RecentLog(hist, Queue, tx.at)
          BY <1>0, <3>0, <5>3, RecentQueueStep
        <5> QED
          BY <5>1, <5>2, <5>3
      <4> QED
        BY <3>3, <4>1, <4>2 DEF KillBacked
    <3> QED
      BY <1>0, <3>2, <3>3, SnapKinds
  <2>2. CASE tx \notin txs
    <3>1. PICK c \in Clients : BatchLog(c)
      BY <2>2, BatchKinds
    <3>2. PICK new \in Batch : txs' = txs \cup {new} /\ new.at = Len(hist) + 1 /\ snap' = snap
      BY <3>1, BatchLogs
    <3>3. tx = new /\ Len(hist) \in Nat /\ Len(hist) < tx.at
      BY <1>0, <2>2, <3>2
    <3>4. ~Carries(snap', tx)
      BY <1>0, <3>2, <3>3, BelowBatch DEF Bounds
    <3> QED
      BY <3>4 DEF KillBacked, Whole, Carries
  <2> QED
    BY <2>1, <2>2
<1> QED
  BY <1>2, <1>3 DEF KillInv

\* Files that recover a batch whole.
LEMMA AtomicIsAsOf ==
    ASSUME TypeOK, NEW STATE s, s \in MapType, NEW STATE w, w \in Seq(Record), NEW tx \in txs,
           Atomic(hist, s, w, tx), NEW k0 \in tx.keys, Replay(s, w)[k0] = tx.at,
           NEW k \in tx.keys
    PROVE  AsOf(Replay(s, w), k, tx.at)
<1>1. tx \in Batch /\ tx.at \in Nat /\ Len(hist) \in Nat
  BY DEF TypeOK, Batch
<1>2. Carries(Replay(s, w), tx)
  BY DEF Carries
<1>3. Replay(s, w)[k] \in Since(hist, k, tx.at)
  BY <1>1, <1>2, BatchRecovers
<1>4. PICK j \in 1..Len(hist) : j >= tx.at /\ hist[j][k] = Replay(s, w)[k]
  BY <1>3 DEF Since
<1>5. j \in tx.at..Len(hist)
  BY <1>1, <1>4
<1> QED
  BY <1>4, <1>5 DEF AsOf

\* At first there are no batches.
LEMMA KillInit == Init => KillInv
<1>1. ASSUME Init PROVE txs = {}
  BY <1>1 DEF Init
<1> QED
  BY <1>1, BatchInit DEF KillInv

\* "replay after a crash applies either all staged writes or none": whatever moment a kill
\* comes at, in the middle of a write or of a compaction, and whatever I/O failed before, a
\* store that is opened again has every batch whole (apply_batch, Writer::write_pending,
\* snapshot::capture, recovery::replay_wal).
THEOREM KillsKeepBatches ==
    ASSUME "power" \notin CrashKinds
    PROVE  Spec => []BatchAtomic
<1>1. Init => KillInv
  BY KillInit
<1>2. StoreInv /\ StoreInv' /\ KillInv /\ [Next]_vars => KillInv'
  BY KillStep DEF StoreInv, Inv, TypeInv
<1>3. StoreInv /\ KillInv => BatchAtomic
  <2> SUFFICES ASSUME StoreInv, KillInv, NEW m \in Recovered, NEW tx \in txs,
                      NEW k0 \in tx.keys, m[k0] = tx.at, NEW k \in tx.keys
               PROVE  AsOf(m, k, tx.at)
    BY DEF BatchAtomic
  <2>0. TypeOK /\ snap \in MapType /\ Queue \in Seq(Record) /\ wal \in Seq(Record)
    BY QueueType DEF StoreInv, Inv, TypeInv, TypeOK
  <2>1. PICK w \in KillWals : m = Replay(snap, w)
    BY DEF Recovered, Images
  <2>2. Thinned(Queue, w) /\ w \in Seq(Record)
    BY <2>0, KillThinned
  <2>3. tx \in Batch /\ InOrder(tx) /\ KillBacked(tx)
    BY KnownBatch DEF KillInv, BatchInv, Threaded
  <2>4. Ordered(hist, w, tx)
    BY <2>0, <2>2, <2>3, ThinnedOrdered DEF InOrder
  <2>5. Backed(hist, snap, w, tx)
    <3> SUFFICES ASSUME NEW x \in tx.keys, snap[x] = tx.at
                 PROVE  Shows(w, x, tx.at) \/ RecentLog(hist, w, tx.at)
      BY DEF Backed
    <3>1. Shows(wal, x, tx.at) => Shows(w, x, tx.at)
      BY <2>0, KillExtends, ShowsConcat
    <3>2. RecentLog(hist, Queue, tx.at) => RecentLog(hist, w, tx.at)
      BY <2>0, <2>2, ThinnedRecent
    <3> QED
      BY <2>3, <3>1, <3>2 DEF KillBacked
  <2>6. Atomic(hist, snap, w, tx)
    BY <2>3, <2>4, <2>5 DEF Atomic, KillBacked
  <2> QED
    BY <2>0, <2>1, <2>2, <2>6, AtomicIsAsOf
<1> QED
  BY <1>1, <1>2, <1>3, StoreInvariance, PTL DEF Spec

-----------------------------------------------------------------------------
(***************************************************************************)
(* Power losses.  A snapshot that may be found has a batch whole, and what *)
(* it has of one both the WAL the disk is sure to keep and every WAL it    *)
(* may keep show, unless they have nothing older than the batch.           *)
(***************************************************************************)
Extends(a, b) == Len(b) <= Len(a) /\ b = SubSeq(a, 1, Len(b))

Sure(h, sure, w, q, s, tx) ==
    /\ Whole(h, s, tx)
    /\ \A k \in tx.keys : s[k] = tx.at =>
          /\ Shows(sure, k, tx.at) \/ RecentLog(h, sure, tx.at)
          /\ (Extends(w, sure) /\ Shows(sure, k, tx.at)) \/ RecentLog(h, q, tx.at)

PowerBacked(tx) == /\ Sure(hist, stable, wal, Queue, snap, tx)
                   /\ Sure(hist, stable, wal, Queue, stableSnap, tx)
LossInv == /\ BatchInv /\ CleanIsSure /\ NeverFails
           /\ \A tx \in txs : PowerBacked(tx)

\* A log shows what its beginning shows.
LEMMA ExtendsShows ==
    ASSUME NEW a \in Seq(Record), NEW b \in Seq(Record), Extends(a, b), NEW k, NEW v,
           Shows(b, k, v)
    PROVE  Shows(a, k, v)
<1>1. Len(a) \in Nat /\ Len(b) \in Nat /\ Len(a) >= Len(b)
  BY DEF Extends
<1>2. \A j \in 1..Len(b) : a[j] = b[j]
  <2>1. ASSUME NEW j \in 1..Len(b) PROVE SubSeq(a, 1, Len(b))[j] = a[j]
    BY <1>1, <2>1
  <2> QED
    BY <2>1 DEF Extends
<1> QED
  BY <1>1, <1>2, ShowsMore

\* A log begins with itself.
LEMMA ExtendsItself ==
    ASSUME NEW a \in Seq(Record)
    PROVE  Extends(a, a)
BY DEF Extends

\* A log goes on beginning as it did.
LEMMA ExtendsConcat ==
    ASSUME NEW a \in Seq(Record), NEW b \in Seq(Record), NEW more \in Seq(Record),
           Extends(a, b)
    PROVE  Extends(a \o more, b)
<1> DEFINE c == a \o more
<1>1. /\ c \in Seq(Record) /\ Len(c) = Len(a) + Len(more) /\ Len(a) \in Nat /\ Len(more) \in Nat
      /\ \A j \in 1..Len(a) : c[j] = a[j]
  BY ConcatProperties
<1>2. Len(b) \in Nat /\ Len(b) <= Len(a) /\ b = SubSeq(a, 1, Len(b))
  BY DEF Extends
<1> HIDE DEF c
<1>3. SubSeq(c, 1, Len(b)) = SubSeq(a, 1, Len(b))
  BY <1>1, <1>2
<1>4. Extends(c, b)
  BY <1>1, <1>2, <1>3 DEF Extends
<1> QED
  BY <1>4 DEF c

\* Without a power loss the WAL the disk is sure to keep is the WAL of the last fsync.
LEMMA StableKinds ==
    ASSUME StoreInv, [Next]_vars, ~PowerLoss, ~Reopen
    PROVE  stable' = stable \/ (stable' = wal /\ wal' = wal)
<1> USE DEF clientVars, sharedVars, diskVars, runVars, ghostVars
<1>1. CASE UNCHANGED vars
  BY <1>1 DEF vars
<1>2. ASSUME NEW c \in Clients, ClientCall(c) \/ ClientStep(c) PROVE stable' = stable
  BY <1>2 DEF ClientCall, ClientStep, Set, Delete, Mutate, Clear, GateEnter, Flush, Close,
     BatchLog, BatchApply, ManyLock, ManyApply, GateRefused, Release, ClearRemove, ClearLog,
     Joined
<1>3. CASE WriterStep
  <2>1. CASE StrictSync \/ BarrierSync \/ TimedSync \/ CompactStrictSync \/ CompactSync
    BY <2>1 DEF StrictSync, BarrierSync, TimedSync, CompactStrictSync, CompactSync, SyncStep,
       Sync
  <2>2. CASE TruncateSync
    BY <2>2 DEF TruncateSync
  <2>3. CASE ~(\/ StrictSync \/ BarrierSync \/ TimedSync \/ CompactStrictSync \/ CompactSync
               \/ TruncateSync)
    BY <1>3, <2>3 DEF WriterStep, Collect, Write, HoldWrite, Ack, AcksDone, CompactStart,
       CompactGate, CompactTake, CompactWrite, Capture, CompactGivesUp, Persist, PersistFails,
       DirSync, Truncate, Sweep, Loop
  <2> QED
    BY <2>1, <2>2, <2>3
<1>4. CASE Kill
  BY <1>4 DEF Kill
<1> QED
  BY <1>1, <1>2, <1>3, <1>4 DEF Next

\* A store is opened on a WAL the disk is sure to keep, and leaves it one.
LEMMA ReopenedSure ==
    ASSUME StoreInv, DirtyIsRight, CleanIsSure, NeverFails, Reopen
    PROVE  /\ stable = wal /\ wal \in Seq(Record)
           /\ wal' = ReadablePrefix(wal) /\ stable' = ReadablePrefix(wal)
           /\ snap' = snap /\ stableSnap' = stableSnap
<1>1. wal \in Seq(Record)
  BY DEF StoreInv, Inv, TypeInv, TypeOK
<1>2. stable = wal
  <2>1. CASE wpc = "down"
    BY <2>1 DEF CleanIsSure
  <2>2. CASE wpc = "done" /\ "close" \in ReopenAfter
    <3>1. ~failed
      BY <2>2 DEF DirtyIsRight, NeverFails
    <3>2. ~dirty
      BY <2>2, <3>1 DEF StoreInv, Inv, DrainInv, SyncedOut
    <3> QED
      BY <2>2, <3>1, <3>2 DEF CleanIsSure
  <2> QED
    BY <2>1, <2>2 DEF Reopen
<1>3. CASE ReadableLen(wal) < Len(wal)
  BY <1>1, <1>2, <1>3 DEF Reopen
<1>4. CASE ~(ReadableLen(wal) < Len(wal))
  <2>1. ReadableLen(wal) \in 0..Len(wal)
    BY <1>1, ReadableShape
  <2>2. ReadablePrefix(wal) = wal
    BY <1>1, <1>4, <2>1 DEF ReadablePrefix
  <2> QED
    BY <1>1, <1>2, <1>4, <2>2 DEF Reopen
<1> QED
  BY <1>3, <1>4


\* What a step other than a power loss makes of the files keeps a snapshot sure.
LEMMA SureStep ==
    ASSUME StoreInv, Bounds, DirtyIsRight, CleanIsSure, NeverFails, [Next]_vars, ~PowerLoss,
           NEW tx \in txs, InOrder(tx), NEW s, Sure(hist, stable, wal, Queue, s, tx)
    PROVE  Sure(hist', stable', wal', Queue', s, tx)
<1>0. /\ tx \in Batch /\ tx.at \in Nat /\ tx.at <= Len(hist) /\ tx.keys \subseteq Keys
      /\ hist \in Seq(MapType) /\ wal \in Seq(Record) /\ stable \in Seq(Record)
      /\ Queue \in Seq(Record) /\ TypeOK /\ Grows(hist, hist')
  BY KnownBatch, QueueType, EveryKind, HistGrows DEF StoreInv, Inv, TypeInv, TypeOK
<1>1. Whole(hist', s, tx)
  BY <1>0, WholeGrows DEF Sure
<1> SUFFICES ASSUME NEW k \in tx.keys, s[k] = tx.at
             PROVE  /\ Shows(stable', k, tx.at) \/ RecentLog(hist', stable', tx.at)
                    /\ \/ Extends(wal', stable') /\ Shows(stable', k, tx.at)
                       \/ RecentLog(hist', Queue', tx.at)
  BY <1>1 DEF Sure
<1>2. /\ Shows(stable, k, tx.at) \/ RecentLog(hist, stable, tx.at)
      /\ (Extends(wal, stable) /\ Shows(stable, k, tx.at)) \/ RecentLog(hist, Queue, tx.at)
  BY DEF Sure
<1>3. RecentLog(hist, Queue, tx.at) => RecentLog(hist', Queue', tx.at)
  BY <1>0, RecentQueueStep
<1>4. \A recs : RecentLog(hist, recs, tx.at) => RecentLog(hist', recs, tx.at)
  BY <1>0, RecentLogGrows DEF RecentLog
<1>5. CASE Reopen
  <2>1. /\ stable = wal /\ wal' = ReadablePrefix(wal) /\ stable' = ReadablePrefix(wal)
    BY <1>5, ReopenedSure
  <2>2. Thinned(wal, ReadablePrefix(wal)) /\ ReadablePrefix(wal) \in Seq(Record)
    BY <1>0, ThinnedReadable
  <2>3. Shows(stable, k, tx.at) => Shows(stable', k, tx.at)
    BY <1>0, <2>1, ShowsCut
  <2>4. RecentLog(hist, stable, tx.at) => RecentLog(hist', stable', tx.at)
    BY <1>0, <1>4, <2>1, <2>2, ThinnedRecent
  <2>5. Extends(wal', stable')
    BY <2>1, <2>2, ExtendsItself
  <2> QED
    BY <1>2, <1>3, <2>3, <2>4, <2>5
<1>6. CASE stable' = wal /\ wal' = wal
  <2>1. Extends(wal', stable')
    BY <1>0, <1>6, ExtendsItself
  <2>2. Extends(wal, stable) /\ Shows(stable, k, tx.at) => Shows(stable', k, tx.at)
    BY <1>0, <1>6, ExtendsShows
  <2>3. RecentLog(hist, Queue, tx.at) => RecentLog(hist', stable', tx.at)
    BY <1>0, <1>4, <1>6, ThinnedAway, FileThinned, ThinnedRecent
  <2> QED
    BY <1>2, <1>3, <2>1, <2>2, <2>3
<1>7. CASE stable' = stable /\ ~Reopen
  <2>1. Shows(stable', k, tx.at) \/ RecentLog(hist', stable', tx.at)
    BY <1>2, <1>4, <1>7
  <2>2. ASSUME Extends(wal, stable), Shows(stable, k, tx.at)
        PROVE  Extends(wal', stable') \/ RecentLog(hist', Queue', tx.at)
    <3>1. CASE \E more \in Seq(Record) : wal' = wal \o more
      BY <1>0, <1>7, <2>2, <3>1, ExtendsConcat
    <3>2. CASE Truncate /\ wal' = <<>>
      <4>1. /\ Queue = wal \o log /\ Queue' = log /\ log \in Seq(Record) /\ hist' = hist
        BY <3>2, TruncatedQueue
      <4>2. Shows(wal, k, tx.at)
        BY <1>0, <2>2, ExtendsShows
      <4>3. Holds(wal, k, tx.at)
        BY <4>2 DEF Shows, Holds, Readable
      <4>4. Ordered(hist, wal \o log, tx)
        BY <4>1 DEF InOrder
      <4>5. RecentLog(hist, log, tx.at)
        BY <1>0, <4>1, <4>3, <4>4, AfterCarrier
      <4> QED
        BY <4>1, <4>5
    <3> QED
      BY <1>7, <3>1, <3>2, WalKinds
  <2> QED
    BY <1>2, <1>3, <1>7, <2>1, <2>2
<1> QED
  BY <1>5, <1>6, <1>7, StableKinds

\* Whatever a power loss leaves of the two files recovers a batch whole.
LEMMA LossAtomic ==
    ASSUME TypeOK, NEW tx \in txs, InOrder(tx), NEW w \in PowerWals, NEW s,
           Sure(hist, stable, wal, Queue, s, tx)
    PROVE  Atomic(hist, s, w, tx)
<1>0. /\ wal \in Seq(Record) /\ stable \in Seq(Record) /\ Queue \in Seq(Record) /\ tx \in Batch
      /\ Len(wal) \in Nat /\ Len(stable) \in Nat
  BY QueueType DEF TypeOK, Batch
<1>1. /\ w \in Seq(Record) /\ (w = stable \/ Thinned(Queue, w))
  BY PowerThinned
<1>2. Ordered(hist, w, tx)
  BY <1>0, <1>1, ThinnedOrdered DEF InOrder
<1>3. ASSUME NEW k \in tx.keys, s[k] = tx.at
      PROVE  Shows(w, k, tx.at) \/ RecentLog(hist, w, tx.at)
  <2>1. /\ Shows(stable, k, tx.at) \/ RecentLog(hist, stable, tx.at)
        /\ (Extends(wal, stable) /\ Shows(stable, k, tx.at)) \/ RecentLog(hist, Queue, tx.at)
    BY <1>3 DEF Sure
  <2>2. CASE w = stable
    BY <2>1, <2>2
  <2>3. CASE w # stable /\ RecentLog(hist, Queue, tx.at)
    BY <1>0, <1>1, <2>3, ThinnedRecent
  <2>4. CASE Extends(wal, stable) /\ Shows(stable, k, tx.at)
    <3>1. PICK n \in Len(stable)..Len(wal) : w = SubSeq(wal, 1, n)
      BY <2>4 DEF PowerWals, Extends
    <3>2. n \in 0..Len(wal) /\ Len(w) = n /\ \A j \in 1..n : w[j] = wal[j]
      BY <1>0, <3>1
    <3>3. Len(stable) <= Len(w)
      BY <1>0, <3>1, <3>2
    <3>4. \A j \in 1..Len(stable) : w[j] = stable[j]
      <4>1. \A j \in 1..Len(stable) : SubSeq(wal, 1, Len(stable))[j] = wal[j]
        BY <1>0, <2>4 DEF Extends
      <4>2. \A j \in 1..Len(stable) : stable[j] = wal[j]
        BY <2>4, <4>1 DEF Extends
      <4> QED
        BY <1>0, <3>2, <3>3, <4>2
    <3> QED
      BY <1>0, <1>1, <2>4, <3>3, <3>4, ShowsMore
  <2> QED
    BY <2>1, <2>2, <2>3, <2>4
<1> QED
  BY <1>2, <1>3 DEF Atomic, Backed, Sure


\* A power loss leaves both snapshots and both WALs the same.
LEMMA LossStep ==
    ASSUME StoreInv, PowerLoss, NEW tx \in txs, tx \in Batch, InOrder(tx), PowerBacked(tx)
    PROVE  PowerBacked(tx)'
<1>1. PICK w \in PowerWals, s \in {snap, stableSnap} :
          /\ wal' = w /\ stable' = w /\ snap' = s /\ stableSnap' = s
          /\ pending' = <<>> /\ log' = <<>> /\ hist' = hist
  BY DEF PowerLoss, MemoryLost
<1>2. TypeOK /\ w \in Seq(Record)
  BY PowerThinned DEF StoreInv, Inv, TypeInv
<1>3. Queue' = w
  <2>1. Queue' = (w \o <<>>) \o <<>>
    BY <1>1 DEF Queue
  <2> QED
    BY <1>2, <2>1, ConcatEmptySeq
<1>4. Atomic(hist, s, w, tx)
  BY <1>2, LossAtomic DEF PowerBacked
<1>5. Extends(w, w)
  BY <1>2, ExtendsItself
<1>6. Sure(hist, w, w, w, s, tx)
  BY <1>4, <1>5 DEF Atomic, Backed, Sure
<1> QED
  BY <1>1, <1>3, <1>6 DEF PowerBacked

\* The step that preserves what a power loss needs.
LEMMA LossInvStep ==
    ASSUME StoreInv, LossInv, TypeOK', DirtyIsRight, [Next]_vars
    PROVE  LossInv'
<1>0. /\ Inv /\ TypeOK /\ BatchInv /\ Bounds /\ Bounds' /\ CleanIsSure /\ NeverFails
      /\ wal \in Seq(Record) /\ Queue \in Seq(Record)
  BY BoundsStep, QueueType DEF LossInv, BatchInv, StoreInv, Inv, TypeInv, TypeOK
<1>1. CleanIsSure' /\ NeverFails'
  BY <1>0, CleanStep, FailsNever
<1>2. ASSUME Reopen, NEW tx \in txs PROVE Backed(hist, snap, wal, tx)
  <2>1. stable = wal
    BY <1>0, <1>2, ReopenedSure
  <2>2. Sure(hist, stable, wal, Queue, snap, tx)
    BY <1>2 DEF LossInv, PowerBacked
  <2> QED
    BY <2>1, <2>2 DEF Sure, Backed
<1>3. BatchInv'
  BY <1>0, <1>2, BatchStep
<1>4. ASSUME NEW tx \in txs' PROVE PowerBacked(tx)'
  <2>1. CASE tx \in txs
    <3>0. tx \in Batch
      BY <1>0, <2>1, KnownBatch
    <3>1. PowerBacked(tx) /\ Threaded(tx) /\ InOrder(tx)
      BY <1>0, <2>1 DEF LossInv, BatchInv, Threaded
    <3>2. CASE PowerLoss
      BY <2>1, <3>0, <3>1, <3>2, LossStep
    <3>3. CASE ~PowerLoss
      <4>1. ASSUME NEW s, Sure(hist, stable, wal, Queue, s, tx)
            PROVE  Sure(hist', stable', wal', Queue', s, tx)
        BY <1>0, <2>1, <3>1, <3>3, <4>1, SureStep
      <4>2. /\ Sure(hist', stable', wal', Queue', snap, tx)
            /\ Sure(hist', stable', wal', Queue', stableSnap, tx)
        BY <3>1, <4>1 DEF PowerBacked
      <4>3. CASE Persist
        <5>1. /\ snap' = captured /\ stableSnap' = stableSnap /\ Whole(hist, captured, tx)
              /\ \A k \in tx.keys : captured[k] = tx.at =>
                    Shows(wal, k, tx.at) \/ RecentLog(hist, Queue, tx.at)
          BY <2>1, <3>0, <3>1, <4>3, PersistBacked DEF Threaded
        <5>2. stable = wal
          BY <1>0, <4>3 DEF Persist, Goto, CleanIsSure
        <5>3. RecentLog(hist, Queue, tx.at) => RecentLog(hist, wal, tx.at)
          BY <1>0, ThinnedAway, FileThinned, ThinnedRecent
        <5>4. Extends(wal, stable)
          BY <1>0, <5>2, ExtendsItself
        <5>5. Sure(hist, stable, wal, Queue, captured, tx)
          BY <5>1, <5>2, <5>3, <5>4 DEF Sure
        <5> QED
          BY <4>1, <4>2, <5>1, <5>5 DEF PowerBacked
      <4>4. CASE ~Persist
        BY <4>2, <4>4, FileKinds DEF PowerBacked
      <4> QED
        BY <4>3, <4>4
    <3> QED
      BY <3>2, <3>3
  <2>2. CASE tx \notin txs
    <3>1. PICK c \in Clients : BatchLog(c)
      BY <2>2, BatchKinds
    <3>2. PICK new \in Batch : /\ txs' = txs \cup {new} /\ new.at = Len(hist) + 1
                               /\ snap' = snap /\ stableSnap' = stableSnap
      BY <3>1, BatchLogs
    <3>3. tx = new /\ Len(hist) \in Nat /\ Len(hist) < tx.at
      BY <1>0, <2>2, <3>2 DEF TypeOK
    <3>4. ~Carries(snap', tx) /\ ~Carries(stableSnap', tx)
      BY <1>0, <3>2, <3>3, BelowBatch DEF Bounds
    <3> QED
      BY <3>4 DEF PowerBacked, Sure, Whole, Carries
  <2> QED
    BY <2>1, <2>2
<1> QED
  BY <1>1, <1>3, <1>4 DEF LossInv

\* Nor any to lose.
LEMMA LossInit == Init => LossInv
<1> SUFFICES ASSUME Init PROVE LossInv
  OBVIOUS
<1>1. txs = {} /\ stable = wal /\ wpc = "collect" /\ ~failed /\ ~dirty
  BY DEF Init
<1> QED
  BY <1>1, BatchInit DEF LossInv, CleanIsSure, NeverFails

\* "replay after a crash applies either all staged writes or none": whatever moment a power
\* loss comes at, whatever of the unsynced WAL it leaves, whichever of the two snapshots it
\* leaves, and whether or not the directory could be fsynced, a store that is opened again
\* has every batch whole (apply_batch, Writer::compact, snapshot::persist,
\* recovery::replay_wal).
THEOREM PowerLossKeepsBatches ==
    ASSUME DirtyIsRight
    PROVE  Spec => []BatchAtomic
<1>1. Init => LossInv
  BY LossInit
<1>2. StoreInv /\ StoreInv' /\ LossInv /\ [Next]_vars => LossInv'
  BY LossInvStep DEF StoreInv, Inv, TypeInv
<1>3. StoreInv /\ LossInv => BatchAtomic
  <2> SUFFICES ASSUME StoreInv, LossInv, NEW m \in Recovered, NEW tx \in txs,
                      NEW k0 \in tx.keys, m[k0] = tx.at, NEW k \in tx.keys
               PROVE  AsOf(m, k, tx.at)
    BY DEF BatchAtomic
  <2>0. TypeOK /\ snap \in MapType /\ stableSnap \in MapType
    BY DEF StoreInv, Inv, TypeInv, TypeOK
  <2>1. PICK s \in {snap, stableSnap}, w \in PowerWals : m = Replay(s, w)
    BY DEF Recovered, Images, DirtyIsRight
  <2>2. w \in Seq(Record) /\ s \in MapType
    BY <2>0, PowerThinned
  <2>3. InOrder(tx) /\ Sure(hist, stable, wal, Queue, s, tx)
    BY DEF LossInv, BatchInv, Threaded, PowerBacked
  <2>4. Atomic(hist, s, w, tx)
    BY <2>0, <2>3, LossAtomic
  <2> QED
    BY <2>0, <2>1, <2>2, <2>4, AtomicIsAsOf
<1> QED
  BY <1>1, <1>2, <1>3, StoreInvariance, PTL DEF Spec

-----------------------------------------------------------------------------
(***************************************************************************)
(* The store its callers see.  Every step of WalStore is a step of         *)
(* DurableStore or changes nothing that it sees; only for Recover does it  *)
(* matter what the files hold.                                             *)
(***************************************************************************)
Waits == [c \in Clients |-> IF cpc[c] = "flush" THEN flushAt[c] ELSE 0]
Mode  == IF wpc = "down" THEN "down" ELSE IF closed THEN "closed" ELSE "open"

\* A flush that waits is queued or taken, and saves some state.
WaitInv == \A c \in Clients : cpc[c] = "flush" => c \in flushes \cup taken /\ flushAt[c] # 0

\* A step that begins, answers and loses no flush, closes nothing and is no crash.
LEMMA SameView ==
    ASSUME UNCHANGED closed, (wpc = "down") <=> (wpc' = "down"),
           \A c \in Clients : /\ (cpc[c] = "flush") <=> (cpc'[c] = "flush")
                              /\ cpc[c] = "flush" => flushAt'[c] = flushAt[c]
    PROVE  Waits' = Waits /\ Mode' = Mode
BY DEF Waits, Mode

\* Nor is one that leaves the clients alone.
LEMMA SameClients ==
    ASSUME UNCHANGED <<closed, cpc, flushAt>>, (wpc = "down") <=> (wpc' = "down")
    PROVE  Waits' = Waits /\ Mode' = Mode
BY SameView

\* What a record that writes one key makes of the map.
LEMMA OneKeyWritten ==
    ASSUME NEW m \in MapType, NEW k \in Keys, NEW v \in Nat
    PROVE  Apply(m, SetRecord(k, v)) = [x \in Keys |-> IF x = k THEN v ELSE m[x]]
BY DEF Apply, SetRecord, Untouched

\* A step that writes one key.
LEMMA WritesOne ==
    ASSUME TypeOK, Mode = "open", NEW k \in Keys, NEW v \in {Missing, Stamp},
           hist' = Append(hist, Apply(Tip, SetRecord(k, v))),
           Waits' = Waits, Mode' = Mode, UNCHANGED <<acked, txs, failed>>
    PROVE  Durable!Write
<1>1. Tip \in MapType /\ v \in Nat
  BY DEF TypeOK, Tip, Stamp, Missing
<1>2. Apply(Tip, SetRecord(k, v)) = [x \in Keys |-> IF x = k THEN v ELSE Tip[x]]
  BY <1>1, OneKeyWritten
<1>3. hist' = Append(hist, [x \in Keys |-> IF x = k THEN v ELSE Durable!Tip[x]])
  BY <1>2 DEF Tip, Durable!Tip
<1>4. v \in {Durable!Missing, Durable!Number}
  BY DEF Missing, Stamp, Durable!Missing, Durable!Number
<1> QED
  BY <1>3, <1>4 DEF Durable!Write, Waits, Mode

\* A step of the files and buffers; an error may be recorded.
LEMMA OnlyFails ==
    ASSUME UNCHANGED <<hist, acked, txs, closed, cpc, flushAt>>,
           failed' = failed \/ failed' = TRUE,
           wpc # "down", wpc' # "down"
    PROVE  Durable!Next \/ UNCHANGED Durable!vars
<1>1. Waits' = Waits /\ Mode' = Mode /\ Mode # "down"
  BY SameClients DEF Mode
<1>2. CASE failed' = failed
  BY <1>1, <1>2 DEF Durable!vars, Waits, Mode
<1>3. CASE failed' = TRUE
  <2>1. Durable!Fail
    BY <1>1, <1>3 DEF Durable!Fail, Waits, Mode
  <2> QED
    BY <2>1 DEF Durable!Next
<1> QED
  BY <1>2, <1>3

\* A client that does not flush goes from one place to another.
LEMMA OnlyMoves ==
    ASSUME UNCHANGED <<hist, acked, txs, closed, failed, flushAt, wpc>>,
           \A c \in Clients : (cpc[c] = "flush") <=> (cpc'[c] = "flush")
    PROVE  UNCHANGED Durable!vars
<1>1. Waits' = Waits /\ Mode' = Mode
  BY SameView
<1> QED
  BY <1>1 DEF Durable!vars, Waits, Mode

-----------------------------------------------------------------------------
\* Steps of a client between the moments its callers can tell apart.
Moves(c) == \/ ClearRemove(c) \/ ClearLog(c) \/ GateEnter(c) \/ ManyLock(c) \/ BatchApply(c)
            \/ GateRefused(c) \/ Release(c) \/ Joined(c)

\* Clients that do not flush, and stay so.
LEMMA ClientMoves ==
    ASSUME TypeOK, NEW c \in Clients, Moves(c) \/ Close(c) \/ Clear(c) \/ BatchLog(c)
    PROVE  /\ UNCHANGED <<flushAt, flushes, taken, failed, acked, wpc>>
           /\ \A d \in Clients : (cpc[d] = "flush") <=> (cpc'[d] = "flush")
<1> USE DEF TypeOK, sharedVars, clientVars, runVars, ghostVars
<1>1. CASE ClearRemove(c)  BY <1>1 DEF ClearRemove
<1>2. CASE ClearLog(c)     BY <1>2 DEF ClearLog
<1>3. CASE GateEnter(c)    BY <1>3 DEF GateEnter
<1>4. CASE ManyLock(c)     BY <1>4 DEF ManyLock
<1>5. CASE BatchApply(c)   BY <1>5 DEF BatchApply
<1>6. CASE GateRefused(c)  BY <1>6 DEF GateRefused
<1>7. CASE Release(c)      BY <1>7 DEF Release
<1>8. CASE Joined(c)       BY <1>8 DEF Joined
<1>9. CASE Close(c)        BY <1>9 DEF Close
<1>10. CASE Clear(c)       BY <1>10 DEF Clear
<1>11. CASE BatchLog(c)    BY <1>11 DEF BatchLog
<1> QED
  BY <1>1, <1>2, <1>3, <1>4, <1>5, <1>6, <1>7, <1>8, <1>9, <1>10, <1>11 DEF Moves

\* Flushes that wait.
LEMMA WaitStep ==
    ASSUME StoreInv, WaitInv, [Next]_vars
    PROVE  WaitInv'
<1> USE DEF WaitInv
<1>0. TypeOK /\ Len(hist) \in Nat /\ Len(hist) # 0
  BY DEF StoreInv, Inv, TypeInv, TypeOK
<1>1. CASE UNCHANGED <<cpc, flushAt, flushes, taken>>
  BY <1>1
<1>2. ASSUME NEW c \in Clients, Moves(c) \/ Close(c) \/ Clear(c) \/ BatchLog(c)
      PROVE  WaitInv'
  BY <1>0, <1>2, ClientMoves
<1>3. ASSUME NEW c \in Clients, Set(c) \/ Delete(c) \/ ManyApply(c)
      PROVE  UNCHANGED <<cpc, flushAt, flushes, taken>>
  BY <1>3 DEF Set, Delete, Mutate, ManyApply, sharedVars, clientVars, runVars
<1>4. ASSUME NEW c \in Clients, Flush(c) PROVE WaitInv'
  BY <1>0, <1>4 DEF Flush, TypeOK, runVars
<1>5. CASE Collect
  <2>1. taken = {}
    BY <1>5 DEF StoreInv, PipeInv, TakenUrgent, Collect, Goto
  <2> QED
    BY <1>5, <2>1 DEF Collect, clientVars
<1>6. ASSUME NEW c \in Clients, Ack(c) PROVE WaitInv'
  BY <1>0, <1>6 DEF Ack, TypeOK, sharedVars
<1>7. CASE Kill \/ PowerLoss
  BY <1>7 DEF Kill, PowerLoss, MemoryLost, ClientIdle
<1>8. CASE Reopen
  BY <1>8 DEF Reopen, clientVars
<1>9. CASE WriterStep /\ ~Collect /\ ~\E c \in Clients : Ack(c)
  <2>1. UNCHANGED <<cpc, flushAt, flushes, taken>>
    BY <1>9 DEF WriterStep, Write, HoldWrite, StrictSync, BarrierSync, TimedSync,
       SyncStep, AcksDone, CompactStart, CompactGate, CompactTake, CompactWrite,
       CompactStrictSync, Capture, CompactSync, CompactGivesUp, Persist, PersistFails, DirSync,
       Truncate, TruncateSync, Sweep, Loop, clientVars, sharedVars, runVars
  <2> QED
    BY <1>1, <2>1
<1>10. CASE UNCHANGED vars
  BY <1>10 DEF vars, clientVars, sharedVars, runVars
<1> QED
  BY <1>1, <1>2, <1>3, <1>4, <1>5, <1>6, <1>7, <1>8, <1>9, <1>10
     DEF Next, ClientCall, ClientStep, Moves

-----------------------------------------------------------------------------
\* What the files hold: nothing older than the durable point, and every batch whole.
Recoverable(m) ==
    /\ Recent(hist, m, acked)
    /\ \A tx \in txs : Carries(m, tx) => \A k \in tx.keys : m[k] \in Since(hist, k, tx.at)

\* The last moment key k was as it is in m.
LEMMA LatestMoment ==
    ASSUME NEW h \in Seq(MapType), NEW k \in Keys, NEW v, NEW i \in Nat, v \in Since(h, k, i)
    PROVE  \E j \in i..Len(h) : /\ h[j][k] = v
                                /\ \A x \in 1..Len(h) : h[x][k] = v => x <= j
<1> DEFINE T == {x \in 1..Len(h) : h[x][k] = v}
<1>1. Len(h) \in Nat
  OBVIOUS
<1>2. PICK x \in 1..Len(h) : x >= i /\ h[x][k] = v
  BY DEF Since
<1>3. T \in SUBSET (1..Len(h)) /\ T # {}
  BY <1>2
<1>4. PICK j \in T : \A y \in T : y <= j
  BY <1>1, <1>3, IndexMax
<1>5. j \in 1..Len(h) /\ x <= j /\ h[j][k] = v
  BY <1>2, <1>4
<1>6. j \in i..Len(h)
  BY <1>1, <1>2, <1>5
<1> QED
  BY <1>4, <1>5, <1>6

\* Opening such files is what DurableStore calls recovery.
LEMMA ReopenRecovers ==
    ASSUME StoreInv, WaitInv, Reopen, Recoverable(Replay(snap, wal))
    PROVE  Durable!Recover
<1> DEFINE m == Replay(snap, wal)
<1>0. /\ TypeOK /\ hist \in Seq(MapType) /\ Len(hist) \in Nat /\ acked \in Nat
      /\ m \in MapType /\ txs \subseteq Batch
  BY ReplayType DEF StoreInv, Inv, TypeInv, TypeOK, Batch
<1>1. m \in [Keys -> Nat] /\ hist' = Append(hist, m) /\ UNCHANGED <<acked, txs>>
  BY <1>0 DEF Reopen, MapType, Value
<1> HIDE DEF m
<1>2. \A k \in Keys : m[k] \in Since(hist, k, acked)
  BY <1>1 DEF Recoverable, Recent, Untouched, m
<1> DEFINE Latest(k, j) == \A x \in 1..Len(hist) : hist[x][k] = m[k] => x <= j
<1>3. \A k \in Keys : \E j \in acked..Len(hist) : hist[j][k] = m[k] /\ Latest(k, j)
  BY <1>0, <1>2, LatestMoment
<1> DEFINE at == [k \in Keys |-> CHOOSE j \in acked..Len(hist) :
                                     hist[j][k] = m[k] /\ Latest(k, j)]
<1>4. \A k \in Keys : /\ at[k] \in acked..Len(hist)
                      /\ hist[at[k]][k] = m[k] /\ Latest(k, at[k])
  BY <1>3
<1>5. at \in [Keys -> acked..Len(hist)]
  BY <1>4
<1> HIDE DEF at
<1> DEFINE found == [k \in Keys |-> hist[at[k]][k]]
<1>6. found = m
  BY <1>1, <1>4
<1>7. ASSUME NEW b \in txs, NEW k0 \in b.keys, found[k0] = b.at, NEW k \in b.keys
      PROVE  at[k] >= b.at
  <2>1. b \in Batch /\ b.at \in Nat /\ k \in Keys
    BY <1>0 DEF Batch
  <2>2. Carries(m, b)
    BY <1>6, <1>7 DEF Carries
  <2>3. m[k] \in Since(hist, k, b.at)
    BY <2>2 DEF Recoverable, m
  <2>4. PICK x \in 1..Len(hist) : x >= b.at /\ hist[x][k] = m[k]
    BY <2>3 DEF Since
  <2>5. x <= at[k] /\ at[k] \in acked..Len(hist)
    BY <1>4, <2>1, <2>4
  <2> QED
    BY <1>0, <2>1, <2>4, <2>5
<1>8. /\ hist' = Append(hist, found)
      /\ \A b \in txs : (\E k \in b.keys : found[k] = b.at) =>
                            \A k \in b.keys : at[k] >= b.at
  BY <1>1, <1>6, <1>7
<1>9. cpc = ClientIdle /\ cpc' = cpc
  BY DEF Reopen, StoreInv, Inv, LockInv, DownIsIdle, clientVars
<1>10. Waits = Durable!Nobody /\ Waits' = Waits
  BY <1>9 DEF Waits, Durable!Nobody, ClientIdle
<1>11. Mode \in {"closed", "down"} /\ Mode' = "open" /\ failed' = FALSE
  <2>1. wpc = "done" => closed
    BY DEF StoreInv, Inv, DrainInv, DoneClosed, ClosingDrains
  <2> QED
    BY <2>1 DEF Mode, Reopen
<1> HIDE DEF found
<1>12. \E f \in [Keys -> acked..Len(hist)] :
          LET g == [k \in Keys |-> hist[f[k]][k]] IN
          /\ hist' = Append(hist, g)
          /\ \A b \in txs : (\E k \in b.keys : g[k] = b.at) => \A k \in b.keys : f[k] >= b.at
  BY <1>5, <1>8 DEF found
<1> QED
  BY <1>1, <1>10, <1>11, <1>12 DEF Durable!Recover, Waits, Mode

\* Every other step.
LEMMA StepImplements ==
    ASSUME StoreInv, WaitInv, [Next]_vars, Reopen => Recoverable(Replay(snap, wal))
    PROVE  [Durable!Next]_(Durable!vars)
<1> SUFFICES Durable!Next \/ UNCHANGED Durable!vars
  OBVIOUS
<1>0. /\ TypeOK /\ LockInv /\ Tip \in MapType /\ Len(hist) \in Nat /\ Len(hist) >= 1
      /\ NoWrites = Torn
  BY DEF StoreInv, Inv, TypeInv, TypeOK, Tip, NoWrites
<1>1. ASSUME NEW c \in Clients, NEW k \in Keys, NEW v \in {Missing, Stamp},
             Mutate(c, SetRecord(k, v))
      PROVE  Durable!Write
  BY <1>0, <1>1, WritesOne, SameClients
     DEF Mutate, Admitted, Up, Mode, clientVars, sharedVars
<1>2. ASSUME NEW c \in Clients, ManyApply(c) PROVE Durable!Write
  <2>1. PICK k \in Keys : hist' = Append(hist, Apply(Tip, SetRecord(k, Stamp)))
    BY <1>2 DEF ManyApply, Touched
  <2>2. ~closed /\ wpc # "down"
    BY <1>2 DEF LockInv, ManyApply, StoreInv, Inv, ClosedIsFree, LockFree, DownIsIdle, ClientIdle
  <2>3. Mode = "open" /\ UNCHANGED <<acked, txs, failed, closed, cpc, flushAt, wpc>>
    BY <1>2, <2>2 DEF ManyApply, Mode, sharedVars
  <2> QED
    BY <1>0, <2>1, <2>3, WritesOne, SameClients
<1>3. CASE Sweep
  <2>1. PICK k \in Keys : hist' = Append(hist, Apply(Tip, SetRecord(k, Missing)))
    BY <1>3 DEF Sweep, Present, DeleteRecord
  <2>2. Mode = "open" /\ wpc' # "down" /\ UNCHANGED <<acked, txs, failed, closed, cpc, flushAt>>
    BY <1>3 DEF Sweep, Mode, sharedVars, clientVars
  <2>3. wpc # "down"
    BY <1>3 DEF Sweep
  <2>4. Waits' = Waits /\ Mode' = Mode
    BY <2>2, <2>3, SameClients
  <2>5. Durable!Write
    BY <1>0, <2>1, <2>2, <2>4, WritesOne
  <2> QED
    BY <2>5 DEF Durable!Next
<1>4. ASSUME NEW c \in Clients, Clear(c) PROVE Durable!Clear
  <2>1. /\ Mode = "open" /\ hist' = Append(hist, NoKeys) /\ UNCHANGED <<closed, txs>>
    BY <1>4 DEF Clear, Admitted, Up, Mode, sharedVars
  <2>2. /\ UNCHANGED <<failed, acked>> /\ Waits' = Waits /\ Mode' = Mode
    BY <1>0, <1>4, <2>1, ClientMoves, SameView
  <2> QED
    BY <2>1, <2>2 DEF Durable!Clear, Waits, Mode, NoKeys, Missing, Durable!Missing
<1>5. ASSUME NEW c \in Clients, BatchLog(c) PROVE Durable!Batch
  <2>1. /\ Mode = "open" /\ UNCHANGED closed
    BY <1>5 DEF BatchLog, Admitted, Up, Mode, sharedVars
  <2>2. /\ UNCHANGED <<failed, acked>> /\ Waits' = Waits /\ Mode' = Mode
    BY <1>0, <1>5, <2>1, ClientMoves, SameView
  <2>3. PICK shape \in BatchShapes :
            /\ hist' = Append(hist, Apply(Tip, BatchRecord(shape, Stamp)))
            /\ txs' = txs \cup {[at |-> Stamp, keys |-> DOMAIN shape]}
    BY <1>5 DEF BatchLog
  <2>4. PICK K \in (SUBSET Keys) \ {{}} : shape \in [K -> BOOLEAN]
    BY WalStoreAssumption
  <2> DEFINE sets == {k \in K : shape[k]}
  <2>5. Apply(Tip, BatchRecord(shape, Stamp)) =
            [k \in Keys |-> IF k \in sets THEN Stamp ELSE IF k \in K THEN Missing ELSE Tip[k]]
    BY <1>0, <2>4 DEF Apply, BatchRecord, Untouched, Missing, Stamp
  <2>6. DOMAIN shape = K /\ sets \in SUBSET K
    BY <2>4
  <2> HIDE DEF sets
  <2> QED
    BY <2>1, <2>2, <2>3, <2>4, <2>5, <2>6
       DEF Durable!Batch, Waits, Mode, Durable!Number, Durable!Tip, Durable!Missing, Stamp, Tip,
           Missing
<1>6. ASSUME NEW c \in Clients, Flush(c) PROVE Durable!Flush(c)
  <2>1. /\ Mode = "open" /\ Mode' = Mode /\ UNCHANGED <<hist, acked, txs, failed>>
        /\ cpc[c] = "idle"
        /\ flushAt' = [flushAt EXCEPT ![c] = Len(hist)] /\ cpc' = [cpc EXCEPT ![c] = "flush"]
    BY <1>6 DEF Flush, Up, Mode, ghostVars
  <2>2. Waits[c] = 0 /\ Waits' = [Waits EXCEPT ![c] = Len(hist)]
    BY <1>0, <2>1 DEF Waits, TypeOK
  <2> QED
    BY <2>1, <2>2 DEF Durable!Flush, Waits, Mode
<1>7. ASSUME NEW c \in Clients, Close(c) PROVE Durable!Close \/ UNCHANGED Durable!vars
  <2>1. /\ wpc # "down" /\ UNCHANGED <<hist, acked, txs, failed, wpc, flushAt>> /\ closed'
    BY <1>7 DEF Close, Up, ghostVars
  <2>2. Waits' = Waits
    BY <1>0, <1>7, ClientMoves DEF Waits
  <2>3. Mode' = "closed" /\ Mode \in {"open", "closed"}
    BY <2>1 DEF Mode
  <2> QED
    BY <2>1, <2>2, <2>3 DEF Durable!Close, Durable!vars, Waits, Mode
<1>8. ASSUME NEW c \in Clients, Moves(c) PROVE UNCHANGED Durable!vars
  <2>1. UNCHANGED <<hist, txs, closed>>
    BY <1>8 DEF Moves, ClearRemove, ClearLog, GateEnter, ManyLock, BatchApply, GateRefused,
       Release, Joined, sharedVars, ghostVars
  <2> QED
    BY <1>0, <1>8, <2>1, ClientMoves, OnlyMoves
<1>9. ASSUME NEW c \in Clients, Ack(c) PROVE Durable!Answer(c) \/ Durable!Refuse(c)
  <2>1. /\ UNCHANGED <<hist, txs, failed, wpc, closed, flushAt>> /\ c \in taken
        /\ cpc' = [cpc EXCEPT ![c] = "idle"]
        /\ acked' = IF ~failed /\ flushAt[c] > acked THEN flushAt[c] ELSE acked
    BY <1>9 DEF Ack, sharedVars
  <2>2. cpc[c] = "flush" /\ flushAt[c] # 0
    BY <2>1 DEF StoreInv, Inv, LockInv, FlushersWait, WaitInv
  <2>3. Waits[c] = flushAt[c] /\ Waits' = [Waits EXCEPT ![c] = 0] /\ Mode' = Mode
    BY <1>0, <2>1, <2>2 DEF Waits, Mode, TypeOK
  <2> QED
    BY <2>1, <2>2, <2>3 DEF Durable!Answer, Durable!Refuse, Waits, Mode
<1>10. CASE AcksDone
  <2>1. /\ UNCHANGED <<hist, txs, failed, closed, cpc, flushAt>>
        /\ wpc # "down" /\ wpc' # "down" /\ taken = {}
        /\ acked' = IF closing /\ ~failed THEN Len(hist) ELSE acked
    BY <1>10 DEF AcksDone, sharedVars, clientVars
  <2>2. Waits' = Waits /\ Mode' = Mode
    BY <2>1, SameClients
  <2>3. CASE closing /\ ~failed
    <3>1. closed /\ flushes = {}
      BY <2>3 DEF StoreInv, Inv, DrainInv, ClosingDrains
    <3>2. Mode = "closed" /\ Waits = Durable!Nobody
      BY <2>1, <3>1 DEF Mode, Waits, Durable!Nobody, WaitInv
    <3>3. Durable!Drained
      BY <2>1, <2>2, <2>3, <3>2 DEF Durable!Drained, Waits, Mode
    <3> QED
      BY <3>3 DEF Durable!Next
  <2>4. CASE ~(closing /\ ~failed)
    BY <2>1, <2>2, <2>4 DEF Durable!vars, Waits, Mode
  <2> QED
    BY <2>3, <2>4
<1>11. CASE Kill \/ PowerLoss
  <2>1. Mode' = "down" /\ Waits' = Durable!Nobody /\ failed' = FALSE /\ UNCHANGED <<hist, acked, txs>>
    BY <1>11 DEF Kill, PowerLoss, MemoryLost, Mode, Waits, Durable!Nobody, ClientIdle
  <2>2. Durable!Crash
    BY <2>1 DEF Durable!Crash, Waits, Mode
  <2> QED
    BY <2>2 DEF Durable!Next
<1>12. CASE Reopen
  BY <1>12, ReopenRecovers DEF Durable!Next
<1>13. CASE WriterStep /\ ~AcksDone /\ ~Sweep /\ ~\E c \in Clients : Ack(c)
  <2>1. UNCHANGED <<hist, acked, txs, closed, cpc, flushAt>>
    BY <1>13 DEF WriterStep, Collect, Write, HoldWrite, StrictSync, BarrierSync, TimedSync,
       SyncStep, CompactStart, CompactGate, CompactTake, CompactWrite,
       CompactStrictSync, Capture, CompactSync, CompactGivesUp, Persist, PersistFails, DirSync,
       Truncate, TruncateSync, Loop, clientVars, sharedVars, ghostVars
  <2>2. failed' = failed \/ failed' = TRUE
    BY <1>13 DEF WriterStep, Collect, Write, HoldWrite, StrictSync, BarrierSync, TimedSync,
       SyncStep, Sync, WritePending, WriteOk, WriteFails, CompactStart, CompactGate, CompactTake,
       CompactWrite, CompactStrictSync, Capture, CompactSync, CompactGivesUp, Persist,
       PersistFails, DirSync, Truncate, TruncateSync, Loop, sharedVars
  <2>3. wpc # "down" /\ wpc' # "down"
    BY <1>13 DEF WriterStep, Collect, Write, HoldWrite, StrictSync, BarrierSync, TimedSync,
       SyncStep, WritePending, AfterWrite, Goto, CompactStart, CompactGate, CompactTake,
       CompactWrite, CompactStrictSync, Capture, CompactSync, CompactGivesUp, Persist,
       PersistFails, DirSync, Truncate, TruncateSync, Loop
  <2> QED
    BY <2>1, <2>2, <2>3, OnlyFails
<1>14. CASE UNCHANGED vars
  BY <1>14, OnlyMoves DEF vars, clientVars, sharedVars, ghostVars
<1>15. ASSUME NEW c \in Clients, Set(c) \/ Delete(c) PROVE Durable!Write
  <2>1. \E k \in Keys, v \in {Missing, Stamp} : Mutate(c, SetRecord(k, v))
    BY <1>15 DEF Set, Delete, DeleteRecord, Present
  <2> QED
    BY <1>1, <2>1
<1> QED
  BY <1>2, <1>3, <1>4, <1>5, <1>6, <1>7, <1>8, <1>9, <1>10, <1>11, <1>12, <1>13, <1>14, <1>15
     DEF Next, ClientCall, ClientStep, Moves, Durable!Next

-----------------------------------------------------------------------------
\* A log is thinned to itself, and is one a power loss may leave.
LEMMA WalItself ==
    ASSUME TypeOK
    PROVE  wal \in Seq(Record) /\ Thinned(Queue, wal) /\ wal \in PowerWals
<1>1. wal \in Seq(Record) /\ Len(wal) \in Nat
  BY DEF TypeOK
<1>2. Thinned(Queue, wal)
  BY <1>1, ThinnedPrefix, FileThinned
<1>3. SubSeq(wal, 1, Len(wal)) = wal
  BY <1>1
<1>4. Len(stable) <= Len(wal) => Len(wal) \in Len(stable)..Len(wal)
  BY <1>1 DEF TypeOK
<1>5. wal \in Prefixes(wal)
  <2>1. Len(wal) \in 0..Len(wal)
    BY <1>1
  <2>2. SubSeq(wal, 1, Len(wal)) \in Prefixes(wal)
    BY <2>1, Zenon DEF Prefixes
  <2> QED
    BY <1>3, <2>2
<1> QED
  BY <1>1, <1>2, <1>3, <1>4, <1>5 DEF PowerWals

\* Without power losses.
LEMMA KillRecoverable ==
    ASSUME StoreInv, FileRecent, KillInv
    PROVE  Recoverable(Replay(snap, wal))
<1>0. TypeOK /\ snap \in MapType /\ Queue \in Seq(Record)
  BY QueueType DEF StoreInv, Inv, TypeInv, TypeOK
<1>1. ASSUME NEW tx \in txs, Carries(Replay(snap, wal), tx), NEW k \in tx.keys
      PROVE  Replay(snap, wal)[k] \in Since(hist, k, tx.at)
  <2>1. tx \in Batch /\ InOrder(tx) /\ KillBacked(tx)
    BY <1>1, KnownBatch DEF KillInv, BatchInv, Threaded
  <2>2. Ordered(hist, wal, tx)
    BY <1>0, <2>1, WalItself, ThinnedOrdered DEF InOrder
  <2>3. RecentLog(hist, Queue, tx.at) => RecentLog(hist, wal, tx.at)
    BY <1>0, WalItself, ThinnedRecent
  <2>4. Atomic(hist, snap, wal, tx)
    BY <2>1, <2>2, <2>3 DEF Atomic, Backed, KillBacked
  <2> QED
    BY <1>0, <1>1, <2>1, <2>4, WalItself, BatchRecovers
<1> QED
  BY <1>1 DEF Recoverable, FileRecent

\* Without kills.
LEMMA LossRecoverable ==
    ASSUME StoreInv, PowerInv, LossInv
    PROVE  Recoverable(Replay(snap, wal))
<1>0. TypeOK /\ snap \in MapType /\ wal \in PowerWals
  BY WalItself DEF StoreInv, Inv, TypeInv, TypeOK
<1>1. Recent(hist, Replay(snap, wal), acked)
  BY <1>0, PowerRecent DEF PowerInv
<1>2. ASSUME NEW tx \in txs, Carries(Replay(snap, wal), tx), NEW k \in tx.keys
      PROVE  Replay(snap, wal)[k] \in Since(hist, k, tx.at)
  <2>1. tx \in Batch /\ InOrder(tx) /\ Sure(hist, stable, wal, Queue, snap, tx)
    BY <1>2, KnownBatch DEF LossInv, BatchInv, Threaded, PowerBacked
  <2>2. Atomic(hist, snap, wal, tx)
    BY <1>0, <2>1, LossAtomic
  <2> QED
    BY <1>0, <1>2, <2>1, <2>2, WalItself, BatchRecovers
<1> QED
  BY <1>1, <1>2 DEF Recoverable

\* At first nothing waits.
LEMMA InitImplements == Init => WaitInv /\ Durable!Init
<1> SUFFICES ASSUME Init PROVE WaitInv /\ Durable!Init
  OBVIOUS
<1>1. Waits = Durable!Nobody /\ Mode = "open"
  BY DEF Init, Waits, Mode, Durable!Nobody, ClientIdle
<1>2. WaitInv
  BY DEF Init, WaitInv, ClientIdle
<1> QED
  BY <1>1, <1>2 DEF Init, Durable!Init, Waits, Mode, NoKeys, Missing, Durable!Missing

(***************************************************************************)
(* The store is a DurableStore as long as only the process can be killed,  *)
(* whatever I/O fails: what its callers see of the client threads, the     *)
(* writer, compactions, kills and reopenings is a map whose flushes,       *)
(* closes and transactions keep their promises.                            *)
(***************************************************************************)
THEOREM KillsImplementDurable ==
    ASSUME "power" \notin CrashKinds
    PROVE  Spec => ImplementsDurable
<1>1. Init => Durable!Init /\ WaitInv /\ FileRecent /\ KillInv
  BY InitImplements, FileRecentInit, KillInit
<1>2. StoreInv /\ StoreInv' /\ WaitInv /\ FileRecent /\ KillInv /\ [Next]_vars =>
          WaitInv' /\ FileRecent' /\ KillInv'
  BY WaitStep, FileRecentStep, KillStep DEF StoreInv, Inv, TypeInv
<1>3. StoreInv /\ WaitInv /\ FileRecent /\ KillInv /\ [Next]_vars =>
          [Durable!Next]_(Durable!vars)
  BY StepImplements, KillRecoverable
<1> QED
  BY <1>1, <1>2, <1>3, StoreInvariance, PTL DEF Spec, ImplementsDurable, Durable!Spec

(***************************************************************************)
(* It is one too as long as only the power can fail, a directory can be    *)
(* fsynced, and no store that failed is closed and opened again.           *)
(***************************************************************************)
THEOREM PowerLossImplementsDurable ==
    ASSUME PowerOnly
    PROVE  Spec => ImplementsDurable
<1>1. Init => Durable!Init /\ WaitInv /\ PowerInv /\ LossInv
  BY InitImplements, PowerInit, LossInit
<1>2. StoreInv /\ StoreInv' /\ WaitInv /\ PowerInv /\ LossInv /\ [Next]_vars =>
          WaitInv' /\ PowerInv' /\ LossInv'
  BY WaitStep, PowerRecentStep, CleanStep, FailsNever, LossInvStep
     DEF PowerInv, StoreInv, Inv, TypeInv, PowerOnly
<1>3. StoreInv /\ WaitInv /\ PowerInv /\ LossInv /\ [Next]_vars =>
          [Durable!Next]_(Durable!vars)
  BY StepImplements, LossRecoverable
<1> QED
  BY <1>1, <1>2, <1>3, StoreInvariance, PTL DEF Spec, ImplementsDurable, Durable!Spec
=============================================================================
