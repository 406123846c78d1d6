----------------------------- MODULE KVRecords -----------------------------
(***************************************************************************)
(* The records of the write-ahead log and of the snapshot, and what        *)
(* replaying them does to the map (record.rs, snapshot.rs,                 *)
(* store/recovery.rs).                                                     *)
(*                                                                         *)
(* A record is the set of key writes it stands for: for each key its new   *)
(* contents, or Untouched.  Set and SetTtl touch one key, Delete writes    *)
(* Missing to one key, Clear writes Missing to every key, and a Batch      *)
(* touches the keys of its sub-operations.  Values are                     *)
(* numbers; the modules that use this one give every write a fresh number, *)
(* so that a recovered value tells which write it came from.               *)
(***************************************************************************)
EXTENDS Integers, Sequences, FiniteSets

CONSTANT Keys

Missing   == 0
Untouched == -1
Value     == Nat

MapType == [Keys -> Value]
NoKeys  == [k \in Keys |-> Missing]

Record == [Keys -> Value \cup {Untouched}]
Touched(rec) == {k \in Keys : rec[k] # Untouched}

SetRecord(k, v)   == [x \in Keys |-> IF x = k THEN v ELSE Untouched]
DeleteRecord(k)   == SetRecord(k, Missing)
ClearRecord       == [k \in Keys |-> Missing]

\* A batch gives its keys one new value each, or deletes them: shape[k] says which.
BatchRecord(shape, v) ==
    [k \in Keys |-> IF k \notin DOMAIN shape THEN Untouched
                    ELSE IF shape[k] THEN v ELSE Missing]

(***************************************************************************)
(* The bytes a write that failed or was cut short leaves behind: decode    *)
(* reports NeedMore or Corrupt there and nothing after them is ever read.  *)
(* No operation logs a record that touches no key (apply_batch returns     *)
(* early on an empty one), so that record is free to stand for them.       *)
(***************************************************************************)
Torn == [k \in Keys |-> Untouched]

Apply(m, rec) == [k \in Keys |-> IF rec[k] # Untouched THEN rec[k] ELSE m[k]]

(***************************************************************************)
(* Replay.  The loop of replay_wal applies records in order and stops at   *)
(* the first one it cannot decode.  What that leaves under a key is the    *)
(* last readable write to it, or what the snapshot had; stated so, without *)
(* recursion, the provers can use it.  KVRecordsMC checks this definition  *)
(* against the loop.                                                       *)
(***************************************************************************)
\* Mutant: replay skips the unreadable record and goes on behind it.
ReadableSkipsTorn(recs) == {i \in 1..Len(recs) : recs[i] # Torn}

Readable(recs) == {i \in 1..Len(recs) : \A j \in 1..i : recs[j] # Torn}

IsLastWrite(recs, k, i) ==
    /\ i \in Readable(recs)
    /\ recs[i][k] # Untouched
    /\ \A j \in Readable(recs) : recs[j][k] # Untouched => j <= i

\* Mutant: replay does not overwrite what the snapshot holds.
ReplayKeepsOld(base, recs) ==
    [k \in Keys |->
        IF base[k] = Missing /\ \E i \in 1..Len(recs) : IsLastWrite(recs, k, i)
        THEN recs[CHOOSE i \in 1..Len(recs) : IsLastWrite(recs, k, i)][k]
        ELSE base[k]]

Replay(base, recs) ==
    [k \in Keys |->
        IF \E i \in 1..Len(recs) : IsLastWrite(recs, k, i)
        THEN recs[CHOOSE i \in 1..Len(recs) : IsLastWrite(recs, k, i)][k]
        ELSE base[k]]

\* Mutant: the file is not cut.
WholeLen(recs) == Len(recs)

\* replay_wal cuts the file after the last record it could read.
ReadableLen(recs)    == Cardinality(Readable(recs))
ReadablePrefix(recs) == SubSeq(recs, 1, ReadableLen(recs))

(***************************************************************************)
(* A snapshot captured while mutations go on: key k has what it had after  *)
(* cut[k] records of the log.                                              *)
(***************************************************************************)
Fuzzy(base, recs, cut) ==
    [k \in Keys |-> Replay(base, SubSeq(recs, 1, cut[k]))[k]]

Prefixes(recs) == {SubSeq(recs, 1, n) : n \in 0..Len(recs)}
=============================================================================
