-------------------------- MODULE KVRecords_proofs --------------------------
(***************************************************************************)
(* What replaying a log of records does, for every set of keys and every   *)
(* log: the facts store.rs relies on when it opens a store from a snapshot *)
(* and a WAL that overlap.                                                 *)
(***************************************************************************)
EXTENDS KVRecords, FiniteSetTheorems, WellFoundedInduction, TLAPS

\* A non-empty set of naturals has a smallest element.
LEMMA NatMin ==
    ASSUME NEW T, T \subseteq Nat, T # {}
    PROVE  \E x \in T : \A y \in T : x <= y
<1>1. PICK x \in T : \A y \in T : ~ (<<y, x>> \in OpToRel(<, Nat))
  BY NatLessThanWellFounded, WFMin
<1>2. ASSUME NEW y \in T PROVE x <= y
  <2>1. x \in Nat /\ y \in Nat
    OBVIOUS
  <2>2. ~ (y < x)
    BY <1>1, <2>1 DEF OpToRel
  <2> QED
    BY <2>1, <2>2
<1> QED
  BY <1>1, <1>2

\* A non-empty set of positions of a sequence has a largest element.
LEMMA IndexMax ==
    ASSUME NEW n \in Nat, NEW T \in SUBSET (1..n), T # {}
    PROVE  \E x \in T : \A y \in T : y <= x
<1> DEFINE U == {n - x : x \in T}
<1>1. U \subseteq Nat /\ U # {}
  <2>1. \A x \in T : n - x \in Nat
    OBVIOUS
  <2> QED
    BY <2>1
<1>2. PICK u \in U : \A v \in U : u <= v
  BY <1>1, NatMin
<1>3. PICK x \in T : u = n - x
  OBVIOUS
<1>4. ASSUME NEW y \in T PROVE y <= x
  <2>1. n - x <= n - y
    BY <1>2, <1>3
  <2> QED
    BY <2>1
<1> QED
  BY <1>4

-----------------------------------------------------------------------------
\* If some readable record touches a key, one of them is the last to do so.
LEMMA LastWriteExists ==
    ASSUME NEW recs \in Seq(Record), NEW k \in Keys,
           NEW i \in Readable(recs), recs[i][k] # Untouched
    PROVE  \E j \in 1..Len(recs) : IsLastWrite(recs, k, j)
<1> DEFINE T == {j \in Readable(recs) : recs[j][k] # Untouched}
<1>1. T \in SUBSET (1..Len(recs)) /\ T # {} /\ Len(recs) \in Nat
  BY DEF Readable
<1>2. PICK j \in T : \A x \in T : x <= j
  BY <1>1, IndexMax
<1> QED
  BY <1>1, <1>2 DEF IsLastWrite

\* Two last writes to a key are the same record.
LEMMA LastWriteUnique ==
    ASSUME NEW recs \in Seq(Record), NEW k \in Keys,
           NEW i \in 1..Len(recs), NEW j \in 1..Len(recs),
           IsLastWrite(recs, k, i), IsLastWrite(recs, k, j)
    PROVE  i = j
<1>1. i <= j /\ j <= i
  BY DEF IsLastWrite
<1> QED
  BY <1>1

\* What Replay leaves under a key that has a last write.
LEMMA ReplayLast ==
    ASSUME NEW base, NEW recs \in Seq(Record), NEW k \in Keys,
           NEW i \in 1..Len(recs), IsLastWrite(recs, k, i)
    PROVE  Replay(base, recs)[k] = recs[i][k]
<1> DEFINE c == CHOOSE j \in 1..Len(recs) : IsLastWrite(recs, k, j)
<1>1. c \in 1..Len(recs) /\ IsLastWrite(recs, k, c)
  OBVIOUS
<1>2. c = i
  BY <1>1, LastWriteUnique
<1>3. Replay(base, recs)[k] = recs[c][k]
  BY DEF Replay
<1> QED
  BY <1>2, <1>3

\* What Replay leaves under a key no readable record touches.
LEMMA ReplayUntouched ==
    ASSUME NEW base, NEW recs \in Seq(Record), NEW k \in Keys,
           \A i \in Readable(recs) : recs[i][k] = Untouched
    PROVE  Replay(base, recs)[k] = base[k]
BY DEF Replay, IsLastWrite

\* Replaying a log over a map gives a map.
LEMMA ReplayType ==
    ASSUME NEW base \in MapType, NEW recs \in Seq(Record)
    PROVE  Replay(base, recs) \in MapType
<1>1. ASSUME NEW k \in Keys PROVE Replay(base, recs)[k] \in Value
  <2>1. CASE \E i \in 1..Len(recs) : IsLastWrite(recs, k, i)
    <3>1. PICK i \in 1..Len(recs) : IsLastWrite(recs, k, i)
      BY <2>1
    <3>2. recs[i] \in Record /\ recs[i][k] # Untouched
      BY <3>1 DEF IsLastWrite
    <3> QED
      BY <3>1, <3>2, ReplayLast DEF Record
  <2>2. CASE ~ \E i \in 1..Len(recs) : IsLastWrite(recs, k, i)
    BY <2>2 DEF Replay, MapType
  <2> QED
    BY <2>1, <2>2
<1> QED
  BY <1>1 DEF Replay, MapType

-----------------------------------------------------------------------------
\* The readable records are those before the first torn one.
LEMMA ReadableShape ==
    ASSUME NEW recs \in Seq(Record)
    PROVE  /\ ReadableLen(recs) \in 0..Len(recs)
           /\ Readable(recs) = 1..ReadableLen(recs)
           /\ ReadableLen(recs) < Len(recs) => recs[ReadableLen(recs) + 1] = Torn
           /\ (\A i \in 1..Len(recs) : recs[i] # Torn) => ReadableLen(recs) = Len(recs)
<1> DEFINE T == {i \in 1..Len(recs) : recs[i] = Torn}
<1>0. Len(recs) \in Nat
  OBVIOUS
<1>1. CASE T = {}
  <2>1. Readable(recs) = 1..Len(recs)
    BY <1>1 DEF Readable
  <2>2. Cardinality(1..Len(recs)) = Len(recs)
    <3> DEFINE n == Len(recs)
    <3>1. n \in Nat
      BY <1>0
    <3> HIDE DEF n
    <3>2. Cardinality(1..n) = IF 1 > n THEN 0 ELSE n - 1 + 1
      BY <3>1, FS_Interval
    <3>3. Cardinality(1..n) = n
      BY <3>1, <3>2
    <3> QED
      BY <3>3 DEF n
  <2> QED
    BY <2>1, <2>2, <1>0 DEF ReadableLen
<1>2. CASE T # {}
  <2>0. T \subseteq Nat
    OBVIOUS
  <2>1. PICK t \in T : \A i \in T : t <= i
    <3> HIDE DEF T
    <3> QED
      BY <2>0, <1>2, NatMin
  <2>2. Readable(recs) = 1..(t - 1)
    BY <2>1, <1>0 DEF Readable
  <2>3. t - 1 \in Nat
    OBVIOUS
  <2>4. Cardinality(1..(t - 1)) = t - 1
    <3> DEFINE m == t - 1
    <3>1. m \in Nat
      BY <2>3
    <3> HIDE DEF m
    <3>2. Cardinality(1..m) = m
      BY <3>1, FS_Interval
    <3> QED
      BY <3>2 DEF m
  <2> QED
    BY <2>1, <2>2, <2>4, <1>0 DEF ReadableLen
<1> QED
  BY <1>1, <1>2

\* Recovery may cut the unreadable tail off the log: the map it builds is the same.
THEOREM ReplayTruncated ==
    ASSUME NEW base \in MapType, NEW recs \in Seq(Record)
    PROVE  Replay(base, ReadablePrefix(recs)) = Replay(base, recs)
<1> DEFINE n == ReadableLen(recs)
           cut == ReadablePrefix(recs)
<1>1. n \in 0..Len(recs) /\ Readable(recs) = 1..n
  BY ReadableShape
<1>2. cut \in Seq(Record) /\ Len(cut) = n /\ \A i \in 1..n : cut[i] = recs[i]
  BY <1>1 DEF ReadablePrefix
<1>3. Readable(cut) = 1..n
  BY <1>1, <1>2 DEF Readable
<1>4. ASSUME NEW k \in Keys PROVE Replay(base, cut)[k] = Replay(base, recs)[k]
  <2>1. CASE \E i \in Readable(recs) : recs[i][k] # Untouched
    <3>1. PICK i \in 1..Len(recs) : IsLastWrite(recs, k, i)
      BY <2>1, LastWriteExists
    <3>2. i \in 1..Len(cut) /\ IsLastWrite(cut, k, i)
      BY <3>1, <1>1, <1>2, <1>3 DEF IsLastWrite
    <3>3. Replay(base, cut)[k] = cut[i][k]
      BY <3>2, <1>2, ReplayLast
    <3>4. Replay(base, recs)[k] = recs[i][k]
      BY <3>1, ReplayLast
    <3> QED
      BY <3>2, <3>3, <3>4, <1>2
  <2>2. CASE \A i \in Readable(recs) : recs[i][k] = Untouched
    <3>1. \A i \in Readable(cut) : cut[i][k] = Untouched
      BY <2>2, <1>1, <1>2, <1>3
    <3>2. Replay(base, cut)[k] = base[k]
      BY <3>1, <1>2, ReplayUntouched
    <3>3. Replay(base, recs)[k] = base[k]
      BY <2>2, ReplayUntouched
    <3> QED
      BY <3>2, <3>3
  <2> QED
    BY <2>1, <2>2
<1> QED
  BY <1>4 DEF Replay

\* Appending a record to a log that reads to its end applies that record last.
THEOREM ReplayAppend ==
    ASSUME NEW base \in MapType, NEW recs \in Seq(Record), NEW rec \in Record,
           \A i \in 1..Len(recs) : recs[i] # Torn,
           rec # Torn
    PROVE  Replay(base, Append(recs, rec)) = Apply(Replay(base, recs), rec)
<1> DEFINE more == Append(recs, rec)
           n == Len(recs)
<1>1. /\ n \in Nat /\ more \in Seq(Record) /\ Len(more) = n + 1
      /\ more[n + 1] = rec /\ \A i \in 1..n : more[i] = recs[i]
  OBVIOUS
<1>2. Readable(recs) = 1..n /\ Readable(more) = 1..(n + 1)
  BY <1>1 DEF Readable
<1>3. ASSUME NEW k \in Keys
      PROVE  Replay(base, more)[k] = Apply(Replay(base, recs), rec)[k]
  <2>1. CASE rec[k] # Untouched
    <3>1. n + 1 \in 1..Len(more) /\ IsLastWrite(more, k, n + 1)
      BY <2>1, <1>1, <1>2 DEF IsLastWrite
    <3>2. Replay(base, more)[k] = more[n + 1][k]
      BY <3>1, <1>1, ReplayLast
    <3> QED
      BY <3>2, <2>1, <1>1 DEF Apply
  <2>2. CASE rec[k] = Untouched /\ \E i \in Readable(recs) : recs[i][k] # Untouched
    <3>1. PICK i \in 1..n : IsLastWrite(recs, k, i)
      BY <2>2, LastWriteExists
    <3>2. i \in 1..Len(more) /\ IsLastWrite(more, k, i)
      BY <3>1, <2>2, <1>1, <1>2 DEF IsLastWrite
    <3>3. Replay(base, more)[k] = more[i][k]
      BY <3>2, <1>1, ReplayLast
    <3>4. Replay(base, recs)[k] = recs[i][k]
      BY <3>1, ReplayLast
    <3> QED
      BY <3>3, <3>4, <2>2, <1>1 DEF Apply
  <2>3. CASE rec[k] = Untouched /\ \A i \in Readable(recs) : recs[i][k] = Untouched
    <3>1. \A i \in Readable(more) : more[i][k] = Untouched
      BY <2>3, <1>1, <1>2
    <3>2. Replay(base, more)[k] = base[k]
      BY <3>1, <1>1, ReplayUntouched
    <3>3. Replay(base, recs)[k] = base[k]
      BY <2>3, ReplayUntouched
    <3> QED
      BY <3>2, <3>3, <2>3 DEF Apply
  <2> QED
    BY <2>1, <2>2, <2>3
<1> QED
  BY <1>3 DEF Replay, Apply

(***************************************************************************)
(* Two maps that agree on every key the log does not touch become the same *)
(* map when the log is replayed over them.                                 *)
(***************************************************************************)
LEMMA ReplayAbsorbs ==
    ASSUME NEW base \in MapType, NEW other \in MapType, NEW recs \in Seq(Record),
           \A k \in Keys : \/ \E i \in Readable(recs) : recs[i][k] # Untouched
                         \/ other[k] = base[k]
    PROVE  Replay(other, recs) = Replay(base, recs)
<1>1. ASSUME NEW k \in Keys PROVE Replay(other, recs)[k] = Replay(base, recs)[k]
  <2>1. CASE \E i \in Readable(recs) : recs[i][k] # Untouched
    <3>1. PICK i \in 1..Len(recs) : IsLastWrite(recs, k, i)
      BY <2>1, LastWriteExists
    <3>2. Replay(other, recs)[k] = recs[i][k]
      BY <3>1, ReplayLast
    <3>3. Replay(base, recs)[k] = recs[i][k]
      BY <3>1, ReplayLast
    <3> QED
      BY <3>2, <3>3
  <2>2. CASE \A i \in Readable(recs) : recs[i][k] = Untouched
    <3>1. Replay(other, recs)[k] = other[k]
      BY <2>2, ReplayUntouched
    <3>2. Replay(base, recs)[k] = base[k]
      BY <2>2, ReplayUntouched
    <3> QED
      BY <2>2, <3>1, <3>2
  <2> QED
    BY <2>1, <2>2
<1> QED
  BY <1>1 DEF Replay

(***************************************************************************)
(* "Records duplicated across the two are harmless": whatever prefix of    *)
(* the log each key of the snapshot was captured after, replaying the      *)
(* whole log over that snapshot gives the map the whole log gives.         *)
(***************************************************************************)
THEOREM FuzzySnapshot ==
    ASSUME NEW base \in MapType, NEW recs \in Seq(Record),
           NEW cut \in [Keys -> 0..Len(recs)]
    PROVE  Replay(Fuzzy(base, recs, cut), recs) = Replay(base, recs)
<1> DEFINE fuzzy == Fuzzy(base, recs, cut)
           part(k) == SubSeq(recs, 1, cut[k])
<1>0. Len(recs) \in Nat
  OBVIOUS
<1>1. ASSUME NEW k \in Keys
      PROVE  /\ part(k) \in Seq(Record) /\ Len(part(k)) = cut[k]
             /\ \A i \in 1..cut[k] : part(k)[i] = recs[i]
             /\ Readable(part(k)) \subseteq Readable(recs)
  <2>1. cut[k] \in 0..Len(recs)
    OBVIOUS
  <2>2. /\ part(k) \in Seq(Record) /\ Len(part(k)) = cut[k]
        /\ \A i \in 1..cut[k] : part(k)[i] = recs[i]
    BY <2>1, <1>0
  <2> HIDE DEF part
  <2>3. Readable(part(k)) \subseteq Readable(recs)
    BY <2>1, <2>2, <1>0 DEF Readable
  <2> QED
    BY <2>2, <2>3
<1>2. fuzzy \in MapType
  <2>1. ASSUME NEW k \in Keys PROVE Replay(base, part(k))[k] \in Value
    <3> HIDE DEF part
    <3> QED
      BY <1>1, ReplayType DEF MapType
  <2> QED
    BY <2>1 DEF Fuzzy, MapType
<1>3. ASSUME NEW k \in Keys, \A i \in Readable(recs) : recs[i][k] = Untouched
      PROVE  fuzzy[k] = base[k]
  <2>1. fuzzy[k] = Replay(base, part(k))[k]
    BY DEF Fuzzy
  <2> HIDE DEF part, fuzzy
  <2>2. \A i \in Readable(part(k)) : part(k)[i][k] = Untouched
    BY <1>1, <1>3 DEF Readable
  <2>3. Replay(base, part(k))[k] = base[k]
    BY <2>2, <1>1, ReplayUntouched
  <2> QED
    BY <2>1, <2>3
<1> HIDE DEF fuzzy
<1>4. Replay(fuzzy, recs) = Replay(base, recs)
  BY <1>2, <1>3, ReplayAbsorbs
<1> QED
  BY <1>4 DEF fuzzy

(***************************************************************************)
(* Cutting the torn tail off makes the log usable again: a record appended *)
(* after the cut is replayed over what the log held before.                *)
(***************************************************************************)
THEOREM CutLogGrows ==
    ASSUME NEW base \in MapType, NEW recs \in Seq(Record), NEW rec \in Record,
           rec # Torn
    PROVE  Replay(base, Append(ReadablePrefix(recs), rec)) = Apply(Replay(base, recs), rec)
<1> DEFINE cut == ReadablePrefix(recs)
<1>1. /\ ReadableLen(recs) \in 0..Len(recs)
      /\ Readable(recs) = 1..ReadableLen(recs)
  BY ReadableShape
<1>2. cut \in Seq(Record) /\ \A i \in 1..Len(cut) : cut[i] = recs[i] /\ i \in Readable(recs)
  BY <1>1 DEF ReadablePrefix
<1>3. \A i \in 1..Len(cut) : cut[i] # Torn
  BY <1>2 DEF Readable
<1>4. Replay(base, cut) = Replay(base, recs)
  BY ReplayTruncated
<1> HIDE DEF cut
<1>5. Replay(base, Append(cut, rec)) = Apply(Replay(base, cut), rec)
  BY <1>2, <1>3, ReplayAppend
<1> QED
  BY <1>4, <1>5 DEF cut
=============================================================================
