------------------------- MODULE KVRecordsMC_proofs -------------------------
(***************************************************************************)
(* What KVRecordsMC explores, for logs, maps and values of any size: the   *)
(* loop of replay_wal is the replay by last writes that the other proofs   *)
(* use, what the hooks of hooks.ts give React is true to the store, and    *)
(* what a transaction reads is what its batch, encoded, decoded and        *)
(* applied, leaves in the store.                                           *)
(***************************************************************************)
EXTENDS KVRecordsMC, KVRecords_proofs, SequenceTheorems

-----------------------------------------------------------------------------
(***************************************************************************)
(* The loop over the records.                                              *)
(***************************************************************************)
\* What replay makes of the records up to the i-th.
Upto(m0, rs, i) == Replay(m0, SubSeq(rs, 1, i))
Whole(rs, i)    == \A j \in 1..i : rs[j] # Torn

\* One turn of the loop.
LEMMA UptoNext ==
    ASSUME NEW m0 \in MapType, NEW rs \in Seq(Record), NEW i \in 1..Len(rs)
    PROVE  Upto(m0, rs, i) = IF Whole(rs, i) THEN Apply(Upto(m0, rs, i - 1), rs[i])
                                             ELSE Upto(m0, rs, i - 1)
<1> DEFINE before == SubSeq(rs, 1, i - 1)
           after  == SubSeq(rs, 1, i)
<1>1. /\ before \in Seq(Record) /\ Len(before) = i - 1
      /\ \A j \in 1..(i - 1) : before[j] = rs[j]
      /\ after \in Seq(Record) /\ Len(after) = i
      /\ \A j \in 1..i : after[j] = rs[j]
  OBVIOUS
<1>2. CASE Whole(rs, i)
  <2>1. after = Append(before, rs[i]) /\ rs[i] \in Record /\ rs[i] # Torn
    BY <1>1, <1>2 DEF Whole
  <2>2. \A j \in 1..Len(before) : before[j] # Torn
    BY <1>1, <1>2 DEF Whole
  <2> QED
    BY <1>1, <1>2, <2>1, <2>2, ReplayAppend DEF Upto
<1>3. CASE ~Whole(rs, i)
  <2>1. Readable(after) = Readable(before)
    BY <1>1, <1>3 DEF Readable, Whole
  <2>2. \A k \in Keys, j \in Nat : IsLastWrite(after, k, j) <=> IsLastWrite(before, k, j)
    BY <1>1, <2>1 DEF IsLastWrite, Readable
  <2>3. \A k \in Keys : Replay(m0, after)[k] = Replay(m0, before)[k]
    <3> TAKE k \in Keys
    <3>1. CASE \E j \in 1..Len(after) : IsLastWrite(after, k, j)
      <4>1. PICK j \in 1..Len(after) : IsLastWrite(after, k, j)
        BY <3>1
      <4>2. j \in 1..Len(before) /\ IsLastWrite(before, k, j)
        BY <1>1, <2>1, <2>2, <4>1 DEF IsLastWrite, Readable
      <4>3. Replay(m0, after)[k] = after[j][k] /\ Replay(m0, before)[k] = before[j][k]
        BY <1>1, <4>1, <4>2, ReplayLast
      <4> QED
        BY <1>1, <4>2, <4>3
    <3>2. CASE ~ \E j \in 1..Len(after) : IsLastWrite(after, k, j)
      <4>1. ~ \E j \in 1..Len(before) : IsLastWrite(before, k, j)
        BY <1>1, <2>2, <3>2
      <4> QED
        BY <3>2, <4>1 DEF Replay
    <3> QED
      BY <3>1, <3>2
  <2> QED
    BY <1>3, <2>3 DEF Upto, Replay
<1> QED
  BY <1>2, <1>3

\* Replaying by last writes does what the loop over the records does, for every map and log.
THEOREM LoopReplays ==
    ASSUME NEW m0 \in MapType, NEW rs \in Seq(Record)
    PROVE  ReplayLoop(m0, rs) = Replay(m0, rs)
<1> DEFINE Turn(i, l) ==
               IF i = 0 THEN [map |-> m0, live |-> TRUE]
               ELSE IF l[i - 1].live /\ rs[i] # Torn
                    THEN [map |-> Apply(l[i - 1].map, rs[i]), live |-> TRUE]
                    ELSE [map |-> l[i - 1].map, live |-> FALSE]
           Run(l)  == [i \in 0..Len(rs) |-> Turn(i, l)]
           loop    == CHOOSE l : l = Run(l)
           upto    == [i \in 0..Len(rs) |-> [map |-> Upto(m0, rs, i), live |-> Whole(rs, i)]]
<1>0. Len(rs) \in Nat
  OBVIOUS
<1>1. \A i \in 0..Len(rs) : upto[i] = Turn(i, upto)
  <2> TAKE i \in 0..Len(rs)
  <2>1. CASE i = 0
    <3>1. SubSeq(rs, 1, 0) = <<>>
      OBVIOUS
    <3>2. \A k \in Keys : Replay(m0, <<>>)[k] = m0[k]
      <4>1. <<>> \in Seq(Record) /\ Readable(<<>>) = {}
        BY DEF Readable
      <4> QED
        BY <4>1, ReplayUntouched
    <3>3. Replay(m0, <<>>) = m0
      BY <3>2 DEF Replay, MapType
    <3>4. Upto(m0, rs, 0) = m0 /\ Whole(rs, 0) = TRUE
      <4>1. Upto(m0, rs, 0) = m0
        BY <3>1, <3>3 DEF Upto
      <4>2. \A j \in 1..0 : rs[j] # Torn
        OBVIOUS
      <4>3. Whole(rs, 0) = TRUE
        BY <4>2 DEF Whole
      <4> QED
        BY <4>1, <4>3
    <3>5. upto[0] = [map |-> Upto(m0, rs, 0), live |-> Whole(rs, 0)]
      BY <1>0
    <3>6. upto[0] = [map |-> m0, live |-> TRUE]
      BY <3>4, <3>5
    <3> HIDE DEF upto
    <3> QED
      BY <2>1, <3>6
  <2>2. CASE i # 0
    <3>1. i \in 1..Len(rs) /\ i - 1 \in 0..Len(rs)
      BY <1>0, <2>2
    <3>2. upto[i - 1] = [map |-> Upto(m0, rs, i - 1), live |-> Whole(rs, i - 1)]
      BY <3>1
    <3>3. Whole(rs, i) <=> Whole(rs, i - 1) /\ rs[i] # Torn
      BY <3>1 DEF Whole
    <3>4. CASE Whole(rs, i)
      <4>1. Whole(rs, i - 1) = TRUE /\ Whole(rs, i) = TRUE
        BY <3>3, <3>4 DEF Whole
      <4>2. upto[i] = [map |-> Apply(Upto(m0, rs, i - 1), rs[i]), live |-> TRUE]
        BY <3>1, <3>4, <4>1, UptoNext
      <4>3. upto[i - 1] = [map |-> Upto(m0, rs, i - 1), live |-> TRUE]
        BY <3>2, <4>1
      <4> HIDE DEF upto
      <4> QED
        BY <2>2, <3>3, <3>4, <4>2, <4>3
    <3>5. CASE ~Whole(rs, i)
      <4>1. Whole(rs, i) = FALSE
        BY <3>5 DEF Whole
      <4>2. upto[i] = [map |-> Upto(m0, rs, i - 1), live |-> FALSE]
        BY <3>1, <3>5, <4>1, UptoNext
      <4>3. upto[i - 1].map = Upto(m0, rs, i - 1) /\ (upto[i - 1].live <=> Whole(rs, i - 1))
        BY <3>2
      <4>4. ~(upto[i - 1].live /\ rs[i] # Torn)
        BY <3>3, <3>5, <4>3
      <4> HIDE DEF upto
      <4> QED
        BY <2>2, <4>2, <4>3, <4>4
    <3> QED
      BY <3>4, <3>5
  <2> QED
    BY <2>1, <2>2
<1>2. upto = Run(upto)
  BY <1>1
<1>3. loop = Run(loop)
  <2> HIDE DEF Run, upto
  <2> QED
    BY <1>2
<1>4. \A i \in 0..Len(rs) : loop[i] = Turn(i, loop)
  <2> HIDE DEF loop, Turn
  <2> QED
    BY <1>3
<1> HIDE DEF loop, upto
<1>5. \A i \in 0..Len(rs) : loop[i] = upto[i]
  <2> DEFINE T == {i \in 0..Len(rs) : loop[i] # upto[i]}
  <2>1. SUFFICES ASSUME T # {} PROVE FALSE
    OBVIOUS
  <2>2. PICK i \in T : \A j \in T : i <= j
    <3>1. T \subseteq Nat
      OBVIOUS
    <3> HIDE DEF T
    <3> QED
      BY <2>1, <3>1, NatMin
  <2>3. i = 0 \/ loop[i - 1] = upto[i - 1]
    BY <1>0, <2>2
  <2>4. Turn(i, loop) = Turn(i, upto)
    BY <2>3
  <2> QED
    BY <1>1, <1>4, <2>2, <2>4
<1>6. loop[Len(rs)].map = Upto(m0, rs, Len(rs))
  <2>1. loop[Len(rs)] = upto[Len(rs)]
    BY <1>0, <1>5
  <2>2. upto[Len(rs)] = [map |-> Upto(m0, rs, Len(rs)), live |-> Whole(rs, Len(rs))]
    BY <1>0 DEF upto
  <2> QED
    BY <2>1, <2>2
<1>7. SubSeq(rs, 1, Len(rs)) = rs
  OBVIOUS
<1>8. ReplayLoop(m0, rs) = loop[Len(rs)].map
  BY DEF ReplayLoop, loop
<1> QED
  BY <1>6, <1>7, <1>8 DEF Upto

\* What grows over the snapshot is a log.
Logged == base \in MapType /\ recs \in Seq(Record)

\* It does, torn records included.
LEMMA SpecLogged == Spec => []Logged
<1>1. (\A v \in 0..MaxValue : v \in Nat) /\ SmallMap \subseteq MapType
  BY KVRecordsMCAssumption DEF SmallMap, MapType, Value
<1>2. SmallRecord \subseteq Record
  BY <1>1 DEF SmallRecord, Record, Value
<1>3. Init => Logged
  BY <1>1 DEF Init, Logged
<1>4. Logged /\ [Next]_vars => Logged'
  BY <1>2 DEF Logged, Next, Grow, StageOne, Mount, WriteShown, AskAgain, Render, vars
<1> QED
  BY <1>3, <1>4, PTL DEF Spec

\* The replay all other proofs speak of is the loop of replay_wal, whatever the log: the last
\* readable write to each key is what the loop leaves there.
THEOREM LoopIsReplay == Spec => []ReplayIsLoop
<1>1. Logged => ReplayIsLoop
  BY LoopReplays DEF Logged, ReplayIsLoop
<1> QED
  BY <1>1, SpecLogged, PTL

\* A snapshot captured while the map changed is brought up to date by the log that contains
\* those changes too, whatever moment each of its keys is of.
THEOREM FuzzyConverges == Spec => []FuzzySnapshotConverges
<1>1. Logged => FuzzySnapshotConverges
  BY FuzzySnapshot DEF Logged, FuzzySnapshotConverges
<1> QED
  BY <1>1, SpecLogged, PTL

-----------------------------------------------------------------------------
(***************************************************************************)
(* The hooks.  What a hook remembers is of its own snapshot, because the   *)
(* number of a new snapshot is one that nothing it holds has; and what it  *)
(* was given last, what its getter remembers and its snapshot agree.       *)
(***************************************************************************)
SnapshotOK(kind, s) ==
    /\ s.value.what \in Texts /\ s.made \in Nat
    /\ kind = "value" => s.value = Primitive(s.value.what)

\* What was given is made of the text, up to the comparison.
Renders(h, given, text) ==
    LET next == Select(h.selector, Primitive(text), 0).what
    IN IF h.comparison = "near" THEN Near(given.what, next) ELSE given.what = next

\* A hook that may be asked.
HookFields == {"kind", "snapshot", "selector", "comparison", "memo", "instance", "given"}

IsHook(h) ==
    /\ DOMAIN h = HookFields
    /\ h.kind \in Kinds /\ h.selector \in Selectors \cup {"none"} /\ h.comparison \in Comparisons
    /\ h.selector = "none" => h.comparison = "is"

Askable(h) ==
    /\ IsHook(h)
    /\ h.snapshot = NoSnapshot \/ SnapshotOK(h.kind, h.snapshot)
    /\ h.selector # "none" /\ h.memo # Forgot =>
          /\ h.memo.snapshot = h.snapshot.made /\ h.snapshot # NoSnapshot
          /\ Renders(h, h.memo.selection, h.snapshot.value.what)

\* A hook that was asked.
Settled(h) ==
    /\ IsHook(h) /\ SnapshotOK(h.kind, h.snapshot)
    /\ IF h.selector = "none" THEN h.given = h.snapshot
       ELSE /\ h.memo = [snapshot |-> h.snapshot.made, selection |-> h.given]
            /\ Renders(h, h.given, h.snapshot.value.what)

HookInv == shown \in Texts /\ (hook # NoHook => Settled(hook))

\* There is always a number nothing holds.
LEMMA FreeNumberFree ==
    ASSUME NEW taken, IsFiniteSet(taken)
    PROVE  FreeNumber(taken) \in Nat \ {0} /\ FreeNumber(taken) \notin taken
<1> DEFINE c == Cardinality(taken)
<1>1. c \in Nat
  BY FS_CardinalityType
<1> HIDE DEF c
<1>2. IsFiniteSet(1..(c + 1)) /\ Cardinality(1..(c + 1)) = c + 1
  <2>1. Cardinality(1..(c + 1)) = IF 1 > c + 1 THEN 0 ELSE (c + 1) - 1 + 1
    BY <1>1, FS_Interval
  <2> QED
    BY <1>1, <2>1, FS_Interval
<1>3. \E n \in 1..(c + 1) : n \notin taken
  <2>1. SUFFICES ASSUME 1..(c + 1) \subseteq taken PROVE FALSE
    OBVIOUS
  <2>2. Cardinality(1..(c + 1)) <= c
    BY <2>1, FS_Subset DEF c
  <2> QED
    BY <1>1, <1>2, <2>2
<1> QED
  BY <1>1, <1>3 DEF FreeNumber, c

\* The number a new snapshot gets is not the one remembered.
LEMMA FreshForHook ==
    ASSUME NEW h
    PROVE  /\ IsFiniteSet(Held(h))
           /\ FreeNumber(Held(h)) \in Nat \ {0} /\ FreeNumber(Held(h)) # h.memo.snapshot
<1> DEFINE one  == {h.snapshot.made} \cup {h.memo.snapshot}
           two  == one \cup {h.memo.selection.made}
           most == two \cup {h.instance.made}
<1>1. Held(h) = most \cup {h.given.made} /\ h.memo.snapshot \in Held(h)
  BY DEF Held
<1>2. IsFiniteSet(Held(h)) /\ h.memo.snapshot \in Held(h)
  <2>1. IsFiniteSet(one)
    BY FS_Singleton, FS_AddElement
  <2> HIDE DEF one
  <2>2. IsFiniteSet(two)
    BY <2>1, FS_AddElement
  <2> HIDE DEF two
  <2>3. IsFiniteSet(most)
    BY <2>2, FS_AddElement
  <2> HIDE DEF most
  <2> QED
    BY <1>1, <2>3, FS_AddElement
<1> QED
  BY <1>2, FreeNumberFree

\* A selection is as its value is.
LEMMA SelectWhat ==
    ASSUME NEW selector \in Selectors, NEW value, value.what \in Texts, NEW n
    PROVE  /\ Select(selector, value, n).what = Select(selector, Primitive(value.what), 0).what
           /\ Select(selector, value, n).what \in Int
<1>1. Part(value.what) \in Int /\ value.what \in Int
  BY DEF Part, Texts, Absent
<1> QED
  BY <1>1 DEF Select, Selectors, Primitive, Made

\* The snapshot source gives what the store holds, in the object it has if that says so.
LEMMA SnapshotTaken ==
    ASSUME NEW kind \in Kinds, NEW old, old = NoSnapshot \/ SnapshotOK(kind, old),
           NEW text \in Texts, NEW n \in Nat
    PROVE  LET next == GetSnapshot(kind, old, text, n)
           IN /\ SnapshotOK(kind, next) /\ next.value.what = text
              /\ next = old \/ next.made = n
              /\ old # NoSnapshot /\ old.value.what = text => next = old
<1> DEFINE fresh == [value |-> IF kind = "value" THEN Primitive(text) ELSE Made(text, n),
                     made |-> n]
           read  == Reads(kind, text, old, n)
<1>1. /\ SnapshotOK(kind, fresh) /\ fresh.value.what = text /\ fresh.made = n
  BY DEF SnapshotOK, Primitive, Made, Kinds
<1>2. \/ read = fresh
      \/ read = old /\ old # NoSnapshot /\ old.value.what = text
  BY DEF Reads, ReadValue, ReadJSON, ReadBuffer, Kinds, Primitive
<1>3. read.value.what = text
  BY <1>1, <1>2
<1>4. SameSnapshot(kind, old, read) => old.value.what = text
  BY <1>3 DEF SameSnapshot
<1>5. old # NoSnapshot /\ old.value.what = text => SameSnapshot(kind, old, read)
  BY <1>1, <1>2, <1>3 DEF SameSnapshot, SnapshotOK
<1> HIDE DEF fresh, read
<1>6. GetSnapshot(kind, old, text, n) =
         IF old = NoSnapshot \/ ~SameSnapshot(kind, old, read) THEN read ELSE old
  BY DEF GetSnapshot, read
<1> QED
  BY <1>1, <1>2, <1>3, <1>4, <1>5, <1>6

\* A hook that is asked has settled: it holds a snapshot of what is stored, and gives what is
\* made of that.  Asked again it gives the same, and a new selector keeps an equal instance.
LEMMA AskedSettles ==
    ASSUME NEW h, Askable(h), NEW text \in Texts
    PROVE  LET asked == Asked(h, text)
           IN /\ Settled(asked) /\ asked.snapshot.value.what = text
              /\ asked.selector = h.selector /\ asked.comparison = h.comparison
              /\ h.snapshot # NoSnapshot /\ h.snapshot.value.what = text =>
                    /\ asked.snapshot = h.snapshot
                    /\ h.selector # "none" /\ h.memo # Forgot => asked.given = h.memo.selection
              /\ /\ h.selector # "none" /\ h.memo = Forgot /\ h.instance # None
                 /\ h.comparison # "is"
                 /\ Equal(h.comparison, h.instance, Select(h.selector, Primitive(text), 0))
                 => asked.given = h.instance
<1> DEFINE n      == FreeNumber(Held(h))
           s      == GetSnapshot(h.kind, h.snapshot, text, n)
           b      == [h EXCEPT !.snapshot = s]
           m      == FreeNumber(Held(h) \cup {n})
           next   == Select(h.selector, s.value, m)
           before == IF h.memo # Forgot THEN h.memo.selection ELSE h.instance
           known  == h.memo # Forgot /\ h.memo.snapshot = s.made
           kept   == before # None /\ Equal(h.comparison, before, next)
           found  == IF known \/ kept THEN before ELSE next
           memo   == [snapshot |-> s.made, selection |-> found]
<1>1. n \in Nat \ {0} /\ n # h.memo.snapshot
  BY FreshForHook
<1>2. /\ SnapshotOK(h.kind, s) /\ s.value.what = text
      /\ s = h.snapshot \/ s.made = n
      /\ h.snapshot # NoSnapshot /\ h.snapshot.value.what = text => s = h.snapshot
  <2> HIDE DEF n
  <2> QED
    BY <1>1, SnapshotTaken DEF Askable, IsHook
<1> HIDE DEF n, s, m
<1>3. /\ DOMAIN b = HookFields /\ b.snapshot = s /\ b.kind = h.kind /\ b.selector = h.selector
      /\ b.comparison = h.comparison /\ b.memo = h.memo /\ b.instance = h.instance
  BY DEF Askable, IsHook, HookFields
<1>4. Asked(h, text) = IF h.selector = "none" THEN [b EXCEPT !.given = s]
                       ELSE GetSelection(b, s, m)
  BY DEF Asked, n, s, m
<1> HIDE DEF b
<1>5. CASE h.selector = "none"
  <2> DEFINE a == [b EXCEPT !.given = s]
  <2>1. /\ DOMAIN a = HookFields /\ a.snapshot = s /\ a.kind = h.kind /\ a.selector = h.selector
        /\ a.comparison = h.comparison /\ a.given = s
    BY <1>3 DEF HookFields
  <2>2. Settled(a)
    BY <1>2, <1>5, <2>1 DEF Settled, IsHook, Askable
  <2> QED
    BY <1>2, <1>4, <1>5, <2>1, <2>2
<1>6. CASE h.selector # "none"
  <2> DEFINE a == [b EXCEPT !.given = found, !.memo = memo]
  <2>0. GetSelection(b, s, m) = a
    BY <1>3 DEF GetSelection
  <2>1. /\ DOMAIN a = HookFields /\ a.snapshot = s /\ a.kind = h.kind /\ a.selector = h.selector
        /\ a.comparison = h.comparison /\ a.given = found /\ a.memo = memo
    <3> HIDE DEF found
    <3> QED
      BY <1>3 DEF HookFields
  <2>2. /\ h.selector \in Selectors
        /\ next.what = Select(h.selector, Primitive(text), 0).what /\ next.what \in Int
    BY <1>2, <1>6, SelectWhat DEF Askable, IsHook, SnapshotOK
  <2> HIDE DEF next
  <2>3. known => /\ s = h.snapshot /\ Renders(h, before, text)
    BY <1>1, <1>2, <1>6 DEF Askable
  <2>4. before # None /\ Equal(h.comparison, before, next) => Renders(h, before, text)
    BY <2>2 DEF Renders, Equal, Askable, IsHook, Comparisons
  <2>5. Renders(h, next, text)
    BY <2>2 DEF Renders, Near
  <2>6. Renders(h, found, text)
    BY <2>3, <2>4, <2>5
  <2>7. h.snapshot # NoSnapshot /\ h.snapshot.value.what = text /\ h.memo # Forgot =>
           found = h.memo.selection
    BY <1>2, <1>6 DEF Askable
  <2>8. /\ h.memo = Forgot /\ h.instance # None /\ h.comparison # "is"
        /\ Equal(h.comparison, h.instance, Select(h.selector, Primitive(text), 0))
        => found = h.instance
    BY <2>2 DEF Equal, Askable, IsHook, Comparisons
  <2> HIDE DEF a, found
  <2>9. Renders(a, a.given, a.snapshot.value.what)
    BY <1>2, <2>1, <2>6 DEF Renders
  <2>10. Settled(a)
    BY <1>2, <1>6, <2>1, <2>9 DEF Settled, IsHook, Askable
  <2> QED
    BY <1>2, <1>4, <1>6, <2>0, <2>1, <2>7, <2>8, <2>10
<1> QED
  BY <1>5, <1>6

\* A hook that has settled may be asked again, under another selector too, or for another key.
LEMMA SettledAskable ==
    ASSUME NEW h, Settled(h)
    PROVE  Askable(h) /\ Askable(Rekeyed(h))
<1>1. h.snapshot # NoSnapshot
  BY DEF Settled, SnapshotOK, NoSnapshot
<1>2. Askable(h)
  BY <1>1 DEF Settled, Askable
<1> DEFINE r == [h EXCEPT !.snapshot = NoSnapshot, !.memo = Forgot]
<1>3. /\ DOMAIN r = HookFields /\ r.kind = h.kind /\ r.selector = h.selector
      /\ r.comparison = h.comparison /\ r.snapshot = NoSnapshot /\ r.memo = Forgot
  BY DEF Settled, IsHook, HookFields
<1> HIDE DEF r
<1>4. Askable(r)
  BY <1>3 DEF Settled, IsHook, Askable
<1> QED
  BY <1>2, <1>4 DEF Rekeyed, r

\* Under a new selector nothing is remembered, and the instance is the same.
LEMMA ReselectedAskable ==
    ASSUME NEW h, Settled(h), NEW selector \in Selectors, NEW comparison \in Comparisons
    PROVE  LET r == Reselected(h, selector, comparison)
           IN /\ Askable(r) /\ r.memo = Forgot /\ r.instance = h.instance
              /\ r.selector = selector /\ r.comparison = comparison
<1> DEFINE r == [h EXCEPT !.selector = selector, !.comparison = comparison, !.memo = Forgot]
<1>1. /\ DOMAIN r = HookFields /\ r.kind = h.kind /\ r.selector = selector
      /\ r.comparison = comparison /\ r.snapshot = h.snapshot /\ r.memo = Forgot
      /\ r.instance = h.instance
  BY DEF Settled, IsHook, HookFields
<1> HIDE DEF r
<1>2. Askable(r)
  BY <1>1 DEF Settled, IsHook, Askable, Selectors
<1> QED
  BY <1>1, <1>2 DEF Reselected, r

\* The effect of a committed render changes the instance only.
LEMMA OnScreenSettled ==
    ASSUME NEW h, Settled(h)
    PROVE  Settled(OnScreen(h))
<1> DEFINE r == [h EXCEPT !.instance = h.given]
<1>1. /\ DOMAIN r = HookFields /\ r.kind = h.kind /\ r.selector = h.selector
      /\ r.comparison = h.comparison /\ r.snapshot = h.snapshot /\ r.memo = h.memo
      /\ r.given = h.given
  BY DEF Settled, IsHook, HookFields
<1> HIDE DEF r
<1>2. Settled(r)
  BY <1>1 DEF Settled, IsHook, Renders
<1> QED
  BY <1>2 DEF OnScreen, r

\* What a settled hook remembers is no blank.
LEMMA SettledRemembers ==
    ASSUME NEW h, Settled(h)
    PROVE  /\ h.snapshot # NoSnapshot
           /\ h.selector # "none" => h.memo # Forgot /\ h.memo.selection = h.given
<1>1. h.snapshot.made # -1
  BY DEF Settled, SnapshotOK
<1>2. h.snapshot # NoSnapshot
  BY <1>1 DEF NoSnapshot
<1>3. ASSUME h.selector # "none" PROVE h.memo.snapshot # -1 /\ h.memo.selection = h.given
  BY <1>1, <1>3 DEF Settled
<1> QED
  BY <1>2, <1>3 DEF Forgot

\* Whoever asks is given what the store holds, and the same object until that changes.
LEMMA AskedTruly ==
    ASSUME NEW h, Askable(h), NEW text \in Texts
    PROVE  MadeOf(h, text) /\ AskedTwice(h, text)
<1> DEFINE a == Asked(h, text)
           aa == Asked(a, text)
<1>1. /\ Settled(a) /\ a.snapshot.value.what = text
      /\ a.selector = h.selector /\ a.comparison = h.comparison
  BY AskedSettles
<1> HIDE DEF a
<1>2. MadeOf(h, text)
  <2>1. CASE h.selector = "none"
    <3>1. a.given.value.what = text
      BY <1>1, <2>1 DEF Settled
    <3>2. h.comparison # "near"
      BY <2>1 DEF Askable, IsHook
    <3> QED
      BY <2>1, <3>1, <3>2 DEF MadeOf, a
  <2>2. CASE h.selector # "none"
    <3>1. Renders(a, a.given, text)
      BY <1>1, <2>2 DEF Settled
    <3>2. LET next == Select(h.selector, Primitive(text), 0).what
          IN IF h.comparison = "near" THEN Near(a.given.what, next) ELSE a.given.what = next
      BY <1>1, <3>1 DEF Renders
    <3> QED
      BY <2>2, <3>2 DEF MadeOf, a
  <2> QED
    BY <2>1, <2>2
<1>3. aa.given = a.given
  <2>1. a.snapshot # NoSnapshot /\ (a.selector # "none" => a.memo # Forgot)
    BY <1>1, SettledRemembers
  <2>2. /\ Settled(aa) /\ aa.selector = a.selector /\ aa.snapshot = a.snapshot
        /\ a.selector # "none" => aa.given = a.memo.selection
    BY <1>1, <2>1, SettledAskable, AskedSettles
  <2> HIDE DEF aa
  <2>3. CASE a.selector = "none"
    BY <1>1, <2>2, <2>3 DEF Settled
  <2>4. CASE a.selector # "none"
    BY <1>1, <2>2, <2>4, SettledRemembers
  <2> QED
    BY <2>3, <2>4
<1> QED
  BY <1>2, <1>3 DEF AskedTwice, a, aa

\* Every hook is settled as soon as it is mounted, and stays so.
LEMMA HookStep ==
    ASSUME HookInv, [Next]_vars
    PROVE  HookInv'
<1>1. CASE Mount
  <2>1. shown' \in Texts
    BY <1>1 DEF Mount
  <2>2. PICK first \in Hooks : hook' = OnScreen(Asked(first, shown'))
    BY <1>1 DEF Mount
  <2>3. Askable(first)
    <3>1. PICK kind \in Kinds, selector \in Selectors \cup {"none"}, comparison \in Comparisons :
             /\ first = UseKV(kind, selector, comparison)
             /\ selector = "none" => comparison = "is"
      BY <2>2 DEF Hooks, Kinds, Comparisons, Selectors
    <3>2. /\ DOMAIN first = HookFields /\ first.kind = kind /\ first.selector = selector
          /\ first.comparison = comparison /\ first.snapshot = NoSnapshot
          /\ first.memo = Forgot
      BY <3>1 DEF UseKV, HookFields
    <3> QED
      BY <3>1, <3>2 DEF Askable, IsHook
  <2> QED
    BY <2>1, <2>2, <2>3, AskedSettles, OnScreenSettled DEF HookInv
<1>2. CASE WriteShown
  BY <1>2 DEF WriteShown, HookInv
<1>3. CASE AskAgain
  BY <1>3, SettledAskable, AskedSettles DEF AskAgain, HookInv
<1>4. CASE Render
  <2>1. CASE hook' = OnScreen(Asked(hook, shown)) /\ shown' = shown
    BY <1>4, <2>1, SettledAskable, AskedSettles, OnScreenSettled DEF Render, HookInv
  <2>2. ASSUME NEW selector \in Selectors, NEW comparison \in Comparisons, shown' = shown,
               hook' = OnScreen(Asked(Reselected(hook, selector, comparison), shown))
        PROVE  HookInv'
    <3>1. Settled(Asked(Reselected(hook, selector, comparison), shown))
      BY <1>4, ReselectedAskable, AskedSettles DEF Render, HookInv
    <3> QED
      BY <2>2, <3>1, OnScreenSettled DEF HookInv
  <2>3. CASE shown' \in Texts /\ hook' = OnScreen(Asked(Rekeyed(hook), shown'))
    <3>1. Settled(Asked(Rekeyed(hook), shown'))
      BY <1>4, <2>3, SettledAskable, AskedSettles DEF Render, HookInv
    <3> QED
      BY <2>3, <3>1, OnScreenSettled DEF HookInv
  <2> QED
    BY <1>4, <2>1, <2>2, <2>3 DEF Render
<1>5. CASE Grow \/ StageOne \/ UNCHANGED vars
  BY <1>5 DEF Grow, StageOne, vars, HookInv
<1> QED
  BY <1>1, <1>2, <1>3, <1>4, <1>5 DEF Next

\* Whenever React asks a hook, whatever was written, rendered or selected anew since, it is
\* given what the store holds, the same object while that stays the same, and the selection on
\* the screen while the comparison says that it still holds (hooks.ts).
THEOREM HooksTell == Spec => []HookTrue
<1>1. Init => HookInv
  BY DEF Init, HookInv, Texts, Absent
<1>2. HookInv => HookTrue
  <2>1. SUFFICES ASSUME HookInv, hook # NoHook PROVE HookTrue
    BY DEF HookTrue
  <2>2. shown \in Texts /\ Settled(hook) /\ Askable(hook)
    BY <2>1, SettledAskable DEF HookInv
  <2>3. MadeOf(hook, shown) /\ AskedTwice(hook, shown)
    BY <2>2, AskedTruly
  <2>4. hook.snapshot.value.what = shown => Asked(hook, shown).given = hook.given
    <3> DEFINE a == Asked(hook, shown)
    <3>1. SUFFICES ASSUME hook.snapshot.value.what = shown PROVE a.given = hook.given
      OBVIOUS
    <3>2. /\ hook.snapshot # NoSnapshot
          /\ hook.selector # "none" => hook.memo # Forgot /\ hook.memo.selection = hook.given
      BY <2>2, SettledRemembers
    <3>3. /\ Settled(a) /\ a.selector = hook.selector /\ a.snapshot = hook.snapshot
          /\ hook.selector # "none" => a.given = hook.given
      BY <2>2, <3>1, <3>2, AskedSettles
    <3> HIDE DEF a
    <3> QED
      BY <2>2, <3>3 DEF Settled
  <2>5. ASSUME NEW selector \in Selectors, NEW comparison \in Comparisons
        PROVE  LET renewed == Reselected(hook, selector, comparison)
               IN MadeOf(renewed, shown) /\ AskedTwice(renewed, shown)
                     /\ KeepsScreen(renewed, shown)
    <3> DEFINE r == Reselected(hook, selector, comparison)
    <3>1. /\ Askable(r) /\ r.memo = Forgot /\ r.selector = selector
      BY <2>2, ReselectedAskable
    <3> HIDE DEF r
    <3>2. KeepsScreen(r, shown)
      BY <2>2, <3>1, AskedSettles DEF KeepsScreen
    <3>3. MadeOf(r, shown) /\ AskedTwice(r, shown)
      BY <2>2, <3>1, AskedTruly
    <3> QED
      BY <3>2, <3>3 DEF r
  <2> QED
    BY <2>3, <2>4, <2>5 DEF HookTrue
<1> QED
  BY <1>1, <1>2, HookStep, PTL DEF Spec

-----------------------------------------------------------------------------
(***************************************************************************)
(* Recursive functions: what computes them, and one solution of each.      *)
(***************************************************************************)

\* Induction, for a set.
LEMMA Induction ==
    ASSUME NEW S \in SUBSET Nat, 0 \in S, \A n \in S : n + 1 \in S
    PROVE  S = Nat
<1> DEFINE T == Nat \ S
<1>1. ASSUME NEW k \in T PROVE FALSE
  <2>0. T \subseteq Nat /\ T # {}
    BY <1>1
  <2>1. PICK n \in T : \A m \in T : n <= m
    <3> HIDE DEF T
    <3> QED
      BY <2>0, NatMin
  <2>2. n # 0 /\ n \in Nat
    BY <2>1
  <2>3. n - 1 \in Nat /\ n - 1 \in S
    BY <2>1, <2>2
  <2> QED
    BY <2>1, <2>2, <2>3
<1>2. \A n \in Nat : n \in S
  BY <1>1
<1> QED
  BY <1>2

\* A function may be defined by what it is at points of a lower rank.
Descends(D, V, n, rank, Step) ==
    /\ V # {} /\ n \in Nat /\ rank \in [D -> 0..n] /\ Step \in [D \X [D -> V] -> V]
    /\ \A i \in D : \A g, h \in [D -> V] :
          (\A j \in D : rank[j] < rank[i] => g[j] = h[j]) => Step[<<i, g>>] = Step[<<i, h>>]

LEMMA Recursion ==
    ASSUME NEW D, NEW V, NEW n, NEW rank, NEW Step, Descends(D, V, n, rank, Step)
    PROVE  \E f \in [D -> V] : \A i \in D : f[i] = Step[<<i, f>>]
<1> USE DEF Descends
<1> DEFINE Good(f, m) == \A i \in D : rank[i] < m => f[i] = Step[<<i, f>>]
           S == {m \in Nat : \E f \in [D -> V] : Good(f, m)}
<1>1. 0 \in S
  <2>1. PICK v \in V : TRUE
    OBVIOUS
  <2>2. [i \in D |-> v] \in [D -> V] /\ Good([i \in D |-> v], 0)
    OBVIOUS
  <2> QED
    BY <2>2
<1>2. ASSUME NEW m \in Nat, m \in S PROVE m + 1 \in S
  <2>1. PICK f \in [D -> V] : Good(f, m)
    BY <1>2
  <2> DEFINE g == [i \in D |-> IF rank[i] = m THEN Step[<<i, f>>] ELSE f[i]]
  <2>2. g \in [D -> V]
    OBVIOUS
  <2>3. \A i \in D : rank[i] < m => g[i] = f[i]
    OBVIOUS
  <2>4. ASSUME NEW i \in D, rank[i] < m + 1 PROVE g[i] = Step[<<i, g>>]
    <3>1. rank[i] <= m /\ rank[i] \in Nat
      BY <2>4
    <3>2. \A j \in D : rank[j] < rank[i] => g[j] = f[j]
      BY <2>3, <3>1
    <3>3. Step[<<i, g>>] = Step[<<i, f>>]
      <4> HIDE DEF g
      <4> QED
        BY <2>2, <3>2
    <3>4. g[i] = Step[<<i, f>>]
      BY <2>1, <3>1
    <3> QED
      BY <3>3, <3>4
  <2> HIDE DEF g
  <2> QED
    BY <2>2, <2>4
<1>3. n + 1 \in S
  <2>0. S \in SUBSET Nat
    OBVIOUS
  <2>1. \A m \in S : m + 1 \in S
    BY <1>2
  <2> HIDE DEF S
  <2>2. S = Nat
    BY <2>0, <1>1, <2>1, Induction
  <2> QED
    BY <2>2
<1>4. PICK f \in [D -> V] : Good(f, n + 1)
  BY <1>3
<1>5. \A i \in D : rank[i] < n + 1
  OBVIOUS
<1> QED
  BY <1>4, <1>5

-----------------------------------------------------------------------------
(***************************************************************************)
(* UTF-8: a code point is read back as it was written.                     *)
(***************************************************************************)

\* Unicode.
Byte  == {b \in Nat : b < 256}
Unit  == {u \in Nat : u < 65536}
Point == {p \in Nat : p <= 1114111}
Text  == Seq(Unit)

\* The surrogate pair of a code point beyond the first 65536.
IsBeyond(x, a, b) == /\ x \in Int /\ ~(x < 65536) /\ x = 65536 + 1024 * a + b
                     /\ a \in Nat /\ b \in Nat /\ b < 1024
HalvesAre(a, b) == <<55296 + a, 56320 + b>>

LEMMA HalvesOf ==
    ASSUME NEW x, NEW a, NEW b, IsBeyond(x, a, b)
    PROVE  CodeUnits(x) = HalvesAre(a, b)
<1> USE DEF IsBeyond, HalvesAre
<1> DEFINE c == x - 65536
<1>1. c = 1024 * a + b
  BY SMT
<1>2. CodeUnits(x) = <<55296 + c \div 1024, 56320 + (c % 1024)>>
  BY SMT DEF CodeUnits
<1> HIDE DEF c
<1>3. c \div 1024 = a /\ c % 1024 = b
  BY <1>1, SMT
<1> QED
  BY <1>2, <1>3

\* What is encoded of the unit at i, and what reading it gives.
LEMMA PointSentIs ==
    ASSUME NEW t \in Text, NEW enc \in BOOLEAN, NEW i \in 1..Len(t)
    PROVE  /\ PointSent(t, enc, i) \in Point
           /\ NextUnit(t, i) \in (i + 1)..(Len(t) + 1)
           /\ NextUnit(t, i) <= i + 2
           /\ IsPair(t, i) =>
                 /\ ~IsHalf(PointSent(t, enc, i))
                 /\ CodeUnits(PointSent(t, enc, i)) = <<t[i], t[i + 1]>>
                 /\ NextUnit(t, i) = i + 2
           /\ ~IsPair(t, i) /\ ~IsHalf(t[i]) =>
                 /\ ~IsHalf(PointSent(t, enc, i))
                 /\ CodeUnits(PointSent(t, enc, i)) = <<t[i]>>
           /\ ~IsPair(t, i) /\ IsHalf(t[i]) => (IsHalf(PointSent(t, enc, i)) <=> ~enc)
           /\ ~IsPair(t, i) => NextUnit(t, i) = i + 1
<1>0. t[i] \in Unit /\ (i < Len(t) => t[i + 1] \in Unit)
  BY SMT DEF Text
<1>2. CASE IsPair(t, i)
  <2>1. /\ 55296 <= t[i] /\ t[i] <= 56319 /\ 56320 <= t[i + 1] /\ t[i + 1] <= 57343
        /\ i < Len(t) /\ t[i] \in Nat /\ t[i + 1] \in Nat
    BY <1>0, <1>2, SMT DEF IsPair, IsHigh, IsLow, Unit
  <2>2. CodePointAt(t, i) = 65536 + 1024 * (t[i] - 55296) + (t[i + 1] - 56320)
    BY <1>2, SMT DEF CodePointAt
  <2>3. CodePointAt(t, i) \in Nat /\ CodePointAt(t, i) >= 65536 /\ CodePointAt(t, i) <= 1114111
    <3>1. ASSUME NEW h \in Nat, NEW l \in Nat, 55296 <= h, h <= 56319, 56320 <= l, l <= 57343
          PROVE  LET c == 65536 + 1024 * (h - 55296) + (l - 56320)
                 IN c \in Nat /\ c >= 65536 /\ c <= 1114111
      BY <3>1, SMTT(30)
    <3> QED
      BY <2>1, <2>2, <3>1, SMTT(30)
  <2>4. ~IsHalf(CodePointAt(t, i))
    BY <2>3, SMT DEF IsHalf, IsHigh, IsLow
  <2>5. PointSent(t, enc, i) = CodePointAt(t, i)
    BY <2>4, SMT DEF PointSent
  <2>6. CodeUnits(CodePointAt(t, i)) = <<t[i], t[i + 1]>>
    <3> DEFINE x == CodePointAt(t, i)
               a == t[i] - 55296
               b == t[i + 1] - 56320
    <3>1. a \in Nat /\ b \in Nat /\ b < 1024 /\ 55296 + a = t[i] /\ 56320 + b = t[i + 1]
      BY <2>1, SMT
    <3>2. x \in Int /\ ~(x < 65536)
      BY <2>3, SMT
    <3>3. x = 65536 + 1024 * a + b
      BY <2>2
    <3> HIDE DEF x, a, b
    <3>4. IsBeyond(x, a, b)
      BY <3>1, <3>2, <3>3, SMT DEF IsBeyond
    <3>5. CodeUnits(x) = HalvesAre(a, b)
      BY <3>4, HalvesOf
    <3>6. HalvesAre(a, b) = <<t[i], t[i + 1]>>
      BY <3>1, SMT DEF HalvesAre
    <3> QED
      BY <3>5, <3>6 DEF x
  <2> QED
    BY <1>2, <2>1, <2>3, <2>4, <2>5, <2>6, SMT DEF NextUnit, Point
<1>3. CASE ~IsPair(t, i)
  <2>1. CodePointAt(t, i) = t[i]
    BY <1>3, SMT DEF CodePointAt
  <2>2. PointSent(t, enc, i) = IF enc /\ IsHalf(t[i]) THEN 65533 ELSE t[i]
    BY <2>1, SMT DEF PointSent
  <2>3. ~IsHalf(65533)
    BY SMT DEF IsHalf, IsHigh, IsLow
  <2>4. PointSent(t, enc, i) \in Unit
    BY <2>2, <1>0, SMT DEF Unit
  <2>5. CodeUnits(PointSent(t, enc, i)) = <<PointSent(t, enc, i)>>
    BY <2>4, SMT DEF Unit, CodeUnits
  <2>6. NextUnit(t, i) = i + 1
    BY <1>3, SMT DEF NextUnit
  <2> QED
    BY <1>3, <2>2, <2>3, <2>4, <2>5, <2>6, SMT DEF Point, Unit
<1> QED
  BY <1>2, <1>3

LEMMA Utf8BytesIs ==
    ASSUME NEW p \in Point
    PROVE  Utf8Bytes(p) \in Seq(Byte) /\ 1 <= Len(Utf8Bytes(p)) /\ Len(Utf8Bytes(p)) <= 4
<1>0. p \in Nat /\ p <= 1114111
  BY SMT DEF Point
<1>1. \A bits \in Nat : Continued(bits) \in Byte
  BY SMT DEF Continued, Byte
<1>2. p \div 64 \in Nat /\ p \div 4096 \in Nat /\ p \div 262144 \in Nat
  BY <1>0, SMT
<1>3. CASE p < 128
  BY <1>0, <1>3, SMT DEF Utf8Bytes, Byte
<1>4. CASE p >= 128 /\ p < 2048
  <2>1. 192 + p \div 64 \in Byte
    BY <1>0, <1>4, SMT DEF Byte
  <2>2. Utf8Bytes(p) = <<192 + p \div 64, Continued(p)>>
    BY <1>0, <1>4, SMT DEF Utf8Bytes
  <2> QED
    BY <1>0, <1>1, <2>1, <2>2, SMT
<1>5. CASE p >= 2048 /\ p < 65536
  <2>1. 224 + p \div 4096 \in Byte
    BY <1>0, <1>5, SMT DEF Byte
  <2>2. Utf8Bytes(p) = <<224 + p \div 4096, Continued(p \div 64), Continued(p)>>
    BY <1>0, <1>5, SMT DEF Utf8Bytes
  <2> QED
    BY <1>0, <1>1, <1>2, <2>1, <2>2, SMT
<1>6. CASE p >= 65536
  <2>1. 240 + p \div 262144 \in Byte
    BY <1>0, <1>6, SMT DEF Byte
  <2>2. Utf8Bytes(p) = <<240 + p \div 262144, Continued(p \div 4096), Continued(p \div 64),
                         Continued(p)>>
    BY <1>0, <1>6, SMT DEF Utf8Bytes
  <2> QED
    BY <1>0, <1>1, <1>2, <2>1, <2>2, SMT
<1> QED
  BY <1>0, <1>3, <1>4, <1>5, <1>6, SMT

\* The bytes of a point, found at i, are read as that point, unless it is half a pair.
LEMMA PointRoundTrip ==
    ASSUME NEW p \in Point, NEW data \in Seq(Byte), NEW i \in 1..Len(data),
           i + Len(Utf8Bytes(p)) - 1 <= Len(data),
           \A j \in 1..Len(Utf8Bytes(p)) : data[i + j - 1] = Utf8Bytes(p)[j]
    PROVE  /\ PointAt(data, i) = IF IsHalf(p) THEN -1 ELSE p
           /\ Width(data[i]) = Len(Utf8Bytes(p))
<1>0. p \in Nat /\ p <= 1114111
  BY SMT DEF Point
<1>1. CASE p < 128
  <2>1. Utf8Bytes(p) = <<p>>
    BY <1>1, SMT DEF Utf8Bytes
  <2>2. data[i] = p
    BY <2>1, SMT
  <2>3. Width(data[i]) = 1
    BY <1>1, <2>2, SMT DEF Width
  <2>4. ~IsHalf(p)
    BY <1>0, <1>1, SMT DEF IsHalf, IsHigh, IsLow
  <2> QED
    BY <1>0, <1>1, <2>1, <2>2, <2>3, <2>4, SMT DEF PointAt
<1>2. CASE p >= 128 /\ p < 2048
  <2>1. Utf8Bytes(p) = <<192 + p \div 64, Continued(p)>>
    BY <1>0, <1>2, SMT DEF Utf8Bytes
  <2>2. data[i] = 192 + p \div 64 /\ data[i + 1] = 128 + (p % 64)
    BY <2>1, SMT DEF Continued
  <2>3. Width(data[i]) = 2
    BY <1>0, <1>2, <2>2, SMT DEF Width
  <2>4. ~IsHalf(p)
    BY <1>0, <1>2, SMT DEF IsHalf, IsHigh, IsLow
  <2>5. p = 64 * (data[i] - 192) + (data[i + 1] - 128) /\ IsContinued(data[i + 1])
    BY <1>0, <1>2, <2>2, SMT DEF IsContinued
  <2> QED
    BY <1>0, <1>2, <2>1, <2>3, <2>4, <2>5, SMT DEF PointAt
<1>3. CASE p >= 2048 /\ p < 65536
  <2>1. Utf8Bytes(p) = <<224 + p \div 4096, Continued(p \div 64), Continued(p)>>
    BY <1>0, <1>3, SMT DEF Utf8Bytes
  <2>2. /\ data[i] = 224 + p \div 4096
        /\ data[i + 1] = 128 + ((p \div 64) % 64) /\ data[i + 2] = 128 + (p % 64)
    BY <2>1, SMT DEF Continued
  <2>3. Width(data[i]) = 3
    BY <1>0, <1>3, <2>2, SMT DEF Width
  <2>5. /\ p = 4096 * (data[i] - 224) + 64 * (data[i + 1] - 128) + (data[i + 2] - 128)
        /\ IsContinued(data[i + 1]) /\ IsContinued(data[i + 2])
    BY <1>0, <1>3, <2>2, SMT DEF IsContinued
  <2> QED
    BY <1>0, <1>3, <2>1, <2>3, <2>5, SMT DEF PointAt
<1>4. CASE p >= 65536
  <2>1. Utf8Bytes(p) = <<240 + p \div 262144, Continued(p \div 4096), Continued(p \div 64),
                         Continued(p)>>
    BY <1>0, <1>4, SMT DEF Utf8Bytes
  <2>2. /\ data[i] = 240 + p \div 262144 /\ data[i + 1] = 128 + ((p \div 4096) % 64)
        /\ data[i + 2] = 128 + ((p \div 64) % 64) /\ data[i + 3] = 128 + (p % 64)
    BY <2>1, SMT DEF Continued
  <2>3. Width(data[i]) = 4
    BY <1>0, <1>4, <2>2, SMT DEF Width
  <2>4. ~IsHalf(p)
    BY <1>0, <1>4, SMT DEF IsHalf, IsHigh, IsLow
  <2>5. /\ p = 262144 * (data[i] - 240) + 4096 * (data[i + 1] - 128)
                 + 64 * (data[i + 2] - 128) + (data[i + 3] - 128)
        /\ IsContinued(data[i + 1]) /\ IsContinued(data[i + 2]) /\ IsContinued(data[i + 3])
    <3> DEFINE q == p \div 4096
               r == p \div 64
    <3>1. q \in Nat /\ r \in Nat /\ p \div 262144 \in Nat
      BY <1>0, SMT
    <3>2. p = 64 * r + (p % 64) /\ p % 64 \in Nat /\ p % 64 < 64
      BY <1>0, SMT
    <3>3. r = 64 * q + (r % 64) /\ r % 64 \in Nat /\ r % 64 < 64
      BY <1>0, SMT
    <3>4. q = 64 * (p \div 262144) + (q % 64) /\ q % 64 \in Nat /\ q % 64 < 64
      BY <1>0, SMT
    <3> HIDE DEF q, r
    <3>5. data[i] = 240 + p \div 262144 /\ data[i + 1] = 128 + (q % 64)
             /\ data[i + 2] = 128 + (r % 64) /\ data[i + 3] = 128 + (p % 64)
      BY <2>2, SMT DEF q, r
    <3> QED
      BY <1>0, <3>1, <3>2, <3>3, <3>4, <3>5, SMT DEF IsContinued
  <2> QED
    BY <1>0, <1>4, <2>1, <2>3, <2>4, <2>5, SMT DEF PointAt
<1> QED
  BY <1>0, <1>1, <1>2, <1>3, <1>4, SMT

-----------------------------------------------------------------------------
(***************************************************************************)
(* The bytes of a text, and the texts of some bytes: both recursions have a solution. *)
(***************************************************************************)

\* The recursion of Utf8From has a solution, and Utf8From is one.
LEMMA Utf8FromFix ==
    ASSUME NEW t \in Text, NEW enc \in BOOLEAN
    PROVE  Utf8From(t, enc) =
              [i \in 1..(Len(t) + 1) |->
                  IF i > Len(t) THEN <<>>
                  ELSE BytesAt(t, enc, i) \o Utf8From(t, enc)[NextUnit(t, i)]]
<1> DEFINE n == Len(t)
           D == 1..(n + 1)
           V == Seq(Byte)
           rank == [i \in D |-> n + 1 - i]
           Step == [x \in D \X [D -> V] |->
                       IF x[1] > n THEN <<>>
                       ELSE BytesAt(t, enc, x[1]) \o x[2][NextUnit(t, x[1])]]
<1>0. n \in Nat
  BY DEF Text
<1>1. \A i \in 1..n : /\ BytesAt(t, enc, i) \in V
                      /\ NextUnit(t, i) \in D /\ NextUnit(t, i) > i
  <2>1. ASSUME NEW i \in 1..n PROVE PointSent(t, enc, i) \in Point
                     /\ NextUnit(t, i) \in (i + 1)..(n + 1)
    BY PointSentIs
  <2> QED
    BY <1>0, <2>1, Utf8BytesIs DEF BytesAt
<1>2. rank \in [D -> 0..n]
  BY <1>0
<1>3. Step \in [D \X [D -> V] -> V]
  <2>1. ASSUME NEW i \in D, NEW g \in [D -> V]
        PROVE  (IF i > n THEN <<>> ELSE BytesAt(t, enc, i) \o g[NextUnit(t, i)]) \in V
    <3>1. CASE i > n
      BY <3>1
    <3>2. CASE ~(i > n)
      <4>1. i \in 1..n
        BY <3>2, <1>0
      <4>2. BytesAt(t, enc, i) \in V /\ g[NextUnit(t, i)] \in V
        BY <4>1, <1>1
      <4> QED
        BY <3>2, <4>2
    <3> QED
      BY <3>1, <3>2
  <2> HIDE DEF V, D
  <2> QED
    BY <2>1
<1>4. ASSUME NEW i \in D, NEW g \in [D -> V], NEW h \in [D -> V],
             \A j \in D : rank[j] < rank[i] => g[j] = h[j]
      PROVE  Step[<<i, g>>] = Step[<<i, h>>]
  <2>1. CASE i > n
    BY <2>1
  <2>2. CASE ~(i > n)
    <3>1. i \in 1..n
      BY <2>2, <1>0
    <3>2. NextUnit(t, i) \in D /\ NextUnit(t, i) > i
      BY <3>1, <1>1
    <3>3. rank[NextUnit(t, i)] < rank[i]
      BY <3>1, <3>2, <1>0
    <3>4. g[NextUnit(t, i)] = h[NextUnit(t, i)]
      BY <1>4, <3>2, <3>3
    <3> HIDE DEF D, V
    <3> QED
      BY <3>4
  <2> QED
    BY <2>1, <2>2
<1>5. PICK g \in [D -> V] : \A i \in D : g[i] = Step[<<i, g>>]
  <2>1. V # {}
    <3>1. <<>> \in V
      OBVIOUS
    <3> QED
      BY <3>1
  <2>2. \A i \in D : \A g, h \in [D -> V] :
           (\A j \in D : rank[j] < rank[i] => g[j] = h[j]) => Step[<<i, g>>] = Step[<<i, h>>]
    BY <1>4
  <2> HIDE DEF n, D, V, rank, Step
  <2>3. Descends(D, V, n, rank, Step)
    BY <2>1, <2>2, <1>0, <1>2, <1>3 DEF Descends
  <2> QED
    BY <2>3, Recursion
<1>6. \A i \in D : g[i] = IF i > n THEN <<>> ELSE BytesAt(t, enc, i) \o g[NextUnit(t, i)]
  <2> HIDE DEF D, V
  <2> QED
    BY <1>5
<1>7. g = [i \in D |-> IF i > n THEN <<>> ELSE BytesAt(t, enc, i) \o g[NextUnit(t, i)]]
  <2> HIDE DEF D, V
  <2> QED
    BY <1>6
<1>8. Utf8From(t, enc) = CHOOSE f : f =
              [i \in 1..(Len(t) + 1) |->
                  IF i > Len(t) THEN <<>> ELSE BytesAt(t, enc, i) \o f[NextUnit(t, i)]]
  BY DEF Utf8From
<1> QED
  BY <1>7, <1>8, Zenon

\* What the recursion computes.
LEMMA Utf8FromIs ==
    ASSUME NEW t \in Text, NEW enc \in BOOLEAN
    PROVE  /\ Utf8From(t, enc) \in [1..(Len(t) + 1) -> Seq(Byte)]
           /\ Utf8From(t, enc)[Len(t) + 1] = <<>>
           /\ \A i \in 1..Len(t) :
                 Utf8From(t, enc)[i] =
                    Utf8Bytes(PointSent(t, enc, i)) \o Utf8From(t, enc)[NextUnit(t, i)]
           /\ \A i \in 1..(Len(t) + 1) : Len(Utf8From(t, enc)[i]) <= 4 * (Len(t) + 1 - i)
<1> DEFINE n == Len(t)
           D == 1..(n + 1)
           E == Utf8From(t, enc)
           Typed4(i) == E[i] \in Seq(Byte) /\ Len(E[i]) <= 4 * (n + 1 - i)
           S == {k \in Nat : \A i \in D : n + 1 - i <= k => Typed4(i)}
<1>0. n \in Nat
  BY DEF Text
<1>1. E = [i \in D |-> IF i > n THEN <<>> ELSE BytesAt(t, enc, i) \o E[NextUnit(t, i)]]
  BY Utf8FromFix
<1> HIDE DEF E
<1>7. \A i \in D : E[i] = IF i > n THEN <<>> ELSE BytesAt(t, enc, i) \o E[NextUnit(t, i)]
  <2> HIDE DEF D, n
  <2> QED
    BY <1>1, Zenon
<1>2. E[n + 1] = <<>>
  <2>1. n + 1 \in D /\ n + 1 > n
    BY <1>0
  <2> QED
    BY <1>7, <2>1
<1>3. ASSUME NEW i \in 1..n
      PROVE  E[i] = Utf8Bytes(PointSent(t, enc, i)) \o E[NextUnit(t, i)]
  <2>1. i \in D /\ ~(i > n)
    BY <1>0
  <2> QED
    BY <1>7, <2>1 DEF BytesAt
<1>4. 0 \in S
  <2>1. ASSUME NEW i \in D, n + 1 - i <= 0 PROVE Typed4(i)
    <3>1. i = n + 1
      BY <1>0, <2>1
    <3>2. E[i] = <<>>
      BY <1>2, <3>1
    <3> QED
      BY <1>0, <3>1, <3>2
  <2> QED
    BY <2>1
<1>5. ASSUME NEW k \in S PROVE k + 1 \in S
  <2>1. ASSUME NEW i \in D, n + 1 - i <= k + 1 PROVE Typed4(i)
    <3>1. CASE i = n + 1
      BY <1>0, <1>2, <3>1
    <3>2. CASE i \in 1..n
      <4> DEFINE j == NextUnit(t, i)
                 B == Utf8Bytes(PointSent(t, enc, i))
      <4>1. PointSent(t, enc, i) \in Point /\ j \in (i + 1)..(n + 1)
        BY <3>2, PointSentIs
      <4>2. B \in Seq(Byte) /\ 1 <= Len(B) /\ Len(B) <= 4
        BY <4>1, Utf8BytesIs
      <4>3. Typed4(j)
        BY <1>0, <1>5, <2>1, <3>2, <4>1
      <4>4. E[i] = B \o E[j]
        BY <1>3, <3>2
      <4> HIDE DEF B, j
      <4>5. E[i] \in Seq(Byte) /\ Len(E[i]) = Len(B) + Len(E[j])
        BY <4>2, <4>3, <4>4
      <4>6. Len(E[j]) \in Nat /\ Len(E[j]) <= 4 * (n + 1 - j)
        BY <4>3
      <4> HIDE DEF n
      <4>7. Len(B) + Len(E[j]) <= 4 * (n + 1 - i)
        <5>1. ASSUME NEW a \in Int, NEW b \in Int, NEW c \in Int, NEW d \in Int,
                     a <= 4, b <= 4 * (n + 1 - c), c >= d + 1
              PROVE  a + b <= 4 * (n + 1 - d)
          BY <1>0, <5>1
        <5>2. /\ Len(B) \in Int /\ Len(B) <= 4 /\ j \in Int /\ i \in Int /\ j >= i + 1
              /\ Len(E[j]) \in Int
          BY <1>0, <3>2, <4>1, <4>2, <4>6
        <5> DEFINE b == Len(E[j])
        <5> HIDE DEF b, D
        <5>3. b \in Int /\ b <= 4 * (n + 1 - j)
          BY <4>6, <5>2 DEF b
        <5>4. Len(B) + b <= 4 * (n + 1 - i)
          BY <5>1, <5>2, <5>3
        <5> QED
          BY <5>4 DEF b
      <4> QED
        BY <4>5, <4>7
    <3> QED
      BY <1>0, <3>1, <3>2
  <2> QED
    BY <2>1
<1>6. \A i \in D : Typed4(i)
  <2>1. S = Nat
    <3> HIDE DEF S
    <3>1. S \in SUBSET Nat
      BY DEF S
    <3> QED
      BY <1>4, <1>5, <3>1, Induction
  <2>2. n + 1 \in S
    BY <1>0, <2>1
  <2> QED
    BY <1>0, <2>2
<1> QED
  <2>1. E \in [D -> Seq(Byte)]
    <3>1. \E f : E = [i \in D |-> f[i]]
      <4> DEFINE F == [i \in D |-> IF i > n THEN <<>> ELSE BytesAt(t, enc, i) \o E[NextUnit(t, i)]]
      <4>1. F = [i \in D |-> F[i]]
        OBVIOUS
      <4>2. E = F
        BY <1>1
      <4> HIDE DEF F, D
      <4> QED
        BY <4>1, <4>2
    <3>2. \A i \in D : E[i] \in Seq(Byte)
      BY <1>6
    <3> HIDE DEF D
    <3> QED
      BY <3>1, <3>2
  <2> QED
    BY <1>2, <1>3, <1>6, <2>1 DEF E

LEMMA PointAtIs ==
    ASSUME NEW data \in Seq(Byte), NEW i \in 1..Len(data), PointAt(data, i) # -1
    PROVE  /\ PointAt(data, i) \in Int
           /\ i + Width(data[i]) \in (i + 1)..(Len(data) + 1)
<1> DEFINE w == Width(data[i])
<1>1. data[i] \in Nat /\ w \in Nat /\ w <= 4
  BY SMT DEF Width, Byte
<1>2. w # 0 /\ i + w - 1 <= Len(data)
  BY SMT DEF PointAt
<1>3. \A j \in 1..(w - 1) : data[i + j] \in Nat
  BY <1>1, <1>2, SMT DEF Byte
<1> HIDE DEF w
<1>4. PointAt(data, i) =
         CASE w = 1 -> data[i]
           [] w = 2 -> 64 * (data[i] - 192) + (data[i + 1] - 128)
           [] w = 3 -> 4096 * (data[i] - 224) + 64 * (data[i + 1] - 128) + (data[i + 2] - 128)
           [] OTHER -> 262144 * (data[i] - 240) + 4096 * (data[i + 1] - 128)
                          + 64 * (data[i + 2] - 128) + (data[i + 3] - 128)
  BY SMT DEF PointAt, w
<1>5. PointAt(data, i) \in Int
  <2>0. \A a, b, c, d \in Int :
           /\ 4096 * (a - 224) + 64 * (b - 128) + (c - 128) \in Int
           /\ 262144 * (a - 240) + 4096 * (b - 128) + 64 * (c - 128) + (d - 128) \in Int
    BY SMT
  <2>1. CASE w = 1
    BY <1>1, <1>4, <2>1, SMT
  <2>2. CASE w = 2
    <3>1. data[i + 1] \in Nat
      BY <1>3, <2>2, SMT
    <3> QED
      BY <1>1, <1>4, <2>2, <3>1, SMT
  <2>3. CASE w = 3
    <3> DEFINE a == data[i]
               b == data[i + 1]
               c == data[i + 2]
    <3>1. a \in Int /\ b \in Int /\ c \in Int
      BY <1>1, <1>3, <2>3, SMT
    <3>2. PointAt(data, i) = 4096 * (a - 224) + 64 * (b - 128) + (c - 128)
      BY <1>4, <2>3, SMT
    <3> HIDE DEF a, b, c
    <3> QED
      BY <2>0, <3>1, <3>2, SMT
  <2>4. CASE w = 4
    <3> DEFINE a == data[i]
               b == data[i + 1]
               c == data[i + 2]
               d == data[i + 3]
    <3>1. a \in Int /\ b \in Int /\ c \in Int /\ d \in Int
      BY <1>1, <1>3, <2>4, SMT
    <3>2. PointAt(data, i) =
             262144 * (a - 240) + 4096 * (b - 128) + 64 * (c - 128) + (d - 128)
      BY <1>4, <2>4, SMT
    <3> HIDE DEF a, b, c, d
    <3> QED
      BY <2>0, <3>1, <3>2, SMT
  <2> QED
    BY <1>1, <1>2, <2>1, <2>2, <2>3, <2>4, SMT
<1> QED
  BY <1>1, <1>2, <1>5, SMT DEF w

\* The recursion of TextsFrom has a solution, and TextsFrom is one.
LEMMA TextsFromFix ==
    ASSUME NEW data \in Seq(Byte)
    PROVE  TextsFrom(data) =
              [i \in 1..(Len(data) + 1) |->
                  IF i > Len(data) THEN {<<>>}
                  ELSE IF PointAt(data, i) = -1 THEN {}
                  ELSE {CodeUnits(PointAt(data, i)) \o rest :
                           rest \in TextsFrom(data)[i + Width(data[i])]}]
<1> DEFINE n == Len(data)
           D == 1..(n + 1)
           V == SUBSET Seq(Int)
           rank == [i \in D |-> n + 1 - i]
           Step == [x \in D \X [D -> V] |->
                       IF x[1] > n THEN {<<>>}
                       ELSE IF PointAt(data, x[1]) = -1 THEN {}
                       ELSE {CodeUnits(PointAt(data, x[1])) \o rest :
                                rest \in x[2][x[1] + Width(data[x[1]])]}]
<1>0. n \in Nat
  OBVIOUS
<1>1. ASSUME NEW i \in D, ~(i > n), PointAt(data, i) # -1
      PROVE  /\ CodeUnits(PointAt(data, i)) \in Seq(Int)
             /\ i + Width(data[i]) \in D /\ i + Width(data[i]) > i
  <2>1. i \in 1..n
    BY <1>0, <1>1
  <2>2. PointAt(data, i) \in Int /\ i + Width(data[i]) \in (i + 1)..(n + 1)
    BY <1>1, <2>1, PointAtIs
  <2>3. ASSUME NEW p \in Int PROVE CodeUnits(p) \in Seq(Int)
    <3>1. CASE p < 65536
      BY <3>1, SMT DEF CodeUnits
    <3>2. CASE ~(p < 65536)
      <4>1. 55296 + (p - 65536) \div 1024 \in Int /\ 56320 + ((p - 65536) % 1024) \in Int
        BY SMT
      <4>2. CodeUnits(p) = <<55296 + (p - 65536) \div 1024, 56320 + ((p - 65536) % 1024)>>
        BY <3>2, SMT DEF CodeUnits
      <4> QED
        BY <4>1, <4>2, SMT
    <3> QED
      BY <3>1, <3>2
  <2>4. i + Width(data[i]) \in D /\ i + Width(data[i]) > i
    BY <1>0, <2>1, <2>2
  <2>5. CodeUnits(PointAt(data, i)) \in Seq(Int)
    BY <2>2, <2>3
  <2> QED
    BY <2>4, <2>5
<1>2. rank \in [D -> 0..n]
  BY <1>0
<1>3. Step \in [D \X [D -> V] -> V]
  <2>1. ASSUME NEW i \in D, NEW g \in [D -> V]
        PROVE  (IF i > n THEN {<<>>}
                ELSE IF PointAt(data, i) = -1 THEN {}
                ELSE {CodeUnits(PointAt(data, i)) \o rest : rest \in g[i + Width(data[i])]}) \in V
    <3>1. CASE ~(i > n) /\ PointAt(data, i) # -1
      <4>1. g[i + Width(data[i])] \in SUBSET Seq(Int)
        BY <1>1, <3>1
      <4>2. \A rest \in g[i + Width(data[i])] : CodeUnits(PointAt(data, i)) \o rest \in Seq(Int)
        BY <1>1, <3>1, <4>1
      <4> QED
        BY <3>1, <4>2
    <3>2. <<>> \in Seq(Int)
      OBVIOUS
    <3> QED
      BY <3>1, <3>2
  <2> HIDE DEF V, D
  <2> QED
    BY <2>1
<1>4. ASSUME NEW i \in D, NEW g \in [D -> V], NEW h \in [D -> V],
             \A j \in D : rank[j] < rank[i] => g[j] = h[j]
      PROVE  Step[<<i, g>>] = Step[<<i, h>>]
  <2>1. CASE ~(i > n) /\ PointAt(data, i) # -1
    <3>1. rank[i + Width(data[i])] < rank[i]
      BY <1>0, <1>1, <2>1
    <3>2. g[i + Width(data[i])] = h[i + Width(data[i])]
      BY <1>1, <1>4, <2>1, <3>1
    <3> HIDE DEF D, V
    <3> QED
      BY <3>2
  <2> HIDE DEF D, V
  <2> QED
    BY <2>1
<1>5. PICK g \in [D -> V] : \A i \in D : g[i] = Step[<<i, g>>]
  <2>1. V # {}
    OBVIOUS
  <2>2. \A i \in D : \A g, h \in [D -> V] :
           (\A j \in D : rank[j] < rank[i] => g[j] = h[j]) => Step[<<i, g>>] = Step[<<i, h>>]
    BY <1>4
  <2> HIDE DEF n, D, V, rank, Step
  <2>3. Descends(D, V, n, rank, Step)
    BY <2>1, <2>2, <1>0, <1>2, <1>3 DEF Descends
  <2> QED
    BY <2>3, Recursion
<1>6. \A i \in D : g[i] =
         IF i > n THEN {<<>>}
         ELSE IF PointAt(data, i) = -1 THEN {}
         ELSE {CodeUnits(PointAt(data, i)) \o rest : rest \in g[i + Width(data[i])]}
  <2> HIDE DEF D, V
  <2> QED
    BY <1>5
<1>7. g = [i \in D |->
         IF i > n THEN {<<>>}
         ELSE IF PointAt(data, i) = -1 THEN {}
         ELSE {CodeUnits(PointAt(data, i)) \o rest : rest \in g[i + Width(data[i])]}]
  <2> HIDE DEF D, V
  <2> QED
    BY <1>6, Zenon
<1>8. TextsFrom(data) = CHOOSE f : f =
              [i \in 1..(Len(data) + 1) |->
                  IF i > Len(data) THEN {<<>>}
                  ELSE IF PointAt(data, i) = -1 THEN {}
                  ELSE {CodeUnits(PointAt(data, i)) \o rest : rest \in f[i + Width(data[i])]}]
  BY DEF TextsFrom
<1> QED
  BY <1>7, <1>8, Zenon

\* What the recursion computes.
LEMMA TextsFromIs ==
    ASSUME NEW data \in Seq(Byte)
    PROVE  /\ TextsFrom(data)[Len(data) + 1] = {<<>>}
           /\ \A i \in 1..Len(data) :
                 TextsFrom(data)[i] =
                    IF PointAt(data, i) = -1 THEN {}
                    ELSE {CodeUnits(PointAt(data, i)) \o rest :
                             rest \in TextsFrom(data)[i + Width(data[i])]}
<1> DEFINE n == Len(data)
           D == 1..(n + 1)
           T == TextsFrom(data)
<1>0. n \in Nat
  OBVIOUS
<1>1. T = [i \in D |->
                  IF i > n THEN {<<>>}
                  ELSE IF PointAt(data, i) = -1 THEN {}
                  ELSE {CodeUnits(PointAt(data, i)) \o rest : rest \in T[i + Width(data[i])]}]
  BY TextsFromFix
<1> HIDE DEF T
<1>2. \A i \in D : T[i] =
                  IF i > n THEN {<<>>}
                  ELSE IF PointAt(data, i) = -1 THEN {}
                  ELSE {CodeUnits(PointAt(data, i)) \o rest : rest \in T[i + Width(data[i])]}
  <2> HIDE DEF D, n
  <2> QED
    BY <1>1, Zenon
<1>3. T[n + 1] = {<<>>}
  <2>1. n + 1 \in D /\ n + 1 > n
    BY <1>0
  <2> QED
    BY <1>2, <2>1
<1>4. ASSUME NEW i \in 1..n
      PROVE  T[i] = IF PointAt(data, i) = -1 THEN {}
                    ELSE {CodeUnits(PointAt(data, i)) \o rest : rest \in T[i + Width(data[i])]}
  <2>1. i \in D /\ ~(i > n)
    BY <1>0
  <2> HIDE DEF D, n
  <2> QED
    BY <1>2, <2>1, Zenon
<1> QED
  BY <1>3, <1>4 DEF T

-----------------------------------------------------------------------------
(***************************************************************************)
(* A text is read back from its bytes.                                     *)
(***************************************************************************)

\* From the i-th unit on, every half belongs to a pair.
WellFormedFrom(t, i) ==
    \A j \in i..Len(t) :
        /\ IsHigh(t[j]) => IsPair(t, j)
        /\ IsLow(t[j])  => j > i /\ IsPair(t, j - 1)

Suffix(t, i) == SubSeq(t, i, Len(t))

LEMMA WellFormedStep ==
    ASSUME NEW t \in Text, NEW i \in 1..Len(t)
    PROVE  /\ IsPair(t, i) => (WellFormedFrom(t, i) <=> WellFormedFrom(t, i + 2))
           /\ ~IsPair(t, i) =>
                 (WellFormedFrom(t, i) <=> ~IsHalf(t[i]) /\ WellFormedFrom(t, i + 1))
<1> DEFINE n == Len(t)
<1>0. n \in Nat /\ \A j \in 1..n : t[j] \in Nat
  BY DEF Text, Unit
<1>1. \A j \in 1..n : ~(IsHigh(t[j]) /\ IsLow(t[j]))
  BY <1>0, SMT DEF IsHigh, IsLow
<1>2. CASE IsPair(t, i)
  <2>1. i < n /\ IsHigh(t[i]) /\ IsLow(t[i + 1]) /\ i + 1 \in 1..n
    BY <1>0, <1>2 DEF IsPair
  <2>2. ~IsHigh(t[i + 1]) /\ ~IsLow(t[i])
    BY <1>1, <2>1
  <2>3. ~IsPair(t, i + 1)
    BY <2>2 DEF IsPair
  <2>4. ASSUME WellFormedFrom(t, i) PROVE WellFormedFrom(t, i + 2)
    <3>1. ASSUME NEW j \in (i + 2)..n, IsLow(t[j]) PROVE j > i + 2 /\ IsPair(t, j - 1)
      <4>1. IsPair(t, j - 1)
        BY <1>0, <2>4, <3>1 DEF WellFormedFrom
      <4>2. j # i + 2
        BY <1>0, <2>3, <4>1
      <4> QED
        BY <1>0, <4>1, <4>2
    <3>2. \A j \in (i + 2)..n : IsHigh(t[j]) => IsPair(t, j)
      BY <1>0, <2>4 DEF WellFormedFrom
    <3> QED
      BY <3>1, <3>2 DEF WellFormedFrom
  <2>5. ASSUME WellFormedFrom(t, i + 2) PROVE WellFormedFrom(t, i)
    <3>1. ASSUME NEW j \in i..n
          PROVE  /\ IsHigh(t[j]) => IsPair(t, j)
                 /\ IsLow(t[j])  => j > i /\ IsPair(t, j - 1)
      <4>1. CASE j = i
        BY <1>2, <2>2, <4>1
      <4>2. CASE j = i + 1
        <5>1. j - 1 = i /\ j > i
          BY <4>2
        <5> QED
          BY <1>2, <2>2, <4>2, <5>1
      <4>3. CASE j \in (i + 2)..n
        BY <1>0, <2>5, <4>3 DEF WellFormedFrom
      <4> QED
        BY <1>0, <4>1, <4>2, <4>3
    <3> QED
      BY <3>1 DEF WellFormedFrom
  <2> QED
    BY <1>2, <2>4, <2>5
<1>3. CASE ~IsPair(t, i)
  <2>1. ASSUME WellFormedFrom(t, i) PROVE ~IsHalf(t[i]) /\ WellFormedFrom(t, i + 1)
    <3>1. ~IsHigh(t[i]) /\ ~IsLow(t[i])
      BY <1>0, <1>3, <2>1 DEF WellFormedFrom
    <3>2. ASSUME NEW j \in (i + 1)..n, IsLow(t[j]) PROVE j > i + 1 /\ IsPair(t, j - 1)
      <4>1. IsPair(t, j - 1)
        BY <1>0, <2>1, <3>2 DEF WellFormedFrom
      <4>2. j # i + 1
        BY <1>0, <1>3, <4>1
      <4> QED
        BY <1>0, <4>1, <4>2
    <3>3. \A j \in (i + 1)..n : IsHigh(t[j]) => IsPair(t, j)
      BY <1>0, <2>1 DEF WellFormedFrom
    <3> QED
      BY <3>1, <3>2, <3>3 DEF WellFormedFrom, IsHalf
  <2>2. ASSUME ~IsHalf(t[i]), WellFormedFrom(t, i + 1) PROVE WellFormedFrom(t, i)
    <3>1. ASSUME NEW j \in i..n
          PROVE  /\ IsHigh(t[j]) => IsPair(t, j)
                 /\ IsLow(t[j])  => j > i /\ IsPair(t, j - 1)
      <4>1. CASE j = i
        BY <2>2, <4>1 DEF IsHalf
      <4>2. CASE j \in (i + 1)..n
        BY <1>0, <2>2, <4>2 DEF WellFormedFrom
      <4> QED
        BY <1>0, <4>1, <4>2
    <3> QED
      BY <3>1 DEF WellFormedFrom
  <2> QED
    BY <1>3, <2>1, <2>2
<1> QED
  BY <1>2, <1>3

LEMMA SuffixStep ==
    ASSUME NEW t \in Text
    PROVE  /\ Suffix(t, Len(t) + 1) = <<>> /\ Suffix(t, 1) = t
           /\ \A i \in 1..Len(t) : <<t[i]>> \o Suffix(t, i + 1) = Suffix(t, i)
           /\ \A i \in 1..Len(t) : i < Len(t) =>
                 <<t[i], t[i + 1]>> \o Suffix(t, i + 2) = Suffix(t, i)
<1>0. Len(t) \in Nat /\ t \in Seq(Unit)
  BY DEF Text
<1>1. Suffix(t, Len(t) + 1) = <<>> /\ Suffix(t, 1) = t
  BY <1>0 DEF Suffix
<1>2. ASSUME NEW i \in 1..Len(t) PROVE <<t[i]>> \o Suffix(t, i + 1) = Suffix(t, i)
  <2>1. Len(t) \in i..Len(t)
    BY <1>0
  <2> QED
    BY <1>0, <2>1, SubSeqRecursiveFirst DEF Suffix
<1>3. ASSUME NEW i \in 1..Len(t), i < Len(t)
      PROVE  <<t[i], t[i + 1]>> \o Suffix(t, i + 2) = Suffix(t, i)
  <2>1. i \in 1..(Len(t) + 1) /\ i + 1 \in (i - 1)..Len(t) /\ Len(t) \in (i + 1)..Len(t)
    BY <1>0, <1>3
  <2>2. SubSeq(t, i, i + 1) \o SubSeq(t, (i + 1) + 1, Len(t)) = SubSeq(t, i, Len(t))
    BY <1>0, <2>1, ConcatAdjacentSubSeq
  <2>3. (i + 1) + 1 = i + 2
    OBVIOUS
  <2>4. SubSeq(t, i, i + 1) = <<t[i], t[i + 1]>>
    <3> DEFINE s == SubSeq(t, i, i + 1)
               p == <<t[i], t[i + 1]>>
    <3>1. s \in Seq(Unit) /\ Len(s) = 2 /\ s[1] = t[i] /\ s[2] = t[i + 1]
      BY <1>0, <1>3
    <3>2. p \in Seq(Unit) /\ Len(p) = 2 /\ p[1] = t[i] /\ p[2] = t[i + 1]
      BY <1>0, <1>3
    <3>3. \A j \in 1..2 : j = 1 \/ j = 2
      OBVIOUS
    <3> HIDE DEF s, p
    <3>4. \A j \in 1..Len(s) : s[j] = p[j]
      BY <3>1, <3>2, <3>3
    <3>5. s = p
      BY <3>1, <3>2, <3>4, SeqEqual
    <3> QED
      BY <3>5 DEF s, p
  <2> QED
    BY <2>2, <2>3, <2>4 DEF Suffix
<1> QED
  BY <1>1, <1>2, <1>3

\* Where the bytes of the text from the i-th unit on lie in its encoding, and that they do.
StartOf(t, enc, i) == Len(Utf8(t, enc)) + 1 - Len(Utf8From(t, enc)[i])

EndsWith(t, enc, i) ==
    /\ Len(Utf8From(t, enc)[i]) <= Len(Utf8(t, enc))
    /\ \A j \in 1..Len(Utf8From(t, enc)[i]) :
          Utf8(t, enc)[StartOf(t, enc, i) + j - 1] = Utf8From(t, enc)[i][j]

ReadsFrom(t, enc, i) ==
    LET texts == TextsFrom(Utf8(t, enc))[StartOf(t, enc, i)]
    IN /\ WellFormedFrom(t, i) => texts = {Suffix(t, i)}
       /\ enc => \E u : texts = {u}
       /\ ~enc /\ ~WellFormedFrom(t, i) => texts = {}

\* One unit, or one pair, is read as what was sent of it.
LEMMA ReadsFromStep ==
    ASSUME NEW t \in Text, NEW enc \in BOOLEAN, NEW i \in 1..Len(t),
           EndsWith(t, enc, i),
           EndsWith(t, enc, NextUnit(t, i)) => ReadsFrom(t, enc, NextUnit(t, i))
    PROVE  ReadsFrom(t, enc, i)
<1> DEFINE n == Len(t)
           E == Utf8From(t, enc)
           data == Utf8(t, enc)
           p == PointSent(t, enc, i)
           B == Utf8Bytes(p)
           k == NextUnit(t, i)
           off == StartOf(t, enc, i)
           T == TextsFrom(data)
<1>0. n \in Nat
  BY DEF Text
<1>1. p \in Point /\ k \in (i + 1)..(n + 1)
  BY PointSentIs
<1>2. B \in Seq(Byte) /\ 1 <= Len(B) /\ Len(B) <= 4 /\ Len(B) \in Nat
  BY <1>1, Utf8BytesIs
<1>3. /\ data \in Seq(Byte) /\ E[k] \in Seq(Byte) /\ E[i] = B \o E[k] /\ E[i] \in Seq(Byte)
      /\ Len(data) \in Nat /\ Len(E[k]) \in Nat
  <2>1. E \in [1..(n + 1) -> Seq(Byte)] /\ E[i] = B \o E[k]
    BY Utf8FromIs
  <2>2. 1 \in 1..(n + 1) /\ i \in 1..(n + 1) /\ k \in 1..(n + 1)
    BY <1>0, <1>1
  <2>3. data = E[1]
    BY DEF Utf8
  <2> HIDE DEF E, data, B, k, n
  <2>4. data \in Seq(Byte) /\ E[k] \in Seq(Byte) /\ E[i] \in Seq(Byte)
    BY <2>1, <2>2, <2>3
  <2> QED
    BY <2>1, <2>4
<1>4. /\ off = Len(data) + 1 - Len(E[i])
      /\ Len(E[i]) <= Len(data)
      /\ \A j \in 1..Len(E[i]) : data[off + j - 1] = E[i][j]
  BY DEF EndsWith, StartOf
<1>5. StartOf(t, enc, k) = Len(data) + 1 - Len(E[k])
  BY DEF StartOf
<1>6. EndsWith(t, enc, k) = /\ Len(E[k]) <= Len(data)
                            /\ \A j \in 1..Len(E[k]) : data[StartOf(t, enc, k) + j - 1] = E[k][j]
  BY DEF EndsWith
<1> HIDE DEF E, data, B, k, off
<1>7. /\ Len(E[i]) = Len(B) + Len(E[k])
      /\ \A j \in 1..(Len(B) + Len(E[k])) :
            E[i][j] = IF j <= Len(B) THEN B[j] ELSE E[k][j - Len(B)]
  BY <1>2, <1>3, ConcatProperties
<1>8. StartOf(t, enc, k) = off + Len(B) /\ off \in 1..Len(data) /\ off + Len(B) - 1 <= Len(data)
  <2>1. ASSUME NEW a \in Nat, NEW b \in Nat, NEW c \in Nat, 1 <= a, a + b <= c
        PROVE  /\ c + 1 - b = c + 1 - (a + b) + a
               /\ c + 1 - (a + b) \in 1..c /\ c + 1 - (a + b) + a - 1 <= c
    BY <2>1
  <2>2. Len(B) + Len(E[k]) <= Len(data) /\ off = Len(data) + 1 - (Len(B) + Len(E[k]))
    BY <1>4, <1>7
  <2> QED
    BY <1>2, <1>3, <1>5, <2>1, <2>2
<1>9. ASSUME NEW j \in 1..Len(B) PROVE data[off + j - 1] = B[j]
  <2>1. j \in 1..(Len(B) + Len(E[k])) /\ j <= Len(B)
    BY <1>2, <1>3
  <2>2. E[i][j] = B[j]
    BY <1>7, <2>1
  <2>3. j \in 1..Len(E[i])
    BY <1>7, <2>1
  <2> QED
    BY <1>4, <2>2, <2>3
<1>10. EndsWith(t, enc, k)
  <2>1. ASSUME NEW j \in 1..Len(E[k]) PROVE data[StartOf(t, enc, k) + j - 1] = E[k][j]
    <3>1. Len(B) + j \in 1..(Len(B) + Len(E[k])) /\ ~(Len(B) + j <= Len(B)) /\ Len(B) + j - Len(B) = j
      BY <1>2, <1>3
    <3> DEFINE u == Len(B) + j
    <3>5. u \in 1..(Len(B) + Len(E[k])) /\ ~(u <= Len(B)) /\ u - Len(B) = j
      BY <3>1
    <3> HIDE DEF u
    <3>6. E[i][u] = E[k][j] /\ data[off + u - 1] = E[i][u]
      BY <1>4, <1>7, <3>5
    <3>2. E[i][Len(B) + j] = E[k][j]
      BY <3>6 DEF u
    <3>3. data[off + (Len(B) + j) - 1] = E[i][Len(B) + j]
      BY <3>6 DEF u
    <3>4. off + (Len(B) + j) - 1 = StartOf(t, enc, k) + j - 1
      BY <1>2, <1>3, <1>8
    <3> QED
      BY <3>2, <3>3, <3>4
  <2> QED
    BY <1>2, <1>3, <1>4, <1>6, <1>7, <2>1
<1>11. ReadsFrom(t, enc, k)
  BY <1>10 DEF k
<1>12. /\ PointAt(data, off) = IF IsHalf(p) THEN -1 ELSE p
       /\ Width(data[off]) = Len(B)
  <2> HIDE DEF p
  <2> QED
    BY <1>1, <1>3, <1>8, <1>9, PointRoundTrip DEF B
<1>13. T[off] = IF IsHalf(p) THEN {} ELSE {CodeUnits(p) \o rest : rest \in T[StartOf(t, enc, k)]}
  <2>1. p # -1
    BY <1>1 DEF Point
  <2>2. T[off] = IF PointAt(data, off) = -1 THEN {}
                 ELSE {CodeUnits(PointAt(data, off)) \o rest : rest \in T[off + Width(data[off])]}
    BY <1>3, <1>8, TextsFromIs
  <2> HIDE DEF p, T
  <2> QED
    BY <1>8, <1>12, <2>1, <2>2
<1>14. /\ WellFormedFrom(t, k) => T[StartOf(t, enc, k)] = {Suffix(t, k)}
       /\ enc => \E u : T[StartOf(t, enc, k)] = {u}
       /\ ~enc /\ ~WellFormedFrom(t, k) => T[StartOf(t, enc, k)] = {}
  BY <1>11 DEF ReadsFrom, data
<1>15. /\ WellFormedFrom(t, i) => ~IsHalf(p) /\ WellFormedFrom(t, k) /\ CodeUnits(p) \o Suffix(t, k) = Suffix(t, i)
       /\ enc => ~IsHalf(p)
       /\ ~enc /\ ~WellFormedFrom(t, i) => IsHalf(p) \/ ~WellFormedFrom(t, k)
  <2>1. CASE IsPair(t, i)
    <3>1. ~IsHalf(p) /\ CodeUnits(p) = <<t[i], t[i + 1]>> /\ k = i + 2
      BY <2>1, PointSentIs DEF k
    <3>2. WellFormedFrom(t, i) <=> WellFormedFrom(t, i + 2)
      BY <2>1, WellFormedStep
    <3>3. <<t[i], t[i + 1]>> \o Suffix(t, i + 2) = Suffix(t, i)
      BY <2>1, SuffixStep DEF IsPair
    <3> HIDE DEF p
    <3> QED
      BY <3>1, <3>2, <3>3
  <2>2. CASE ~IsPair(t, i) /\ ~IsHalf(t[i])
    <3>1. ~IsHalf(p) /\ CodeUnits(p) = <<t[i]>> /\ k = i + 1
      BY <2>2, PointSentIs DEF k
    <3>2. WellFormedFrom(t, i) <=> WellFormedFrom(t, i + 1)
      BY <2>2, WellFormedStep
    <3>3. <<t[i]>> \o Suffix(t, i + 1) = Suffix(t, i)
      BY SuffixStep
    <3> HIDE DEF p
    <3> QED
      BY <3>1, <3>2, <3>3
  <2>3. CASE ~IsPair(t, i) /\ IsHalf(t[i])
    <3>1. IsHalf(p) <=> ~enc
      BY <2>3, PointSentIs
    <3>2. ~WellFormedFrom(t, i)
      BY <2>3, WellFormedStep
    <3> QED
      BY <3>1, <3>2
  <2> QED
    BY <2>1, <2>2, <2>3
<1> HIDE DEF p, T
<1>16. /\ WellFormedFrom(t, i) => T[off] = {Suffix(t, i)}
       /\ enc => \E u : T[off] = {u}
       /\ ~enc /\ ~WellFormedFrom(t, i) => T[off] = {}
  <2>1. ASSUME NEW u, T[StartOf(t, enc, k)] = {u}, ~IsHalf(p) PROVE T[off] = {CodeUnits(p) \o u}
    BY <1>13, <2>1
  <2>2. ASSUME T[StartOf(t, enc, k)] = {} PROVE T[off] = {}
    BY <1>13, <2>2
  <2>3. WellFormedFrom(t, i) => T[off] = {Suffix(t, i)}
    BY <1>14, <1>15, <2>1
  <2>4. enc => \E u : T[off] = {u}
    BY <1>14, <1>15, <2>1
  <2>5. ~enc /\ ~WellFormedFrom(t, i) => T[off] = {}
    BY <1>13, <1>14, <1>15, <2>2
  <2> QED
    BY <2>3, <2>4, <2>5
<1> QED
  BY <1>16 DEF ReadsFrom, T, data, off

(***************************************************************************)
(* What the core reads of a string JavaScript has encoded: the string      *)
(* itself if every half in it belongs to a pair; if not, another one when  *)
(* TextEncoder encoded it, and nothing when the loop of kv.ts did.         *)
(***************************************************************************)
THEOREM TextRoundTrip ==
    ASSUME NEW t \in Text, NEW enc \in BOOLEAN
    PROVE  /\ WellFormedText(t) => FromUtf8(Utf8(t, enc)) = {t}
           /\ enc => \E u : FromUtf8(Utf8(t, enc)) = {u}
           /\ ~enc /\ ~WellFormedText(t) => FromUtf8(Utf8(t, enc)) = {}
<1> DEFINE n == Len(t)
           Holds(i) == EndsWith(t, enc, i) => ReadsFrom(t, enc, i)
           S == {m \in Nat : \A i \in 1..(n + 1) : n + 1 - i <= m => Holds(i)}
<1>0. n \in Nat
  BY DEF Text
<1>1. Holds(n + 1)
  <2>1. Utf8From(t, enc)[n + 1] = <<>> /\ Utf8(t, enc) \in Seq(Byte)
    BY <1>0, Utf8FromIs DEF Utf8
  <2>2. StartOf(t, enc, n + 1) = Len(Utf8(t, enc)) + 1
    BY <2>1 DEF StartOf
  <2>3. TextsFrom(Utf8(t, enc))[StartOf(t, enc, n + 1)] = {<<>>}
    BY <2>1, <2>2, TextsFromIs
  <2>4. Suffix(t, n + 1) = <<>>
    BY SuffixStep
  <2>5. WellFormedFrom(t, n + 1)
    BY <1>0 DEF WellFormedFrom
  <2> QED
    BY <2>3, <2>4, <2>5 DEF ReadsFrom
<1>2. ASSUME NEW i \in 1..n, Holds(NextUnit(t, i)) PROVE Holds(i)
  BY <1>2, ReadsFromStep
<1>3. 0 \in S
  <2>1. ASSUME NEW i \in 1..(n + 1), n + 1 - i <= 0 PROVE Holds(i)
    <3>1. i = n + 1
      BY <1>0, <2>1
    <3> HIDE DEF Holds
    <3> QED
      BY <1>1, <3>1
  <2> HIDE DEF Holds
  <2> QED
    BY <2>1
<1>4. ASSUME NEW m \in S PROVE m + 1 \in S
  <2>0. m \in Nat
    OBVIOUS
  <2>1. ASSUME NEW i \in 1..(n + 1), n + 1 - i <= m + 1 PROVE Holds(i)
    <3>1. CASE i = n + 1
      <4> HIDE DEF Holds
      <4> QED
        BY <1>1, <3>1
    <3>2. CASE i \in 1..n
      <4>1. NextUnit(t, i) \in (i + 1)..(n + 1)
        BY <3>2, PointSentIs
      <4> HIDE DEF Holds
      <4>2. NextUnit(t, i) \in 1..(n + 1) /\ n + 1 - NextUnit(t, i) <= m
        BY <1>0, <2>0, <2>1, <3>2, <4>1
      <4>3. Holds(NextUnit(t, i))
        BY <1>4, <4>2
      <4> QED
        BY <1>2, <3>2, <4>3
    <3> QED
      BY <1>0, <3>1, <3>2
  <2> HIDE DEF Holds
  <2> QED
    BY <2>0, <2>1
<1>5. Holds(1)
  <2>1. S \in SUBSET Nat
    OBVIOUS
  <2>2. S = Nat
    <3> HIDE DEF S
    <3> QED
      BY <1>3, <1>4, <2>1, Induction
  <2>3. n \in S /\ 1 \in 1..(n + 1) /\ n + 1 - 1 <= n
    BY <1>0, <2>2
  <2> HIDE DEF Holds
  <2> QED
    BY <2>3
<1>6. Utf8(t, enc) = Utf8From(t, enc)[1] /\ Utf8(t, enc) \in Seq(Byte)
  BY <1>0, Utf8FromIs DEF Utf8
<1>7. StartOf(t, enc, 1) = 1 /\ EndsWith(t, enc, 1)
  BY <1>6 DEF StartOf, EndsWith
<1>8. Suffix(t, 1) = t
  BY SuffixStep
<1>9. WellFormedText(t) <=> WellFormedFrom(t, 1)
  BY DEF WellFormedText, WellFormedFrom
<1> QED
  BY <1>5, <1>7, <1>8, <1>9 DEF ReadsFrom, FromUtf8

-----------------------------------------------------------------------------
(***************************************************************************)
(* Numbers and sized bytes, wherever in the buffer they lie.               *)
(***************************************************************************)

\* What a length of four bytes can tell.
Sizes == {n \in Nat : n < 4 * 1073741824}

LEMMA U32Is ==
    ASSUME NEW n \in Sizes
    PROVE  /\ U32(n) \in Seq(Byte) /\ Len(U32(n)) = 4
           /\ U32(n)[1] + 256 * U32(n)[2] + 65536 * U32(n)[3] + 16777216 * U32(n)[4] = n
<1> DEFINE a == n % 256
           b == (n \div 256) % 256
           c == (n \div 65536) % 256
           d == (n \div 16777216) % 256
<1>0. n \in Nat /\ n < 4 * 1073741824
  BY SMT DEF Sizes
<1>1. U32(n) = <<a, b, c, d>>
  BY SMT DEF U32
<1>2. a \in Byte /\ b \in Byte /\ c \in Byte /\ d \in Byte
  BY <1>0, SMT DEF Byte
<1>3. a + 256 * b + 65536 * c + 16777216 * d = n
  <2> DEFINE q == n \div 256
             r == n \div 65536
             s == n \div 16777216
  <2>1. q \in Nat /\ r \in Nat /\ s \in Nat
    BY <1>0, SMT
  <2>2. n = 256 * q + a
    BY <1>0, SMT
  <2>3. q = 256 * r + b
    BY <1>0, SMT
  <2>4. r = 256 * s + c
    BY <1>0, SMT
  <2>5. s = d
    BY <1>0, SMT
  <2>6. a \in Int /\ b \in Int /\ c \in Int /\ d \in Int
    BY <1>2, SMT DEF Byte
  <2> HIDE DEF a, b, c, d, q, r, s
  <2> QED
    BY <1>0, <2>1, <2>2, <2>3, <2>4, <2>5, <2>6, SMT
<1> HIDE DEF a, b, c, d
<1> QED
  BY <1>1, <1>2, <1>3, SMT

\* The bytes b lie in data behind its first off.
At(data, off, b) ==
    off + Len(b) <= Len(data) /\ \A j \in 1..Len(b) : data[off + j] = b[j]

LEMMA AtConcat ==
    ASSUME NEW data \in Seq(Byte), NEW off \in Nat, NEW a \in Seq(Byte), NEW b \in Seq(Byte),
           At(data, off, a \o b)
    PROVE  At(data, off, a) /\ At(data, off + Len(a), b)
<1>0. Len(a) \in Nat /\ Len(b) \in Nat /\ Len(data) \in Nat
  OBVIOUS
<1>1. /\ Len(a \o b) = Len(a) + Len(b)
      /\ \A j \in 1..(Len(a) + Len(b)) :
            (a \o b)[j] = IF j <= Len(a) THEN a[j] ELSE b[j - Len(a)]
  BY ConcatProperties
<1>2. /\ off + Len(a \o b) <= Len(data)
      /\ \A j \in 1..Len(a \o b) : data[off + j] = (a \o b)[j]
  BY DEF At
<1>3. ASSUME NEW j \in 1..Len(a) PROVE data[off + j] = a[j]
  <2>1. j \in 1..(Len(a) + Len(b)) /\ j <= Len(a)
    BY <1>0
  <2>2. (a \o b)[j] = a[j] /\ data[off + j] = (a \o b)[j]
    BY <1>1, <1>2, <2>1
  <2> QED
    BY <2>2
<1>4. ASSUME NEW j \in 1..Len(b) PROVE data[off + Len(a) + j] = b[j]
  <2> DEFINE m == Len(a) + j
  <2>1. m \in 1..(Len(a) + Len(b)) /\ ~(m <= Len(a)) /\ m - Len(a) = j
    BY <1>0
  <2>2. off + Len(a) + j = off + m
    BY <1>0
  <2> HIDE DEF m
  <2>3. (a \o b)[m] = b[j] /\ data[off + m] = (a \o b)[m]
    BY <1>1, <1>2, <2>1
  <2> QED
    BY <2>2, <2>3
<1>5. off + Len(a) <= Len(data) /\ off + Len(a) + Len(b) <= Len(data)
  BY <1>0, <1>1, <1>2
<1> QED
  BY <1>3, <1>4, <1>5 DEF At

LEMMA NumberAtIs ==
    ASSUME NEW data \in Seq(Byte), NEW off \in Nat, NEW n \in Sizes, At(data, off, U32(n))
    PROVE  off + 4 <= Len(data) /\ NumberAt(data, off) = n
<1> DEFINE u == U32(n)
<1>1. Len(u) = 4 /\ u[1] + 256 * u[2] + 65536 * u[3] + 16777216 * u[4] = n
  BY U32Is, SMT
<1>2. off + Len(u) <= Len(data) /\ \A j \in 1..Len(u) : data[off + j] = u[j]
  BY DEF At
<1> HIDE DEF u
<1>3. data[off + 1] = u[1] /\ data[off + 2] = u[2] /\ data[off + 3] = u[3] /\ data[off + 4] = u[4]
  BY <1>1, <1>2
<1>4. off + 4 <= Len(data)
  BY <1>1, <1>2
<1>5. NumberAt(data, off) =
         data[off + 1] + 256 * data[off + 2] + 65536 * data[off + 3] + 16777216 * data[off + 4]
  BY SMT DEF NumberAt
<1> DEFINE a == data[off + 1]
           b == data[off + 2]
           c == data[off + 3]
           d == data[off + 4]
<1>6. a = u[1] /\ b = u[2] /\ c = u[3] /\ d = u[4]
  BY <1>3, SMT
<1>7. NumberAt(data, off) = a + 256 * b + 65536 * c + 16777216 * d
  BY <1>5, SMT
<1> HIDE DEF a, b, c, d
<1>8. NumberAt(data, off) = n
  BY <1>1, <1>6, <1>7, SMT
<1> QED
  BY <1>4, <1>8, SMT

LEMMA SizedIs ==
    ASSUME NEW b \in Seq(Byte), Len(b) \in Sizes
    PROVE  Sized(b) \in Seq(Byte) /\ Len(Sized(b)) = 4 + Len(b)
<1> DEFINE u == U32(Len(b))
<1>1. u \in Seq(Byte) /\ Len(u) = 4
  BY U32Is, SMT
<1>2. Sized(b) = u \o b
  BY DEF Sized
<1> HIDE DEF u
<1>3. u \o b \in Seq(Byte) /\ Len(u \o b) = Len(u) + Len(b)
  BY <1>1, ConcatProperties
<1> QED
  BY <1>1, <1>2, <1>3

LEMMA SubSeqOf ==
    ASSUME NEW S, NEW s \in Seq(S), NEW m \in Int, NEW n \in Int,
           1 <= m, m <= n + 1, n <= Len(s)
    PROVE  /\ SubSeq(s, m, n) \in Seq(S) /\ Len(SubSeq(s, m, n)) = n - m + 1
           /\ \A j \in 1..(n - m + 1) : SubSeq(s, m, n)[j] = s[m + j - 1]
<1>1. \A i \in m..n : i \in 1..Len(s)
  OBVIOUS
<1>2. \A i \in m..n : s[i] \in S
  BY <1>1
<1>3. /\ SubSeq(s, m, n) \in Seq(S)
      /\ Len(SubSeq(s, m, n)) = IF m <= n THEN n - m + 1 ELSE 0
      /\ \A j \in 1..(n - m + 1) : SubSeq(s, m, n)[j] = s[m + j - 1]
  BY <1>2, SubSeqProperties
<1> QED
  BY <1>3

LEMMA ReadSizedIs ==
    ASSUME NEW data \in Seq(Byte), NEW off \in Nat, NEW b \in Seq(Byte), Len(b) \in Sizes,
           At(data, off, Sized(b))
    PROVE  ReadSized(data, off) = {[bytes |-> b, off |-> off + 4 + Len(b)]}
<1> DEFINE n == Len(b)
           s == SubSeq(data, off + 5, off + 4 + n)
<1>0. n \in Nat /\ Len(data) \in Nat
  OBVIOUS
<1>1. U32(n) \in Seq(Byte) /\ Len(U32(n)) = 4
  BY U32Is, SMT
<1>2. At(data, off, U32(n)) /\ At(data, off + 4, b)
  BY <1>1, AtConcat DEF Sized
<1>3. off + 4 <= Len(data) /\ NumberAt(data, off) = n
  BY <1>2, NumberAtIs
<1>4. off + 4 + n <= Len(data) /\ \A j \in 1..n : data[off + 4 + j] = b[j]
  BY <1>2 DEF At
<1>5. s = b
  <2>1. s \in Seq(Byte) /\ Len(s) = n /\ \A j \in 1..n : s[j] = data[off + 5 + j - 1]
    <3> DEFINE first == off + 5
               last == off + 4 + n
               r == SubSeq(data, first, last)
    <3>1. /\ first \in Int /\ last \in Int /\ last - first + 1 = n /\ r = s
          /\ \A j \in 1..n : first + j - 1 = off + 5 + j - 1
      BY <1>0, SMT
    <3>2. first <= last + 1 /\ last <= Len(data) /\ 1 <= first
      BY <1>0, <1>4, SMT
    <3> HIDE DEF first, last, s
    <3>3. /\ r \in Seq(Byte) /\ Len(r) = last - first + 1
          /\ \A j \in 1..(last - first + 1) : r[j] = data[first + j - 1]
      BY <3>1, <3>2, SubSeqOf
    <3> HIDE DEF r
    <3>4. r \in Seq(Byte) /\ Len(r) = n /\ \A j \in 1..n : r[j] = data[first + j - 1]
      BY <3>1, <3>3
    <3>5. \A j \in 1..n : r[j] = data[off + 5 + j - 1]
      BY <3>1, <3>4
    <3> QED
      BY <3>1, <3>4, <3>5
  <2>2. ASSUME NEW j \in 1..n PROVE s[j] = b[j]
    <3>1. off + 5 + j - 1 = off + 4 + j
      BY <1>0
    <3> HIDE DEF s
    <3> QED
      BY <1>4, <2>1, <3>1
  <2> HIDE DEF s
  <2> QED
    BY <2>1, <2>2, SeqEqual
<1>6. ~(off + 4 > Len(data)) /\ ~(off + 4 + n > Len(data))
  BY <1>0, <1>3, <1>4
<1> QED
  BY <1>3, <1>5, <1>6 DEF ReadSized

-----------------------------------------------------------------------------
(***************************************************************************)
(* Values, writes and batches.                                             *)
(***************************************************************************)

(***************************************************************************)
(* What a transaction can stage: a string has fewer than 2^30 units, which *)
(* no engine exceeds, and a buffer fewer than 2^32 bytes.                  *)
(***************************************************************************)
ShortText    == {t \in Text : Len(t) < 1073741824}
TextValues   == {Typed(kind, t) : kind \in {"string", "json"}, t \in ShortText}
NumberValues == {Typed("number", b) : b \in {s \in Seq(Byte) : Len(s) = 8}}
FlagValues   == {Typed("boolean", flag) : flag \in BOOLEAN}
BufferValues == {Typed("buffer", b) : b \in {s \in Seq(Byte) : Len(s) \in Sizes}}
Values       == TextValues \cup NumberValues \cup FlagValues \cup BufferValues
Op           == [key : {t \in ShortText : WellFormedText(t)}, write : Values \cup {Delete}]

LEMMA Utf8Is ==
    ASSUME NEW t \in ShortText, NEW enc \in BOOLEAN
    PROVE  Utf8(t, enc) \in Seq(Byte) /\ Len(Utf8(t, enc)) \in Sizes
<1> DEFINE b == Utf8From(t, enc)[1]
<1>1. t \in Text
  BY SMT DEF ShortText
<1>2. Len(t) \in Nat /\ 1 \in 1..(Len(t) + 1)
  BY <1>1, SMT DEF Text
<1>3. b \in Seq(Byte) /\ Len(b) <= 4 * (Len(t) + 1 - 1)
  <2>1. \A i \in 1..(Len(t) + 1) : /\ Utf8From(t, enc)[i] \in Seq(Byte)
                                   /\ Len(Utf8From(t, enc)[i]) <= 4 * (Len(t) + 1 - i)
    BY <1>1, Utf8FromIs, SMT
  <2> QED
    BY <1>2, <2>1, SMT
<1>4. Utf8(t, enc) = b
  BY SMT DEF Utf8
<1> HIDE DEF b
<1>5. Len(b) \in Nat /\ Len(t) < 1073741824
  BY <1>3, SMT DEF ShortText
<1>6. Len(b) \in Sizes
  BY <1>2, <1>3, <1>5, SMT DEF Sizes
<1> QED
  BY <1>3, <1>4, <1>6, SMT

\* What is read of a write stands for it: the same, unless its text has half a pair.
StandsFor(read, write) == read.kind = write.kind /\ (IntactText(write) => read = write)

IsAccepted(write, enc) == enc \/ IntactText(write)

LEMMA DecodeValueIs ==
    ASSUME NEW value \in Values, NEW enc \in BOOLEAN
    PROVE  /\ EncodeValue(value, enc) \in Seq(Byte) /\ Len(EncodeValue(value, enc)) \in Sizes
           /\ Tags[value.kind] \in Byte /\ value # Delete
           /\ IsAccepted(value, enc) =>
                 \E v : DecodeValue(Tags[value.kind], EncodeValue(value, enc)) = {v} /\ StandsFor(v, value)
           /\ ~IsAccepted(value, enc) => DecodeValue(Tags[value.kind], EncodeValue(value, enc)) = {}
<1>1. CASE value \in TextValues
  <2>1. PICK kind \in {"string", "json"}, t \in ShortText : value = Typed(kind, t)
    BY <1>1 DEF TextValues
  <2>2. value.kind = kind /\ value.content = t
    BY <2>1 DEF Typed
  <2>3. EncodeValue(value, enc) = Utf8(t, enc)
    BY <2>2 DEF EncodeValue
  <2>4. t \in Text
    BY DEF ShortText
  <2>5. Tags[kind] = (IF kind = "string" THEN 0 ELSE 4)
    BY DEF Tags
  <2>6. DecodeValue(Tags[kind], Utf8(t, enc)) = {Typed(kind, text) : text \in FromUtf8(Utf8(t, enc))}
    BY <2>5 DEF DecodeValue
  <2>7. IntactText(value) <=> WellFormedText(t)
    BY <2>2 DEF IntactText, IsText
  <2>8. ASSUME NEW u, FromUtf8(Utf8(t, enc)) = {u}
        PROVE  DecodeValue(Tags[kind], Utf8(t, enc)) = {Typed(kind, u)}
    BY <2>6, <2>8
  <2>9. ASSUME FromUtf8(Utf8(t, enc)) = {}
        PROVE  DecodeValue(Tags[kind], Utf8(t, enc)) = {}
    BY <2>6, <2>9
  <2>10. \A u : Typed(kind, u).kind = kind
    BY DEF Typed
  <2>11. Utf8(t, enc) \in Seq(Byte) /\ Len(Utf8(t, enc)) \in Sizes
    BY Utf8Is
  <2>12. Tags[kind] \in Byte /\ value # Delete
    <3>1. Tags[kind] \in Byte
      BY <2>5 DEF Byte
    <3>2. value.kind # "delete"
      BY <2>2
    <3> QED
      BY <3>1, <3>2 DEF Delete
  <2>13. ASSUME IsAccepted(value, enc)
         PROVE  \E v : DecodeValue(Tags[kind], Utf8(t, enc)) = {v} /\ StandsFor(v, value)
    <3>1. CASE WellFormedText(t)
      <4>1. FromUtf8(Utf8(t, enc)) = {t}
        BY <2>4, <3>1, TextRoundTrip
      <4>2. StandsFor(value, value)
        BY DEF StandsFor
      <4> QED
        BY <2>1, <2>8, <4>1, <4>2
    <3>2. CASE ~WellFormedText(t)
      <4>1. PICK u : FromUtf8(Utf8(t, enc)) = {u}
        BY <2>4, <2>7, <2>13, <3>2, TextRoundTrip DEF IsAccepted
      <4>2. StandsFor(Typed(kind, u), value)
        BY <2>2, <2>7, <2>10, <3>2 DEF StandsFor
      <4> QED
        BY <2>8, <4>1, <4>2
    <3> QED
      BY <3>1, <3>2
  <2>14. ASSUME ~IsAccepted(value, enc) PROVE DecodeValue(Tags[kind], Utf8(t, enc)) = {}
    <3>1. FromUtf8(Utf8(t, enc)) = {}
      BY <2>4, <2>7, <2>14, TextRoundTrip DEF IsAccepted
    <3> QED
      BY <2>9, <3>1
  <2> QED
    BY <2>2, <2>3, <2>11, <2>12, <2>13, <2>14
<1>2. CASE value \in NumberValues
  <2>1. PICK b \in Seq(Byte) : Len(b) = 8 /\ value = Typed("number", b)
    BY <1>2 DEF NumberValues
  <2>2. value.kind = "number" /\ value.content = b
    BY <2>1 DEF Typed
  <2>3. EncodeValue(value, enc) = b /\ Tags[value.kind] = 1
    BY <2>2 DEF EncodeValue, Tags
  <2>4. DecodeValue(1, b) = {value}
    BY <2>1 DEF DecodeValue
  <2>5. IsAccepted(value, enc) /\ StandsFor(value, value)
    BY <2>2 DEF IsAccepted, IntactText, IsText, StandsFor
  <2>6. 8 \in Sizes /\ 1 \in Byte
    BY SMT DEF Sizes, Byte
  <2>7. value # Delete
    <3>1. value.kind # "delete"
      BY <2>2
    <3> QED
      BY <3>1 DEF Delete
  <2> QED
    BY <2>1, <2>3, <2>4, <2>5, <2>6, <2>7
<1>3. CASE value \in FlagValues
  <2>1. PICK flag \in BOOLEAN : value = Typed("boolean", flag)
    BY <1>3 DEF FlagValues
  <2>2. value.kind = "boolean" /\ value.content = flag
    BY <2>1 DEF Typed
  <2> DEFINE b == <<IF flag THEN 1 ELSE 0>>
  <2>3. EncodeValue(value, enc) = b /\ Tags[value.kind] = 2
    BY <2>2 DEF EncodeValue, Tags
  <2>4. DecodeValue(2, b) = {value}
    <3>1. DecodeValue(2, b) =
             {Typed("boolean", f) : f \in {c \in BOOLEAN : b = <<IF c THEN 1 ELSE 0>>}}
      BY DEF DecodeValue
    <3>2. {c \in BOOLEAN : b = <<IF c THEN 1 ELSE 0>>} = {flag}
      OBVIOUS
    <3> QED
      BY <2>1, <3>1, <3>2
  <2>5. IsAccepted(value, enc) /\ StandsFor(value, value)
    BY <2>2 DEF IsAccepted, IntactText, IsText, StandsFor
  <2>6. b \in Seq(Byte) /\ Len(b) = 1 /\ 1 \in Sizes /\ 2 \in Byte
    BY SMT DEF Sizes, Byte
  <2>7. value # Delete
    <3>1. value.kind # "delete"
      BY <2>2
    <3> QED
      BY <3>1 DEF Delete
  <2> HIDE DEF b
  <2> QED
    BY <2>1, <2>3, <2>4, <2>5, <2>6, <2>7
<1>4. CASE value \in BufferValues
  <2>1. PICK b \in Seq(Byte) : Len(b) \in Sizes /\ value = Typed("buffer", b)
    BY <1>4 DEF BufferValues
  <2>2. value.kind = "buffer" /\ value.content = b
    BY <2>1 DEF Typed
  <2>3. EncodeValue(value, enc) = b /\ Tags[value.kind] = 3
    BY <2>2 DEF EncodeValue, Tags
  <2>4. DecodeValue(3, b) = {value}
    BY <2>1 DEF DecodeValue
  <2>5. IsAccepted(value, enc) /\ StandsFor(value, value)
    BY <2>2 DEF IsAccepted, IntactText, IsText, StandsFor
  <2>6. 3 \in Byte
    BY SMT DEF Byte
  <2>7. value # Delete
    <3>1. value.kind # "delete"
      BY <2>2
    <3> QED
      BY <3>1 DEF Delete
  <2> QED
    BY <2>1, <2>3, <2>4, <2>5, <2>6, <2>7
<1> QED
  BY <1>1, <1>2, <1>3, <1>4 DEF Values

LEMMA AtOne ==
    ASSUME NEW data \in Seq(Byte), NEW off \in Nat, NEW x, At(data, off, <<x>>)
    PROVE  off < Len(data) /\ data[off + 1] = x
<1>1. Len(<<x>>) = 1 /\ <<x>>[1] = x
  OBVIOUS
<1>2. off + 1 <= Len(data) /\ \A j \in 1..1 : data[off + j] = <<x>>[j]
  BY <1>1 DEF At
<1>3. data[off + 1] = x
  BY <1>1, <1>2
<1>4. Len(data) \in Nat
  OBVIOUS
<1> QED
  BY <1>2, <1>3, <1>4

LEMMA OneIs ==
    ASSUME NEW x \in Byte
    PROVE  <<x>> \in Seq(Byte) /\ Len(<<x>>) = 1
OBVIOUS

\* The write of an operation, behind its key.
LEMMA DecodeWriteIs ==
    ASSUME NEW value \in Values, NEW enc \in BOOLEAN, NEW data \in Seq(Byte), NEW off \in Nat,
           At(data, off, <<Tags[value.kind]>>),
           At(data, off + 1, Sized(EncodeValue(value, enc))),
           NEW end, end = off + 5 + Len(EncodeValue(value, enc))
    PROVE  /\ IsAccepted(value, enc) =>
                 \E v : /\ DecodeWrite(data, off, 1) = {[write |-> v, off |-> end]}
                        /\ StandsFor(v, value)
           /\ ~IsAccepted(value, enc) => DecodeWrite(data, off, 1) = {}
<1> DEFINE b == EncodeValue(value, enc)
           tag == Tags[value.kind]
<1>1. /\ b \in Seq(Byte) /\ Len(b) \in Sizes
      /\ IsAccepted(value, enc) => \E v : DecodeValue(tag, b) = {v} /\ StandsFor(v, value)
      /\ ~IsAccepted(value, enc) => DecodeValue(tag, b) = {}
  BY DecodeValueIs
<1>2. off < Len(data) /\ data[off + 1] = tag
  BY AtOne
<1>0. At(data, off + 1, Sized(b)) /\ off + 1 \in Nat /\ end = off + 5 + Len(b)
  OBVIOUS
<1> HIDE DEF b, tag
<1>3. ReadSized(data, off + 1) = {[bytes |-> b, off |-> off + 1 + 4 + Len(b)]}
  BY <1>0, <1>1, ReadSizedIs
<1>4. off + 1 + 4 + Len(b) = end
  BY <1>0, <1>1
<1>5. DecodeWrite(data, off, 1) =
         UNION {{[write |-> v, off |-> read.off] : v \in DecodeValue(tag, read.bytes)} :
                   read \in ReadSized(data, off + 1)}
  <2>1. ~(off >= Len(data))
    <3>1. Len(data) \in Nat
      OBVIOUS
    <3> QED
      BY <1>2, <3>1
  <2> QED
    BY <1>2, <2>1 DEF DecodeWrite
<1>6. DecodeWrite(data, off, 1) = {[write |-> v, off |-> end] : v \in DecodeValue(tag, b)}
  <2> DEFINE r == [bytes |-> b, off |-> end]
  <2>1. ReadSized(data, off + 1) = {r} /\ r.bytes = b /\ r.off = end
    BY <1>3, <1>4
  <2> HIDE DEF r
  <2> QED
    BY <1>5, <2>1
<1>7. ASSUME NEW v, DecodeValue(tag, b) = {v}
      PROVE  DecodeWrite(data, off, 1) = {[write |-> v, off |-> end]}
  BY <1>6, <1>7
<1>8. ASSUME DecodeValue(tag, b) = {} PROVE DecodeWrite(data, off, 1) = {}
  BY <1>6, <1>8
<1> QED
  BY <1>1, <1>7, <1>8

LEMMA EncodeOpIs ==
    ASSUME NEW op \in Op, NEW enc \in BOOLEAN
    PROVE  EncodeOp(op, enc) \in Seq(Byte)
<1> DEFINE key == Sized(Utf8(op.key, enc))
<1>1. op.key \in ShortText /\ op.write \in Values \cup {Delete}
  BY DEF Op
<1>2. key \in Seq(Byte)
  BY <1>1, Utf8Is, SizedIs
<1> HIDE DEF key
<1>3. CASE op.write = Delete
  <2>1. <<0>> \in Seq(Byte)
    BY DEF Byte
  <2>2. EncodeOp(op, enc) = <<0>> \o key
    BY <1>3 DEF EncodeOp, key
  <2> QED
    BY <1>2, <2>1, <2>2, ConcatProperties
<1>4. CASE op.write # Delete
  <2> DEFINE v == Sized(EncodeValue(op.write, enc))
             tag == <<Tags[op.write.kind]>>
  <2>1. op.write \in Values
    BY <1>1, <1>4
  <2>2. v \in Seq(Byte) /\ Tags[op.write.kind] \in Byte
    BY <2>1, DecodeValueIs, SizedIs
  <2>3. tag \in Seq(Byte)
    BY <2>2
  <2>4. <<1>> \in Seq(Byte)
    BY DEF Byte
  <2>5. EncodeOp(op, enc) = ((<<1>> \o key) \o tag) \o v
    BY <1>4 DEF EncodeOp, key
  <2> HIDE DEF v, tag
  <2>6. <<1>> \o key \in Seq(Byte)
    BY <1>2, <2>4, ConcatProperties
  <2>7. (<<1>> \o key) \o tag \in Seq(Byte)
    BY <2>3, <2>6, ConcatProperties
  <2> QED
    BY <2>2, <2>5, <2>7, ConcatProperties
<1> QED
  BY <1>3, <1>4

\* What an operation of a batch is read as, where it was written.
LEMMA DecodeOpIs ==
    ASSUME NEW op \in Op, NEW enc \in BOOLEAN, NEW data \in Seq(Byte), NEW off \in Nat,
           At(data, off, EncodeOp(op, enc))
    PROVE  /\ IsAccepted(op.write, enc) =>
                 \E v : /\ DecodeOp(data, off) = {[op  |-> [key |-> op.key, write |-> v],
                                                   off |-> off + Len(EncodeOp(op, enc))]}
                        /\ StandsFor(v, op.write)
           /\ ~IsAccepted(op.write, enc) => DecodeOp(data, off) = {}
<1> DEFINE kb == Utf8(op.key, enc)
           key == Sized(kb)
           kind == IF op.write = Delete THEN 0 ELSE 1
           next == off + 5 + Len(kb)
           end == off + Len(EncodeOp(op, enc))
<1>1. /\ op.key \in ShortText /\ op.key \in Text /\ WellFormedText(op.key)
      /\ op.write \in Values \cup {Delete}
  BY DEF Op, ShortText
<1>2. kb \in Seq(Byte) /\ Len(kb) \in Sizes /\ Len(kb) \in Nat
  BY <1>1, Utf8Is
<1>3. key \in Seq(Byte) /\ Len(key) = 4 + Len(kb)
  BY <1>2, SizedIs
<1>4. FromUtf8(kb) = {op.key}
  BY <1>1, TextRoundTrip
<1> HIDE DEF kb, key
<1>5. /\ At(data, off, <<kind>>) /\ At(data, off + 1, key)
      /\ op.write # Delete =>
            /\ At(data, next, <<Tags[op.write.kind]>>)
            /\ At(data, next + 1, Sized(EncodeValue(op.write, enc)))
            /\ end = next + 5 + Len(EncodeValue(op.write, enc))
      /\ op.write = Delete => end = next
  <2>1. CASE op.write = Delete
    <3>1. EncodeOp(op, enc) = <<0>> \o key
      BY <2>1 DEF EncodeOp, key, kb
    <3>2. <<0>> \in Seq(Byte) /\ Len(<<0>>) = 1
      BY DEF Byte
    <3>3. At(data, off, <<0>>) /\ At(data, off + 1, key)
      BY <1>3, <3>1, <3>2, AtConcat
    <3>4. Len(EncodeOp(op, enc)) = 1 + Len(key)
      BY <1>3, <3>1, <3>2, ConcatProperties
    <3>5. end = next
      BY <1>2, <1>3, <3>4
    <3> QED
      BY <2>1, <3>3, <3>5
  <2>2. CASE op.write # Delete
    <3> DEFINE b == EncodeValue(op.write, enc)
               v == Sized(b)
               one == <<1>>
               tag == <<Tags[op.write.kind]>>
    <3>1. op.write \in Values
      BY <1>1, <2>2
    <3>2. b \in Seq(Byte) /\ Len(b) \in Sizes /\ Tags[op.write.kind] \in Byte
      BY <3>1, DecodeValueIs
    <3>3. v \in Seq(Byte) /\ Len(v) = 4 + Len(b) /\ Len(b) \in Nat
      BY <3>2, SizedIs
    <3>4. tag \in Seq(Byte) /\ Len(tag) = 1
      BY <3>2
    <3>5. one \in Seq(Byte) /\ Len(one) = 1
      BY DEF Byte
    <3>6. EncodeOp(op, enc) = ((one \o key) \o tag) \o v
      BY <2>2 DEF EncodeOp, key, kb
    <3>14. kind = 1
      BY <2>2
    <3> HIDE DEF b, v, one, tag, kind
    <3>7. one \o key \in Seq(Byte) /\ Len(one \o key) = 1 + Len(key)
      BY <1>3, <3>5, ConcatProperties
    <3>8. (one \o key) \o tag \in Seq(Byte) /\ Len((one \o key) \o tag) = 1 + Len(key) + 1
      BY <1>3, <3>4, <3>7, ConcatProperties
    <3>9. Len(EncodeOp(op, enc)) = 1 + Len(key) + 1 + Len(v)
      <4> DEFINE front == (one \o key) \o tag
      <4>1. front \in Seq(Byte) /\ Len(front) = 1 + Len(key) + 1 /\ EncodeOp(op, enc) = front \o v
        BY <3>6, <3>8
      <4> HIDE DEF front
      <4>2. Len(front \o v) = Len(front) + Len(v)
        BY <3>3, <4>1, ConcatProperties
      <4> QED
        BY <4>1, <4>2
    <3>10. At(data, off, (one \o key) \o tag) /\ At(data, off + (1 + Len(key) + 1), v)
      <4> DEFINE front == (one \o key) \o tag
      <4>1. front \in Seq(Byte) /\ Len(front) = 1 + Len(key) + 1 /\ At(data, off, front \o v)
        BY <3>6, <3>8
      <4> HIDE DEF front
      <4>2. At(data, off, front) /\ At(data, off + Len(front), v)
        BY <3>3, <4>1, AtConcat
      <4> QED
        BY <4>1, <4>2 DEF front
    <3>11. At(data, off, one \o key) /\ At(data, off + (1 + Len(key)), tag)
      BY <3>4, <3>7, <3>10, AtConcat
    <3>12. At(data, off, one) /\ At(data, off + 1, key)
      BY <1>3, <3>5, <3>11, AtConcat
    <3>13. /\ off + (1 + Len(key)) = next /\ off + (1 + Len(key) + 1) = next + 1
           /\ end = next + 5 + Len(b)
      BY <1>2, <1>3, <3>3, <3>9
    <3> QED
      BY <2>2, <3>10, <3>11, <3>12, <3>13, <3>14 DEF one, tag, v, b
  <2> QED
    BY <2>1, <2>2
<1>6. off < Len(data) /\ data[off + 1] = kind /\ Len(data) \in Nat
  BY <1>5, AtOne
<1>7. ReadSized(data, off + 1) = {[bytes |-> kb, off |-> off + 1 + 4 + Len(kb)]}
  BY <1>2, <1>5, ReadSizedIs DEF key
<1>8. off + 1 + 4 + Len(kb) = next /\ next \in Nat
  BY <1>2
<1> HIDE DEF next, end, kind
<1>9. DecodeOp(data, off) =
         UNION {UNION {{[op |-> [key |-> k, write |-> rest.write], off |-> rest.off] :
                           rest \in DecodeWrite(data, read.off, kind)} :
                       k \in FromUtf8(read.bytes)} :
                read \in ReadSized(data, off + 1)}
  <2>1. ~(off >= Len(data))
    BY <1>6
  <2> QED
    BY <1>6, <2>1 DEF DecodeOp
<1>10. DecodeOp(data, off) = {[op |-> [key |-> op.key, write |-> rest.write], off |-> rest.off] :
                                 rest \in DecodeWrite(data, next, kind)}
  <2> DEFINE r == [bytes |-> kb, off |-> next]
             OpsAt(k, n) == {[op |-> [key |-> k, write |-> rest.write], off |-> rest.off] :
                                rest \in DecodeWrite(data, n, kind)}
  <2>1. ReadSized(data, off + 1) = {r} /\ r.bytes = kb /\ r.off = next
    BY <1>7, <1>8
  <2>2. DecodeOp(data, off) =
           UNION {UNION {OpsAt(k, read.off) : k \in FromUtf8(read.bytes)} :
                     read \in ReadSized(data, off + 1)}
    BY <1>9, Zenon
  <2> HIDE DEF r, OpsAt
  <2>3. UNION {OpsAt(k, next) : k \in {op.key}} = OpsAt(op.key, next)
    OBVIOUS
  <2>4. DecodeOp(data, off) = UNION {OpsAt(k, next) : k \in {op.key}}
    <3> DEFINE All(read) == UNION {OpsAt(k, read.off) : k \in FromUtf8(read.bytes)}
    <3>1. DecodeOp(data, off) = UNION {All(read) : read \in {r}}
      BY <2>1, <2>2
    <3>2. All(r) = UNION {OpsAt(k, next) : k \in {op.key}}
      BY <1>4, <2>1
    <3> HIDE DEF All
    <3>3. UNION {All(read) : read \in {r}} = All(r)
      OBVIOUS
    <3> QED
      BY <3>1, <3>2, <3>3
  <2> QED
    BY <2>3, <2>4 DEF OpsAt
<1>11. ASSUME NEW v, DecodeWrite(data, next, kind) = {[write |-> v, off |-> end]}
       PROVE  DecodeOp(data, off) = {[op |-> [key |-> op.key, write |-> v], off |-> end]}
  <2> DEFINE w == [write |-> v, off |-> end]
  <2>1. w.write = v /\ w.off = end /\ DecodeWrite(data, next, kind) = {w}
    BY <1>11
  <2> HIDE DEF w
  <2> QED
    BY <1>10, <2>1
<1>12. ASSUME DecodeWrite(data, next, kind) = {} PROVE DecodeOp(data, off) = {}
  BY <1>10, <1>12
<1>13. CASE op.write = Delete
  <2>1. kind = 0 /\ end = next
    BY <1>5, <1>13 DEF kind
  <2>2. DecodeWrite(data, next, 0) = {[write |-> Delete, off |-> next]}
    BY DEF DecodeWrite
  <2>3. StandsFor(Delete, op.write) /\ IsAccepted(op.write, enc)
    BY <1>13 DEF StandsFor, IsAccepted, IntactText, IsText, Delete
  <2> QED
    BY <1>11, <2>1, <2>2, <2>3 DEF end
<1>14. CASE op.write # Delete
  <2>1. kind = 1 /\ op.write \in Values
    BY <1>1, <1>14 DEF kind
  <2>2. /\ At(data, next, <<Tags[op.write.kind]>>)
        /\ At(data, next + 1, Sized(EncodeValue(op.write, enc)))
        /\ end = next + 5 + Len(EncodeValue(op.write, enc))
    BY <1>5, <1>14
  <2>3. /\ IsAccepted(op.write, enc) =>
              \E v : DecodeWrite(data, next, 1) = {[write |-> v, off |-> end]} /\ StandsFor(v, op.write)
        /\ ~IsAccepted(op.write, enc) => DecodeWrite(data, next, 1) = {}
    BY <1>8, <2>1, <2>2, DecodeWriteIs
  <2> QED
    BY <1>11, <1>12, <2>1, <2>3 DEF end
<1> QED
  BY <1>13, <1>14

\* A transaction's writes: a key is staged once.
Batch == {writes \in Seq(Op) : /\ Len(writes) \in Sizes
                               /\ \A i, j \in 1..Len(writes) : writes[i].key = writes[j].key => i = j}

LEMMA BatchIs ==
    ASSUME NEW writes \in Batch
    PROVE  /\ writes \in Seq(Op) /\ Len(writes) \in Nat /\ Len(writes) \in Sizes
           /\ \A i \in 1..Len(writes) : writes[i] \in Op
           /\ \A i, j \in 1..Len(writes) : writes[i].key = writes[j].key => i = j
BY DEF Batch

\* The recursion of Written has a solution, and Written is one.
LEMMA WrittenFix ==
    ASSUME NEW writes \in Batch, NEW enc \in BOOLEAN
    PROVE  Written(writes, enc) =
              [n \in 0..Len(writes) |->
                  IF n = 0 THEN U32(Len(writes))
                           ELSE Written(writes, enc)[n - 1] \o EncodeOp(writes[n], enc)]
<1> DEFINE m == Len(writes)
           D == 0..m
           V == Seq(Byte)
           rank == [n \in D |-> n]
           Step == [x \in D \X [D -> V] |->
                       IF x[1] = 0 THEN U32(m)
                       ELSE x[2][x[1] - 1] \o EncodeOp(writes[x[1]], enc)]
<1>0. m \in Nat /\ m \in Sizes
  BY BatchIs
<1>1. U32(m) \in V /\ \A n \in 1..m : EncodeOp(writes[n], enc) \in V
  BY <1>0, U32Is, EncodeOpIs, BatchIs, SMT
<1>2. rank \in [D -> 0..m]
  BY <1>0
<1>3. Step \in [D \X [D -> V] -> V]
  <2>1. ASSUME NEW n \in D, NEW g \in [D -> V]
        PROVE  (IF n = 0 THEN U32(m) ELSE g[n - 1] \o EncodeOp(writes[n], enc)) \in V
    <3>1. CASE n = 0
      BY <1>1, <3>1
    <3>2. CASE n # 0
      <4>1. n \in 1..m /\ n - 1 \in D
        BY <1>0, <3>2
      <4>2. g[n - 1] \in V /\ EncodeOp(writes[n], enc) \in V
        BY <1>1, <4>1
      <4> QED
        BY <3>2, <4>2, ConcatProperties
    <3> QED
      BY <3>1, <3>2
  <2> HIDE DEF V, D
  <2> QED
    BY <2>1
<1>4. ASSUME NEW i \in D, NEW g \in [D -> V], NEW h \in [D -> V],
             \A j \in D : rank[j] < rank[i] => g[j] = h[j]
      PROVE  Step[<<i, g>>] = Step[<<i, h>>]
  <2>1. i # 0 => i - 1 \in D /\ rank[i - 1] < rank[i]
    BY <1>0
  <2>2. i # 0 => g[i - 1] = h[i - 1]
    BY <1>4, <2>1
  <2> HIDE DEF D, V
  <2> QED
    BY <2>2
<1>5. PICK g \in [D -> V] : \A i \in D : g[i] = Step[<<i, g>>]
  <2>1. V # {}
    BY <1>1
  <2>2. \A i \in D : \A g, h \in [D -> V] :
           (\A j \in D : rank[j] < rank[i] => g[j] = h[j]) => Step[<<i, g>>] = Step[<<i, h>>]
    BY <1>4
  <2> HIDE DEF m, D, V, rank, Step
  <2>3. Descends(D, V, m, rank, Step)
    BY <2>1, <2>2, <1>0, <1>2, <1>3 DEF Descends
  <2> QED
    BY <2>3, Recursion
<1>6. \A n \in D : g[n] = IF n = 0 THEN U32(m) ELSE g[n - 1] \o EncodeOp(writes[n], enc)
  <2> HIDE DEF D, V
  <2> QED
    BY <1>5
<1>7. g = [n \in D |-> IF n = 0 THEN U32(m) ELSE g[n - 1] \o EncodeOp(writes[n], enc)]
  <2> HIDE DEF D, V
  <2> QED
    BY <1>6
<1>8. Written(writes, enc) = CHOOSE f : f =
              [n \in 0..Len(writes) |->
                  IF n = 0 THEN U32(Len(writes)) ELSE f[n - 1] \o EncodeOp(writes[n], enc)]
  BY DEF Written
<1> QED
  BY <1>7, <1>8, Zenon

\* What the recursion computes.
LEMMA WrittenIs ==
    ASSUME NEW writes \in Batch, NEW enc \in BOOLEAN
    PROVE  /\ \A n \in 0..Len(writes) : Written(writes, enc)[n] \in Seq(Byte)
           /\ Written(writes, enc)[0] = U32(Len(writes))
           /\ \A n \in 1..Len(writes) :
                 Written(writes, enc)[n] = Written(writes, enc)[n - 1] \o EncodeOp(writes[n], enc)
<1> DEFINE m == Len(writes)
           D == 0..m
           W == Written(writes, enc)
           S == {k \in Nat : k <= m => W[k] \in Seq(Byte)}
<1>0. m \in Nat /\ m \in Sizes
  BY BatchIs
<1>1. W = [n \in D |-> IF n = 0 THEN U32(m) ELSE W[n - 1] \o EncodeOp(writes[n], enc)]
  BY WrittenFix
<1> HIDE DEF W
<1>2. \A n \in D : W[n] = IF n = 0 THEN U32(m) ELSE W[n - 1] \o EncodeOp(writes[n], enc)
  <2> HIDE DEF D, m
  <2> QED
    BY <1>1, Zenon
<1>3. W[0] = U32(m)
  BY <1>0, <1>2
<1>4. ASSUME NEW n \in 1..m PROVE W[n] = W[n - 1] \o EncodeOp(writes[n], enc)
  <2>1. n \in D /\ n # 0
    BY <1>0
  <2> QED
    BY <1>2, <2>1
<1>5. 0 \in S
  BY <1>0, <1>3, U32Is, SMT
<1>6. ASSUME NEW k \in S PROVE k + 1 \in S
  <2>1. ASSUME k + 1 <= m PROVE W[k + 1] \in Seq(Byte)
    <3>1. k + 1 \in 1..m /\ k + 1 - 1 = k /\ k <= m
      BY <1>0, <2>1
    <3>2. W[k] \in Seq(Byte)
      BY <3>1
    <3>3. EncodeOp(writes[k + 1], enc) \in Seq(Byte)
      <4>1. writes[k + 1] \in Op
        BY <3>1, BatchIs
      <4> QED
        BY <4>1, EncodeOpIs
    <3>4. W[k + 1] = W[k] \o EncodeOp(writes[k + 1], enc)
      <4> DEFINE n == k + 1
      <4>1. n \in 1..m /\ n - 1 = k
        BY <3>1
      <4> HIDE DEF n, m, S
      <4>2. W[n] = W[n - 1] \o EncodeOp(writes[n], enc)
        BY <1>4, <4>1
      <4>3. W[n] = W[k] \o EncodeOp(writes[n], enc)
        BY <4>1, <4>2
      <4> QED
        BY <4>3 DEF n
    <3> QED
      BY <3>2, <3>3, <3>4, ConcatProperties
  <2> QED
    BY <2>1
<1>7. S = Nat
  <2>1. S \in SUBSET Nat
    OBVIOUS
  <2> HIDE DEF S
  <2> QED
    BY <1>5, <1>6, <2>1, Induction
<1>8. ASSUME NEW n \in 0..m PROVE W[n] \in Seq(Byte)
  <2>1. n \in Nat /\ n <= m
    BY <1>0
  <2>2. n \in S
    <3> HIDE DEF S
    <3> QED
      BY <1>7, <2>1
  <2> QED
    BY <2>1, <2>2
<1> QED
  BY <1>3, <1>4, <1>8 DEF W

\* Each write lies in the batch behind those before it, and the count in front.
LEMMA WrittenLies ==
    ASSUME NEW writes \in Batch, NEW enc \in BOOLEAN
    PROVE  /\ EncodeBatch(writes, enc) \in Seq(Byte)
           /\ At(EncodeBatch(writes, enc), 0, U32(Len(writes)))
           /\ \A n \in 1..Len(writes) :
                 /\ At(EncodeBatch(writes, enc), Len(Written(writes, enc)[n - 1]),
                       EncodeOp(writes[n], enc))
                 /\ Len(Written(writes, enc)[n]) =
                       Len(Written(writes, enc)[n - 1]) + Len(EncodeOp(writes[n], enc))
<1> DEFINE m == Len(writes)
           W == Written(writes, enc)
           S == {d \in Nat : d <= m => At(W[m], 0, W[m - d])}
<1>0. m \in Nat
  BY BatchIs
<1>1. /\ \A n \in 0..m : W[n] \in Seq(Byte)
      /\ W[0] = U32(m)
      /\ \A n \in 1..m : W[n] = W[n - 1] \o EncodeOp(writes[n], enc)
  BY WrittenIs
<1>2. \A n \in 1..m : EncodeOp(writes[n], enc) \in Seq(Byte)
  BY EncodeOpIs, BatchIs
<1> HIDE DEF W
<1>3. 0 \in S
  <2>1. W[m] \in Seq(Byte) /\ m - 0 = m
    BY <1>0, <1>1
  <2>2. At(W[m], 0, W[m])
    BY <2>1 DEF At
  <2> QED
    BY <2>1, <2>2
<1>4. ASSUME NEW n \in 1..m, At(W[m], 0, W[n])
      PROVE  /\ At(W[m], 0, W[n - 1])
             /\ At(W[m], Len(W[n - 1]), EncodeOp(writes[n], enc))
  <2> DEFINE a == W[n - 1]
             b == EncodeOp(writes[n], enc)
             data == W[m]
  <2>1. a \in Seq(Byte) /\ b \in Seq(Byte) /\ data \in Seq(Byte) /\ W[n] = a \o b
    <3>1. n - 1 \in 0..m /\ m \in 0..m
      BY <1>0
    <3> QED
      BY <1>1, <1>2, <3>1
  <2>2. At(data, 0, a \o b)
    BY <1>4, <2>1
  <2> HIDE DEF a, b, data
  <2>3. At(data, 0, a) /\ At(data, 0 + Len(a), b)
    BY <2>1, <2>2, AtConcat
  <2>4. 0 + Len(a) = Len(a)
    BY <2>1
  <2> QED
    BY <2>3, <2>4 DEF a, b, data
<1>5. ASSUME NEW d \in S PROVE d + 1 \in S
  <2>1. ASSUME d + 1 <= m PROVE At(W[m], 0, W[m - (d + 1)])
    <3>1. m - d \in 1..m /\ m - d - 1 = m - (d + 1) /\ d <= m
      BY <1>0, <2>1
    <3>2. At(W[m], 0, W[m - d])
      BY <3>1
    <3> QED
      BY <1>4, <3>1, <3>2
  <2> QED
    BY <2>1
<1>6. S = Nat
  <2>1. S \in SUBSET Nat
    OBVIOUS
  <2> HIDE DEF S
  <2> QED
    BY <1>3, <1>5, <2>1, Induction
<1>7. ASSUME NEW n \in 0..m PROVE At(W[m], 0, W[n])
  <2>1. m - n \in Nat /\ m - n <= m /\ m - (m - n) = n
    BY <1>0
  <2>2. m - n \in S
    <3> HIDE DEF S
    <3> QED
      BY <1>6, <2>1
  <2> QED
    BY <2>1, <2>2
<1>8. At(W[m], 0, U32(m)) /\ W[m] \in Seq(Byte)
  BY <1>0, <1>1, <1>7
<1>9. ASSUME NEW n \in 1..m
      PROVE  /\ At(W[m], Len(W[n - 1]), EncodeOp(writes[n], enc))
             /\ Len(W[n]) = Len(W[n - 1]) + Len(EncodeOp(writes[n], enc))
  <2>1. n \in 0..m /\ n - 1 \in 0..m
    BY <1>0
  <2>2. At(W[m], 0, W[n])
    BY <1>7, <2>1
  <2>3. W[n - 1] \in Seq(Byte) /\ EncodeOp(writes[n], enc) \in Seq(Byte)
           /\ W[n] = W[n - 1] \o EncodeOp(writes[n], enc)
    BY <1>1, <1>2, <2>1
  <2> QED
    BY <1>4, <2>2, <2>3, ConcatProperties
<1> QED
  BY <1>8, <1>9 DEF W, EncodeBatch

-----------------------------------------------------------------------------
(***************************************************************************)
(* decode_batch, write by write.                                           *)
(***************************************************************************)

\* One more write read.
OpRead(data, results) ==
    UNION {{[ops |-> Append(before.ops, next.op), off |-> next.off] :
               next \in DecodeOp(data, before.off)} : before \in results}

Extended(s, reads) == {[ops |-> Append(s, next.op), off |-> next.off] : next \in reads}

\* What has been read so far, and a write that is read next.
Sofar(s, off) == {[ops |-> s, off |-> off]}
Reading(op, end) == {[op |-> op, off |-> end]}

SolvesOps(R, data, count) ==
    /\ R = [n \in 0..count |-> R[n]]
    /\ \A n \in 0..count : R[n] = IF n = 0 THEN Sofar(<<>>, 4) ELSE OpRead(data, R[n - 1])

\* Whatever solves the recursion of OpsRead is what it computes.
LEMMA OpsReadIs ==
    ASSUME NEW data, NEW count \in Nat, NEW R, SolvesOps(R, data, count)
    PROVE  \A n \in 0..count : OpsRead(data, count)[n] = R[n]
<1> DEFINE D == 0..count
           F == OpsRead(data, count)
           S == {k \in Nat : k <= count => F[k] = R[k]}
<1>0. R = [n \in 0..count |-> IF n = 0 THEN {[ops |-> <<>>, off |-> 4]}
                                      ELSE OpRead(data, R[n - 1])]
  <2> DEFINE G(n) == IF n = 0 THEN {[ops |-> <<>>, off |-> 4]} ELSE OpRead(data, R[n - 1])
  <2>1. \A n \in D : R[n] = G(n)
    BY DEF SolvesOps, Sofar
  <2>2. R = [n \in D |-> R[n]]
    BY DEF SolvesOps
  <2> HIDE DEF D, G
  <2>3. R = [n \in D |-> G(n)]
    BY <2>1, <2>2, Zenon
  <2> QED
    BY <2>3 DEF D, G
<1>1. F = [n \in D |-> IF n = 0 THEN {[ops |-> <<>>, off |-> 4]} ELSE OpRead(data, F[n - 1])]
  <2>1. F = CHOOSE f : f = [n \in 0..count |->
            IF n = 0 THEN {[ops |-> <<>>, off |-> 4]}
            ELSE UNION {{[ops |-> Append(before.ops, next.op), off |-> next.off] :
                            next \in DecodeOp(data, before.off)} : before \in f[n - 1]}]
    BY DEF OpsRead
  <2>2. F = CHOOSE f : f = [n \in 0..count |->
            IF n = 0 THEN {[ops |-> <<>>, off |-> 4]} ELSE OpRead(data, f[n - 1])]
    BY <2>1, Zenon DEF OpRead
  <2> HIDE DEF F
  <2> QED
    BY <1>0, <2>2, Zenon
<1> HIDE DEF F
<1>2. \A n \in D : F[n] = IF n = 0 THEN {[ops |-> <<>>, off |-> 4]} ELSE OpRead(data, F[n - 1])
  <2> HIDE DEF D
  <2> QED
    BY <1>1, Zenon
<1>3. \A n \in D : R[n] = IF n = 0 THEN {[ops |-> <<>>, off |-> 4]} ELSE OpRead(data, R[n - 1])
  BY DEF SolvesOps, Sofar
<1>4. 0 \in S
  <2>1. 0 \in D
    OBVIOUS
  <2> HIDE DEF D
  <2>2. F[0] = R[0]
    BY <1>2, <1>3, <2>1, Zenon
  <2> QED
    BY <2>2
<1>5. ASSUME NEW k \in S PROVE k + 1 \in S
  <2>0. k \in Nat
    OBVIOUS
  <2>1. ASSUME k + 1 <= count PROVE F[k + 1] = R[k + 1]
    <3> DEFINE n == k + 1
    <3>1. n \in D /\ n # 0 /\ n - 1 = k /\ F[k] = R[k]
      BY <2>0, <2>1
    <3> HIDE DEF n, D, S
    <3>2. F[n] = OpRead(data, F[n - 1]) /\ R[n] = OpRead(data, R[n - 1])
      BY <1>2, <1>3, <3>1, Zenon
    <3>3. F[n] = R[n]
      BY <3>1, <3>2
    <3> QED
      BY <3>3 DEF n
  <2> QED
    BY <2>0, <2>1
<1>6. S = Nat
  <2>1. S \in SUBSET Nat
    OBVIOUS
  <2> HIDE DEF S
  <2> QED
    BY <1>4, <1>5, <2>1, Induction
<1>7. ASSUME NEW n \in D PROVE F[n] = R[n]
  <2>1. n \in Nat /\ n <= count
    OBVIOUS
  <2>2. n \in S
    <3> HIDE DEF S
    <3> QED
      BY <1>6, <2>1
  <2> QED
    BY <2>1, <2>2
<1> QED
  BY <1>7 DEF F

\* How one more write is read: all of them are tried, one is, or none.
LEMMA OpReadIs ==
    ASSUME NEW data, NEW s, NEW off
    PROVE  OpRead(data, Sofar(s, off)) = Extended(s, DecodeOp(data, off))
<1> DEFINE b == [ops |-> s, off |-> off]
           All(before) == {[ops |-> Append(before.ops, next.op), off |-> next.off] :
                              next \in DecodeOp(data, before.off)}
<1>1. b.ops = s /\ b.off = off
  OBVIOUS
<1>2. OpRead(data, Sofar(s, off)) = UNION {All(before) : before \in {b}}
  BY DEF OpRead, Sofar
<1>3. UNION {All(before) : before \in {b}} = All(b)
  <2> HIDE DEF All, b
  <2> QED
    OBVIOUS
<1>4. All(b) = Extended(s, DecodeOp(data, off))
  <2> HIDE DEF b
  <2> QED
    BY <1>1 DEF Extended
<1> HIDE DEF All
<1> QED
  BY <1>2, <1>3, <1>4

LEMMA OneExtended ==
    ASSUME NEW s, NEW op, NEW end
    PROVE  Extended(s, Reading(op, end)) = Sofar(Append(s, op), end)
<1> DEFINE x == [op |-> op, off |-> end]
<1>1. Reading(op, end) = {x} /\ x.op = op /\ x.off = end
  BY DEF Reading
<1> HIDE DEF x
<1>2. {[ops |-> Append(s, next.op), off |-> next.off] : next \in {x}} =
         {[ops |-> Append(s, x.op), off |-> x.off]}
  OBVIOUS
<1>3. Extended(s, Reading(op, end)) = {[ops |-> Append(s, x.op), off |-> x.off]}
  BY <1>1, <1>2 DEF Extended
<1> QED
  BY <1>1, <1>3 DEF Sofar

LEMMA NoneExtended ==
    ASSUME NEW s
    PROVE  Extended(s, {}) = {}
BY DEF Extended

LEMMA OneOpRead ==
    ASSUME NEW data, NEW s, NEW off, NEW op, NEW end, DecodeOp(data, off) = Reading(op, end)
    PROVE  OpRead(data, Sofar(s, off)) = Sofar(Append(s, op), end)
BY OpReadIs, OneExtended

LEMMA NoOpRead ==
    ASSUME NEW data, NEW s, NEW off, DecodeOp(data, off) = {}
    PROVE  OpRead(data, Sofar(s, off)) = {}
BY OpReadIs, NoneExtended

(***************************************************************************)
(* What decode_batch makes of a batch: nothing if it holds a text it must  *)
(* refuse, and the same writes in the same order if it does not.           *)
(***************************************************************************)
THEOREM BatchRoundTrip ==
    ASSUME NEW writes \in Batch, NEW enc \in BOOLEAN
    PROVE  /\ (\A i \in 1..Len(writes) : IsAccepted(writes[i].write, enc)) =>
                 \E ops : /\ DecodeBatch(EncodeBatch(writes, enc)) = {ops}
                          /\ Len(ops) = Len(writes)
                          /\ \A i \in 1..Len(writes) :
                                /\ ops[i].key = writes[i].key
                                /\ StandsFor(ops[i].write, writes[i].write)
           /\ (\E i \in 1..Len(writes) : ~IsAccepted(writes[i].write, enc)) =>
                 DecodeBatch(EncodeBatch(writes, enc)) = {}
<1> DEFINE m == Len(writes)
           data == EncodeBatch(writes, enc)
           W == Written(writes, enc)
           Good(n) == \A i \in 1..n : IsAccepted(writes[i].write, enc)
           IsRead(i, w) ==
               /\ DecodeOp(data, Len(W[i - 1])) =
                     {[op |-> [key |-> writes[i].key, write |-> w], off |-> Len(W[i])]}
               /\ StandsFor(w, writes[i].write)
           ops == [i \in 1..m |-> [key |-> writes[i].key, write |-> CHOOSE w : IsRead(i, w)]]
           X == {ops[i] : i \in 1..m}
           R == [n \in 0..m |-> IF Good(n) THEN Sofar(SubSeq(ops, 1, n), Len(W[n]))
                                           ELSE {}]
<1>0. m \in Nat /\ m \in Sizes
  BY BatchIs
<1>1. /\ data \in Seq(Byte) /\ At(data, 0, U32(m))
      /\ \A n \in 1..m : /\ At(data, Len(W[n - 1]), EncodeOp(writes[n], enc))
                         /\ Len(W[n]) = Len(W[n - 1]) + Len(EncodeOp(writes[n], enc))
  BY WrittenLies
<1>2. /\ \A n \in 0..m : W[n] \in Seq(Byte)
      /\ W[0] = U32(m)
  BY WrittenIs
<1>3. data = W[m]
  BY DEF EncodeBatch
<1> HIDE DEF data, W
<1>4. ASSUME NEW i \in 1..m
      PROVE  /\ IsAccepted(writes[i].write, enc) => \E w : IsRead(i, w)
             /\ ~IsAccepted(writes[i].write, enc) => DecodeOp(data, Len(W[i - 1])) = {}
  <2> DEFINE off == Len(W[i - 1])
             op == writes[i]
  <2>1. off \in Nat
    <3>1. i - 1 \in 0..m
      BY <1>0
    <3>2. W[i - 1] \in Seq(Byte)
      BY <1>2, <3>1
    <3> QED
      BY <3>2
  <2>2. op \in Op
    BY BatchIs
  <2>3. At(data, off, EncodeOp(op, enc)) /\ Len(W[i]) = off + Len(EncodeOp(op, enc))
    BY <1>1
  <2> HIDE DEF off, op
  <2>4. /\ IsAccepted(op.write, enc) =>
              \E v : /\ DecodeOp(data, off) = {[op  |-> [key |-> op.key, write |-> v],
                                                off |-> off + Len(EncodeOp(op, enc))]}
                     /\ StandsFor(v, op.write)
        /\ ~IsAccepted(op.write, enc) => DecodeOp(data, off) = {}
    BY <1>1, <2>1, <2>2, <2>3, DecodeOpIs
  <2> QED
    BY <2>3, <2>4 DEF off, op
<1>5. ASSUME NEW i \in 1..m, IsAccepted(writes[i].write, enc)
      PROVE  /\ ops[i].key = writes[i].key
             /\ StandsFor(ops[i].write, writes[i].write)
             /\ DecodeOp(data, Len(W[i - 1])) = Reading(ops[i], Len(W[i]))
  <2> DEFINE w == CHOOSE v : IsRead(i, v)
  <2>1. IsRead(i, w)
    <3>1. \E v : IsRead(i, v)
      BY <1>4, <1>5
    <3> HIDE DEF IsRead
    <3> QED
      BY <3>1
  <2>2. ops[i] = [key |-> writes[i].key, write |-> w]
    <3> HIDE DEF IsRead
    <3> QED
      OBVIOUS
  <2> HIDE DEF w, ops
  <2> QED
    BY <2>1, <2>2 DEF Reading
<1>6. ops \in Seq(X) /\ Len(ops) = m
  <2> DEFINE O(i) == [key |-> writes[i].key, write |-> CHOOSE w : IsRead(i, w)]
  <2>1. ops = [i \in 1..m |-> O(i)]
    OBVIOUS
  <2> HIDE DEF O, ops, m
  <2>2. \A i \in 1..m : ops[i] \in X
    OBVIOUS
  <2>3. ops \in [1..m -> X]
    BY <2>1, <2>2
  <2> HIDE DEF X
  <2> QED
    BY <1>0, <2>3
<1> HIDE DEF ops, X, Good
<1>7. R[0] = Sofar(<<>>, 4)
  <2>1. Good(0)
    BY DEF Good
  <2>2. SubSeq(ops, 1, 0) = <<>>
    BY SubSeqEmpty
  <2>3. Len(W[0]) = 4 /\ 0 \in 0..m
    BY <1>0, <1>2, U32Is, SMT
  <2> QED
    BY <2>1, <2>2, <2>3
<1>8. ASSUME NEW n \in 1..m PROVE R[n] = OpRead(data, R[n - 1])
  <2>0. n \in 0..m /\ n - 1 \in 0..m
    BY <1>0
  <2>1. /\ R[n] = IF Good(n) THEN Sofar(SubSeq(ops, 1, n), Len(W[n])) ELSE {}
        /\ R[n - 1] = IF Good(n - 1) THEN Sofar(SubSeq(ops, 1, n - 1), Len(W[n - 1]))
                                     ELSE {}
    BY <2>0
  <2>2. Good(n) <=> Good(n - 1) /\ IsAccepted(writes[n].write, enc)
    <3>1. \A i \in 1..n : i = n \/ i \in 1..(n - 1)
      BY <1>0
    <3>2. n \in 1..n /\ \A i \in 1..(n - 1) : i \in 1..n
      BY <1>0
    <3> QED
      BY <3>1, <3>2 DEF Good
  <2> HIDE DEF R
  <2>3. CASE ~Good(n - 1)
    <3>1. R[n] = {} /\ R[n - 1] = {}
      BY <2>1, <2>2, <2>3
    <3>2. OpRead(data, {}) = {}
      BY DEF OpRead
    <3> QED
      BY <3>1, <3>2
  <2>4. CASE Good(n - 1) /\ ~IsAccepted(writes[n].write, enc)
    <3>1. R[n] = {} /\ R[n - 1] = Sofar(SubSeq(ops, 1, n - 1), Len(W[n - 1]))
      BY <2>1, <2>2, <2>4
    <3>2. DecodeOp(data, Len(W[n - 1])) = {}
      BY <1>4, <2>4
    <3>3. OpRead(data, R[n - 1]) = {}
      BY <3>1, <3>2, NoOpRead
    <3> QED
      BY <3>1, <3>3
  <2>5. CASE Good(n - 1) /\ IsAccepted(writes[n].write, enc)
    <3>1. /\ R[n] = Sofar(SubSeq(ops, 1, n), Len(W[n]))
          /\ R[n - 1] = Sofar(SubSeq(ops, 1, n - 1), Len(W[n - 1]))
      BY <2>1, <2>2, <2>5
    <3>2. DecodeOp(data, Len(W[n - 1])) = Reading(ops[n], Len(W[n]))
      BY <1>5, <2>5
    <3>3. OpRead(data, R[n - 1]) = Sofar(Append(SubSeq(ops, 1, n - 1), ops[n]), Len(W[n]))
      BY <3>1, <3>2, OneOpRead
    <3>4. Append(SubSeq(ops, 1, n - 1), ops[n]) = SubSeq(ops, 1, n)
      <4>1. 1 \in 1..Len(ops) /\ n \in 1..Len(ops) /\ ops[n] \in X
        BY <1>0, <1>6
      <4>2. SubSeq(ops, 1, n) = SubSeq(ops, 1, n - 1) \o <<ops[n]>>
        BY <1>6, <4>1, SubSeqRecursiveSecond
      <4>3. SubSeq(ops, 1, n - 1) \in Seq(X)
        BY <1>0, <1>6
      <4> QED
        BY <4>1, <4>2, <4>3, AppendIsConcat
    <3> QED
      BY <3>1, <3>3, <3>4
  <2> QED
    BY <2>3, <2>4, <2>5
<1>9. \A n \in 0..m : R[n] = IF n = 0 THEN Sofar(<<>>, 4) ELSE OpRead(data, R[n - 1])
  <2>1. \A n \in 0..m : n # 0 => n \in 1..m
    BY <1>0
  <2> HIDE DEF R, m
  <2> QED
    BY <1>7, <1>8, <2>1
<1>10. OpsRead(data, m)[m] = R[m]
  <2>1. m \in 0..m /\ m \in Nat
    BY <1>0
  <2>2. SolvesOps(R, data, m)
    <3>1. R = [n \in 0..m |-> R[n]]
      OBVIOUS
    <3> HIDE DEF R, m
    <3> QED
      BY <3>1, <1>9 DEF SolvesOps
  <2> HIDE DEF R, m
  <2> QED
    BY <2>1, <2>2, OpsReadIs
<1>11. Len(data) >= 4 /\ NumberAt(data, 0) = m
  BY <1>0, <1>1, NumberAtIs
<1>12. DecodeBatch(data) = {result.ops : result \in {r \in R[m] : r.off = Len(data)}}
  <2>1. ~(Len(data) < 4)
    BY <1>1, <1>11
  <2> HIDE DEF R
  <2> QED
    BY <1>10, <1>11, <2>1 DEF DecodeBatch
<1>13. R[m] = IF Good(m) THEN Sofar(SubSeq(ops, 1, m), Len(data)) ELSE {}
  BY <1>0, <1>3
<1>14. SubSeq(ops, 1, m) = ops
  BY <1>6, SubSeqFull
<1> HIDE DEF R
<1>15. CASE Good(m)
  <2> DEFINE x == [ops |-> ops, off |-> Len(data)]
  <2>1. R[m] = {x} /\ x.ops = ops /\ x.off = Len(data)
    BY <1>13, <1>14, <1>15 DEF Sofar
  <2> HIDE DEF x
  <2>2. DecodeBatch(data) = {ops}
    BY <1>12, <2>1
  <2>3. \A i \in 1..m : ops[i].key = writes[i].key /\ StandsFor(ops[i].write, writes[i].write)
    BY <1>5, <1>15 DEF Good
  <2> QED
    BY <1>6, <1>15, <2>2, <2>3 DEF Good, data
<1>16. CASE ~Good(m)
  <2>1. DecodeBatch(data) = {}
    BY <1>12, <1>13, <1>16
  <2> QED
    BY <1>16, <2>1 DEF Good, data
<1> QED
  BY <1>15, <1>16

-----------------------------------------------------------------------------
(***************************************************************************)
(* apply_ops.                                                              *)
(***************************************************************************)

\* What a write leaves under its key.
Outcome(write) == IF write = Delete THEN Undefined ELSE write

\* The map after one more write.
OneAfter(f, op) == [f EXCEPT ![op.key] = Outcome(op.write)]

LEMMA OneAfterIs ==
    ASSUME NEW D, NEW V, NEW f \in [D -> V], NEW op, Outcome(op.write) \in V
    PROVE  OneAfter(f, op) \in [D -> V]
BY DEF OneAfter

LEMMA OneAfterAt ==
    ASSUME NEW f, NEW op, NEW key \in DOMAIN f
    PROVE  OneAfter(f, op)[key] = IF key = op.key THEN Outcome(op.write) ELSE f[key]
BY DEF OneAfter

\* The recursion of After has a solution, and After is one.
LEMMA AfterFix ==
    ASSUME NEW old, old = [key \in DOMAIN old |-> old[key]], NEW ops, Len(ops) \in Nat
    PROVE  \A n \in 0..Len(ops) :
              /\ DOMAIN After(old, ops)[n] = DOMAIN old
              /\ n = 0 => After(old, ops)[n] = old
              /\ n # 0 => \A key \in DOMAIN old : After(old, ops)[n][key] =
                    IF key = ops[n].key THEN Outcome(ops[n].write) ELSE After(old, ops)[n - 1][key]
<1> DEFINE m == Len(ops)
           D == 0..m
           K == DOMAIN old
           Y == {old[key] : key \in K} \cup {Outcome(ops[n].write) : n \in 1..m}
           V == [K -> Y]
           rank == [n \in D |-> n]
           Step == [x \in D \X [D -> V] |->
                       IF x[1] = 0 THEN old ELSE OneAfter(x[2][x[1] - 1], ops[x[1]])]
<1>1. old \in V
  BY Zenon
<1>2. rank \in [D -> 0..m]
  OBVIOUS
<1>3. ASSUME NEW n \in D, NEW g \in [D -> V]
      PROVE  (IF n = 0 THEN old ELSE OneAfter(g[n - 1], ops[n])) \in V
  <2>1. CASE n = 0
    BY <1>1, <2>1
  <2>2. CASE n # 0
    <3>1. n \in 1..m /\ n - 1 \in D
      BY <2>2
    <3>2. Outcome(ops[n].write) \in Y
      BY <3>1, Zenon
    <3>3. g[n - 1] \in V
      <4> HIDE DEF D, V
      <4> QED
        BY <3>1
    <3> HIDE DEF Y, K
    <3>4. OneAfter(g[n - 1], ops[n]) \in V
      BY <3>2, <3>3, OneAfterIs
    <3> QED
      BY <2>2, <3>4
  <2> QED
    BY <2>1, <2>2
<1>4. Step \in [D \X [D -> V] -> V]
  <2> HIDE DEF V, D
  <2> QED
    BY <1>3
<1>5. \A i \in D : \A g, h \in [D -> V] :
         (\A j \in D : rank[j] < rank[i] => g[j] = h[j]) => Step[<<i, g>>] = Step[<<i, h>>]
  <2> SUFFICES ASSUME NEW i \in D, NEW g \in [D -> V], NEW h \in [D -> V],
                      \A j \in D : rank[j] < rank[i] => g[j] = h[j]
               PROVE  Step[<<i, g>>] = Step[<<i, h>>]
    OBVIOUS
  <2>1. i # 0 => i - 1 \in D /\ rank[i - 1] < rank[i]
    OBVIOUS
  <2>2. i # 0 => g[i - 1] = h[i - 1]
    BY <2>1
  <2> HIDE DEF D, V
  <2> QED
    BY <2>2
<1>6. PICK g \in [D -> V] : \A i \in D : g[i] = Step[<<i, g>>]
  <2>1. V # {}
    BY <1>1
  <2>2. m \in Nat
    OBVIOUS
  <2> HIDE DEF m, D, V, rank, Step
  <2>3. Descends(D, V, m, rank, Step)
    BY <2>1, <2>2, <1>2, <1>4, <1>5 DEF Descends
  <2> QED
    BY <2>3, Recursion
<1>7. \A n \in D : g[n] = IF n = 0 THEN old ELSE OneAfter(g[n - 1], ops[n])
  <2> HIDE DEF D, V
  <2> QED
    BY <1>6
<1>8. g = [n \in D |-> IF n = 0 THEN old ELSE OneAfter(g[n - 1], ops[n])]
  <2> HIDE DEF D, V
  <2> QED
    BY <1>7
<1> DEFINE A == After(old, ops)
<1>9. A = CHOOSE f : f = [n \in 0..Len(ops) |-> IF n = 0 THEN old ELSE OneAfter(f[n - 1], ops[n])]
  BY DEF After, OneAfter, Outcome
<1> HIDE DEF A
<1>10. A = [n \in D |-> IF n = 0 THEN old ELSE OneAfter(A[n - 1], ops[n])]
  BY <1>8, <1>9, Zenon
<1>11. \A n \in D : A[n] = IF n = 0 THEN old ELSE OneAfter(A[n - 1], ops[n])
  <2> HIDE DEF D
  <2> QED
    BY <1>10, Zenon
<1> DEFINE S == {n \in Nat : n <= m => A[n] \in V}
<1>12. 0 \in S
  BY <1>1, <1>11
<1>13. ASSUME NEW n \in S PROVE n + 1 \in S
  <2>1. ASSUME n + 1 <= m PROVE A[n + 1] \in V
    <3>1. n + 1 \in D /\ n + 1 # 0 /\ n + 1 - 1 = n /\ n + 1 \in 1..m /\ A[n] \in V
      BY <2>1
    <3>2. A[n + 1] = OneAfter(A[n], ops[n + 1])
      BY <1>11, <3>1
    <3>3. Outcome(ops[n + 1].write) \in Y
      BY <3>1, Zenon
    <3> DEFINE f == A[n]
               op == ops[n + 1]
    <3>4. f \in V /\ Outcome(op.write) \in Y
      BY <3>1, <3>3
    <3> HIDE DEF Y, K, f, op, D
    <3>5. OneAfter(f, op) \in V
      BY <3>4, OneAfterIs
    <3> QED
      BY <3>2, <3>5 DEF f, op
  <2> QED
    BY <2>1
<1>14. \A n \in D : A[n] \in V
  <2>1. S \in SUBSET Nat
    OBVIOUS
  <2>2. S = Nat
    <3> HIDE DEF S
    <3> QED
      BY <1>12, <1>13, <2>1, Induction
  <2> HIDE DEF V
  <2> QED
    BY <2>2
<1>15. ASSUME NEW n \in D
       PROVE  /\ DOMAIN A[n] = K
              /\ n = 0 => A[n] = old
              /\ n # 0 => \A key \in K : A[n][key] =
                    IF key = ops[n].key THEN Outcome(ops[n].write) ELSE A[n - 1][key]
  <2>1. DOMAIN A[n] = K
    BY <1>14
  <2>2. n = 0 => A[n] = old
    BY <1>11
  <2>3. ASSUME n # 0
        PROVE  \A key \in K : A[n][key] =
                  IF key = ops[n].key THEN Outcome(ops[n].write) ELSE A[n - 1][key]
    <3>1. n - 1 \in D /\ n \in 1..m
      BY <2>3
    <3>2. A[n] = OneAfter(A[n - 1], ops[n]) /\ A[n - 1] \in [K -> Y]
      BY <1>11, <1>14, <2>3, <3>1
    <3> DEFINE f == A[n - 1]
               op == ops[n]
    <3>4. DOMAIN f = K /\ A[n] = OneAfter(f, op)
      BY <3>2
    <3> HIDE DEF Y, K, f, op, D
    <3>5. \A key \in K : OneAfter(f, op)[key] = IF key = op.key THEN Outcome(op.write) ELSE f[key]
      BY <3>4, OneAfterAt
    <3>6. \A key \in K : A[n][key] = IF key = op.key THEN Outcome(op.write) ELSE f[key]
      BY <3>4, <3>5, Zenon
    <3> QED
      BY <3>6 DEF f, op
  <2> QED
    BY <2>1, <2>2, <2>3
<1> QED
  BY <1>15 DEF A

\* A key is left what its one write leaves it, and any other key is left alone.
LEMMA CommittedIs ==
    ASSUME NEW old, old = [key \in DOMAIN old |-> old[key]], NEW ops, Len(ops) \in Nat,
           \A i, j \in 1..Len(ops) : ops[i].key = ops[j].key => i = j,
           NEW key \in DOMAIN old
    PROVE  /\ \A i \in 1..Len(ops) :
                 ops[i].key = key => Committed(old, ops)[key] = Outcome(ops[i].write)
           /\ (\A i \in 1..Len(ops) : ops[i].key # key) => Committed(old, ops)[key] = old[key]
<1> DEFINE m == Len(ops)
           A == After(old, ops)
           Left(n) == /\ \A i \in 1..n : ops[i].key = key => A[n][key] = Outcome(ops[i].write)
                      /\ (\A i \in 1..n : ops[i].key # key) => A[n][key] = old[key]
           S == {n \in Nat : n <= m => Left(n)}
<1>1. \A n \in 0..m :
         /\ n = 0 => A[n] = old
         /\ n # 0 => A[n][key] =
               IF key = ops[n].key THEN Outcome(ops[n].write) ELSE A[n - 1][key]
  BY AfterFix
<1> HIDE DEF A
<1>2. 0 \in S
  BY <1>1
<1>3. ASSUME NEW n \in S PROVE n + 1 \in S
  <2>1. ASSUME n + 1 <= m PROVE Left(n + 1)
    <3> DEFINE k == n + 1
    <3>1. n \in Nat /\ k \in 0..m /\ k \in 1..m /\ k # 0 /\ k - 1 = n /\ Left(n)
      BY <2>1
    <3>2. A[k][key] = IF key = ops[k].key THEN Outcome(ops[k].write) ELSE A[n][key]
      BY <1>1, <3>1
    <3>3. k \in 1..k /\ \A i \in 1..k : i \in 1..m /\ (i = k \/ i \in 1..n)
      BY <3>1
    <3>4. \A i \in 1..n : i \in 1..k /\ i # k
      BY <3>1
    <3> HIDE DEF k
    <3>5. CASE key = ops[k].key
      <4>1. \A i \in 1..k : ops[i].key = key => i = k
        BY <3>1, <3>3, <3>5
      <4> QED
        BY <3>2, <3>3, <3>5, <4>1 DEF k
    <3>6. CASE key # ops[k].key
      BY <3>1, <3>2, <3>3, <3>4, <3>6 DEF k
    <3> QED
      BY <3>5, <3>6
  <2> QED
    BY <2>1
<1>4. Left(m)
  <2>1. S \in SUBSET Nat
    OBVIOUS
  <2>2. S = Nat
    <3> HIDE DEF S
    <3> QED
      BY <1>2, <1>3, <2>1, Induction
  <2> HIDE DEF Left
  <2> QED
    BY <2>2
<1> QED
  BY <1>4 DEF Committed, A

-----------------------------------------------------------------------------
(***************************************************************************)
(* What the transaction read is what it commits.                           *)
(***************************************************************************)

LEMMA OpIs ==
    ASSUME NEW op \in Op
    PROVE  op.write = Delete \/ (op.write # Delete /\ op.write.kind \in TypedKinds)
<1>1. op.write \in Values \cup {Delete}
  BY DEF Op
<1>2. CASE op.write \in Values
  BY <1>2 DEF Values, TextValues, NumberValues, FlagValues, BufferValues, Typed, TypedKinds, Delete
<1> QED
  BY <1>1, <1>2

\* A key of a batch is staged once.
LEMMA StagedAtIs ==
    ASSUME NEW writes \in Batch, NEW key
    PROVE  /\ StagedAt(writes, key) = {} => \A i \in 1..Len(writes) : writes[i].key # key
           /\ StagedAt(writes, key) # {} =>
                 /\ (CHOOSE i \in StagedAt(writes, key) : TRUE) \in 1..Len(writes)
                 /\ writes[CHOOSE i \in StagedAt(writes, key) : TRUE].key = key
<1>1. \A i \in 1..Len(writes) : i \in StagedAt(writes, key) <=> writes[i].key = key
  BY DEF StagedAt
<1>2. StagedAt(writes, key) # {} =>
         (CHOOSE i \in StagedAt(writes, key) : TRUE) \in StagedAt(writes, key)
  OBVIOUS
<1>3. \A i \in StagedAt(writes, key) : i \in 1..Len(writes) /\ writes[i].key = key
  BY DEF StagedAt
<1> QED
  BY <1>1, <1>2, <1>3

\* A write and what is read of it leave the same under the key, and read the same.
LEMMA ReadsAlike ==
    ASSUME NEW write, write = Delete \/ (write # Delete /\ write.kind \in TypedKinds),
           NEW v, StandsFor(v, write), NEW kind \in TypedKinds
    PROVE  /\ write # Delete <=> Outcome(v) # Undefined
           /\ IntactText(ReadAs(write, kind)) => ReadAs(write, kind) = ReadAs(Outcome(v), kind)
<1>1. Undefined.kind = "undefined" /\ Delete.kind = "delete" /\ kind # "undefined" /\ kind # "delete"
  BY DEF Undefined, Delete, TypedKinds
<1>2. v.kind = write.kind /\ (IntactText(write) => v = write)
  BY DEF StandsFor
<1>3. CASE write = Delete
  <2>1. IntactText(write)
    BY <1>1, <1>3 DEF IntactText, IsText
  <2>2. v = Delete
    BY <1>2, <1>3, <2>1
  <2>3. Outcome(v) = Undefined
    BY <2>2 DEF Outcome
  <2> QED
    BY <1>1, <1>3, <2>3 DEF ReadAs
<1>4. CASE write # Delete /\ write.kind \in TypedKinds
  <2>1. v.kind # "undefined" /\ v.kind # "delete"
    BY <1>2, <1>4 DEF TypedKinds
  <2>2. v # Delete /\ v # Undefined
    BY <1>1, <2>1
  <2>3. Outcome(v) = v
    BY <2>2 DEF Outcome
  <2>4. CASE write.kind = kind
    <3>1. ReadAs(write, kind) = write /\ ReadAs(v, kind) = v
      BY <1>2, <2>4 DEF ReadAs
    <3> QED
      BY <1>2, <1>4, <2>2, <2>3, <3>1
  <2>5. CASE write.kind # kind
    <3>1. ReadAs(write, kind) = Undefined /\ ReadAs(v, kind) = Undefined
      BY <1>2, <2>5 DEF ReadAs
    <3> QED
      BY <1>4, <2>2, <2>3, <3>1
  <2> QED
    BY <2>4, <2>5
<1> QED
  BY <1>3, <1>4

(***************************************************************************)
(* "reads match what commit will write" (kv.ts), for every transaction:    *)
(* whatever the store held, every typed read inside the transaction gives  *)
(* what the same read of the store gives once the batch is committed.      *)
(***************************************************************************)
THEOREM TransactionReadsTrue ==
    ASSUME NEW old, old = [key \in DOMAIN old |-> old[key]],
           NEW writes \in Batch, NEW enc \in BOOLEAN
    PROVE  ReadsTrue(old, writes, enc)
<1> DEFINE m == Len(writes)
           batches == DecodeBatch(EncodeBatch(writes, enc))
           Refused == ~enc /\ \E i \in 1..m : ~IntactText(writes[i].write)
           True(ops, key) ==
              /\ StagedContains(writes, old, key) <=> Committed(old, ops)[key] # Undefined
              /\ \A kind \in TypedKinds :
                    IntactText(StagedRead(writes, old, key, kind)) =>
                       StagedRead(writes, old, key, kind) = ReadAs(Committed(old, ops)[key], kind)
<1>1. /\ writes \in Seq(Op) /\ m \in Nat
      /\ \A i \in 1..m : writes[i] \in Op
      /\ \A i, j \in 1..m : writes[i].key = writes[j].key => i = j
  BY BatchIs
<1>2. CASE Refused
  <2>1. \E i \in 1..m : ~IsAccepted(writes[i].write, enc)
    BY <1>2 DEF IsAccepted
  <2>2. batches = {}
    BY <2>1, BatchRoundTrip
  <2> QED
    BY <1>2, <2>2 DEF ReadsTrue
<1>3. CASE ~Refused
  <2>1. \A i \in 1..m : IsAccepted(writes[i].write, enc)
    BY <1>3 DEF IsAccepted
  <2>2. PICK ops : /\ batches = {ops} /\ Len(ops) = m
                   /\ \A i \in 1..m : /\ ops[i].key = writes[i].key
                                      /\ StandsFor(ops[i].write, writes[i].write)
    BY <2>1, BatchRoundTrip
  <2> HIDE DEF batches
  <2>3. ASSUME NEW key \in DOMAIN old PROVE True(ops, key)
    <3> DEFINE after == Committed(old, ops)[key]
    <3>1. /\ \A i \in 1..m : ops[i].key = key => after = Outcome(ops[i].write)
          /\ (\A i \in 1..m : ops[i].key # key) => after = old[key]
      <4>1. \A i, j \in 1..Len(ops) : ops[i].key = ops[j].key => i = j
        BY <1>1, <2>2
      <4> QED
        BY <1>1, <2>2, <4>1, CommittedIs
    <3> HIDE DEF after
    <3>2. CASE StagedAt(writes, key) = {}
      <4>1. \A i \in 1..m : writes[i].key # key
        BY <3>2, StagedAtIs
      <4>2. after = old[key]
        BY <2>2, <3>1, <4>1
      <4> QED
        BY <3>2, <4>2 DEF StagedContains, StagedRead, after
    <3>3. CASE StagedAt(writes, key) # {}
      <4> DEFINE i == CHOOSE j \in StagedAt(writes, key) : TRUE
                 write == writes[i].write
                 v == ops[i].write
      <4>1. i \in 1..m /\ writes[i].key = key
        BY <3>3, StagedAtIs
      <4>2. /\ \A kind \in TypedKinds : StagedRead(writes, old, key, kind) = ReadAs(write, kind)
            /\ StagedContains(writes, old, key) <=> write # Delete
        BY <3>3 DEF StagedRead, StagedContains
      <4> HIDE DEF i
      <4>3. after = Outcome(v) /\ StandsFor(v, write)
        BY <2>2, <3>1, <4>1
      <4>4. write = Delete \/ (write # Delete /\ write.kind \in TypedKinds)
        BY <1>1, <4>1, OpIs
      <4> HIDE DEF write, v
      <4>5. \A kind \in TypedKinds :
               /\ write # Delete <=> after # Undefined
               /\ IntactText(ReadAs(write, kind)) => ReadAs(write, kind) = ReadAs(after, kind)
        BY <4>3, <4>4, ReadsAlike
      <4>6. "string" \in TypedKinds
        BY DEF TypedKinds
      <4> QED
        BY <4>2, <4>5, <4>6 DEF after
    <3> QED
      BY <3>2, <3>3
  <2>4. (batches = {} <=> Refused) /\ \A o \in batches : \A key \in DOMAIN old : True(o, key)
    BY <1>3, <2>2, <2>3
  <2> QED
    BY <2>4 DEF ReadsTrue, batches
<1> QED
  BY <1>2, <1>3

-----------------------------------------------------------------------------
(***************************************************************************)
(* What the run stages.                                                    *)
(***************************************************************************)

\* The texts, keys and values of the run are some of those that the theorems are about.
LEMMA FewUnits ==
    ASSUME NEW t \in Seq(Unit), Len(t) \in Nat, Len(t) <= 4
    PROVE  t \in ShortText
<1>1. Len(t) < 1073741824
  BY SMT
<1> QED
  BY <1>1, SMT DEF ShortText, Text

LEMMA UnitsAre ==
    /\ <<>> \in ShortText /\ <<107>> \in ShortText /\ <<55357, 56832>> \in ShortText
    /\ <<233, 97>> \in ShortText /\ <<8364>> \in ShortText /\ <<55357>> \in ShortText
    /\ <<97, 55357, 56832, 233>> \in ShortText
<1>1. /\ 107 \in Unit /\ 55357 \in Unit /\ 56832 \in Unit /\ 233 \in Unit
      /\ 97 \in Unit /\ 8364 \in Unit
  BY SMT DEF Unit
<1>3. <<>> \in ShortText
  <2> DEFINE t == <<>>
  <2>1. t \in Seq(Unit) /\ Len(t) \in Nat /\ Len(t) <= 4
    OBVIOUS
  <2> HIDE DEF t
  <2>2. t \in ShortText
    BY <2>1, FewUnits
  <2> QED
    BY <2>2 DEF t
<1>4. ASSUME NEW a \in Unit PROVE <<a>> \in ShortText
  <2> DEFINE t == <<a>>
  <2>1. t \in Seq(Unit) /\ Len(t) \in Nat /\ Len(t) <= 4
    OBVIOUS
  <2> HIDE DEF t
  <2>2. t \in ShortText
    BY <2>1, FewUnits
  <2> QED
    BY <2>2 DEF t
<1>5. ASSUME NEW a \in Unit, NEW b \in Unit PROVE <<a, b>> \in ShortText
  <2> DEFINE t == <<a, b>>
  <2>1. t \in Seq(Unit) /\ Len(t) \in Nat /\ Len(t) <= 4
    OBVIOUS
  <2> HIDE DEF t
  <2>2. t \in ShortText
    BY <2>1, FewUnits
  <2> QED
    BY <2>2 DEF t
<1>6. ASSUME NEW a \in Unit, NEW b \in Unit, NEW c \in Unit, NEW d \in Unit PROVE <<a, b, c, d>> \in ShortText
  <2> DEFINE t == <<a, b, c, d>>
  <2>1. t \in Seq(Unit) /\ Len(t) \in Nat /\ Len(t) <= 4
    OBVIOUS
  <2> HIDE DEF t
  <2>2. t \in ShortText
    BY <2>1, FewUnits
  <2> QED
    BY <2>2 DEF t
<1>7. <<107>> \in ShortText /\ <<8364>> \in ShortText /\ <<55357>> \in ShortText
  BY <1>1, <1>4
<1>8. <<55357, 56832>> \in ShortText /\ <<233, 97>> \in ShortText
  BY <1>1, <1>5
<1>9. <<97, 55357, 56832, 233>> \in ShortText
  BY <1>1, <1>6
<1> QED
  BY <1>3, <1>7, <1>8, <1>9

LEMMA TextKeysAre ==
    ASSUME NEW key \in TextKeys
    PROVE  key \in {t \in ShortText : WellFormedText(t)}
<1>1. WellFormedText(<<107>>)
  BY SMT DEF WellFormedText, IsHigh, IsLow
<1>2. WellFormedText(<<55357, 56832>>)
  <2> DEFINE t == <<55357, 56832>>
  <2>1. Len(t) = 2 /\ t[1] = 55357 /\ t[2] = 56832
    BY SMT
  <2> HIDE DEF t
  <2>2. IsPair(t, 1) /\ ~IsLow(t[1]) /\ ~IsHigh(t[2])
    BY <2>1, SMT DEF IsPair, IsHigh, IsLow
  <2>3. \A i \in 1..Len(t) : i = 1 \/ (i = 2 /\ i > 1 /\ i - 1 = 1)
    BY <2>1, SMT
  <2>4. WellFormedText(t)
    BY <2>2, <2>3 DEF WellFormedText
  <2> QED
    BY <2>4 DEF t
<1> QED
  BY <1>1, <1>2, UnitsAre DEF TextKeys

LEMMA SmallValuesAre == SmallValues \subseteq Values
<1>1. ASSUME NEW kind \in {"string", "json"}, NEW text \in SmallTexts
      PROVE  Typed(kind, text) \in Values
  <2>1. text \in ShortText
    BY UnitsAre DEF SmallTexts
  <2> QED
    BY <2>1 DEF Values, TextValues
<1>2. Typed("number", <<0, 0, 0, 0, 0, 0, 248, 63>>) \in Values
  <2>1. 0 \in Byte /\ 248 \in Byte /\ 63 \in Byte
    BY SMT DEF Byte
  <2>2. ASSUME NEW a \in Byte, NEW b \in Byte, NEW c \in Byte
        PROVE  <<a, a, a, a, a, a, b, c>> \in Seq(Byte) /\ Len(<<a, a, a, a, a, a, b, c>>) = 8
    OBVIOUS
  <2>3. <<0, 0, 0, 0, 0, 0, 248, 63>> \in {s \in Seq(Byte) : Len(s) = 8}
    BY <2>1, <2>2
  <2> QED
    BY <2>3 DEF Values, NumberValues
<1>3. Typed("boolean", TRUE) \in Values /\ Typed("boolean", FALSE) \in Values
  BY DEF Values, FlagValues
<1>4. Typed("buffer", <<>>) \in Values /\ Typed("buffer", <<0, 255, 1>>) \in Values
  <2>1. 0 \in Byte /\ 255 \in Byte /\ 1 \in Byte
    BY SMT DEF Byte
  <2>2. ASSUME NEW a \in Byte, NEW b \in Byte, NEW c \in Byte
        PROVE  <<a, b, c>> \in Seq(Byte) /\ Len(<<a, b, c>>) = 3
    OBVIOUS
  <2>3. <<>> \in Seq(Byte) /\ Len(<<>>) = 0
    OBVIOUS
  <2>4. 0 \in Sizes /\ 3 \in Sizes
    BY SMT DEF Sizes
  <2>5. <<0, 255, 1>> \in Seq(Byte) /\ Len(<<0, 255, 1>>) = 3
    BY <2>1, <2>2, Zenon
  <2>7. <<0, 255, 1>> \in {s \in Seq(Byte) : Len(s) \in Sizes}
    BY <2>4, <2>5, Zenon
  <2>6. <<>> \in {s \in Seq(Byte) : Len(s) \in Sizes}
    BY <2>3, <2>4
  <2> QED
    BY <2>6, <2>7 DEF Values, BufferValues
<1>5. ASSUME NEW value \in SmallValues PROVE value \in Values
  <2> DEFINE texts == {Typed(kind, text) : kind \in {"string", "json"}, text \in SmallTexts}
             n == Typed("number", <<0, 0, 0, 0, 0, 0, 248, 63>>)
             f == Typed("boolean", TRUE)
             g == Typed("boolean", FALSE)
             b == Typed("buffer", <<>>)
             c == Typed("buffer", <<0, 255, 1>>)
  <2>1. SmallValues = texts \cup {n, f, g, b, c}
    BY DEF SmallValues
  <2>2. value \in texts => value \in Values
    BY <1>1
  <2>3. n \in Values /\ f \in Values /\ g \in Values /\ b \in Values /\ c \in Values
    BY <1>2, <1>3, <1>4
  <2> HIDE DEF texts, n, f, g, b, c
  <2> QED
    BY <2>1, <2>2, <2>3
<1> QED
  BY <1>5

-----------------------------------------------------------------------------
(***************************************************************************)
(* What the transaction has staged: at most one write for each key.        *)
(***************************************************************************)
OncePerKey(writes) ==
    \A i, j \in 1..Len(writes) : writes[i].key = writes[j].key => i = j

StagedInv ==
    /\ stored = [key \in DOMAIN stored |-> stored[key]] /\ textEncoder \in BOOLEAN
    /\ staged \in Seq(Op) /\ Len(staged) <= 2 /\ OncePerKey(staged)
    /\ \A i \in 1..Len(staged) : staged[i].key \in TextKeys

LEMMA StageWriteIs ==
    ASSUME NEW writes \in Seq(Op), Len(writes) <= 2, OncePerKey(writes),
           \A i \in 1..Len(writes) : writes[i].key \in TextKeys,
           NEW key \in TextKeys, NEW write \in Values \cup {Delete}
    PROVE  LET after == StageWrite(writes, key, write)
           IN /\ after \in Seq(Op) /\ Len(after) <= 2 /\ OncePerKey(after)
              /\ \A i \in 1..Len(after) : after[i].key \in TextKeys
<1> DEFINE op == [key |-> key, write |-> write]
           after == StageWrite(writes, key, write)
           m == Len(writes)
<1>1. op \in Op /\ op.key = key
  BY TextKeysAre DEF Op
<1>2. m \in Nat /\ \A i \in 1..m : writes[i] \in Op
  OBVIOUS
<1> HIDE DEF op
<1>3. CASE StagedAt(writes, key) = {}
  <2>1. \A i \in 1..m : writes[i].key # key
    BY <1>3 DEF StagedAt
  <2>2. m <= 2 /\ m # 2
    <3>1. ASSUME m = 2 PROVE FALSE
      <4>1. 1 \in 1..m /\ 2 \in 1..m /\ 1 # 2
        BY <3>1
      <4>2. writes[1].key \in TextKeys /\ writes[2].key \in TextKeys
        BY <4>1
      <4>3. writes[1].key # writes[2].key
        BY <4>1 DEF OncePerKey
      <4> DEFINE a == writes[1].key
                 b == writes[2].key
      <4>4. a # key /\ b # key /\ a # b /\ a \in TextKeys /\ b \in TextKeys
        BY <2>1, <4>1, <4>2, <4>3
      <4> HIDE DEF a, b
      <4> DEFINE c == <<107>>
                 d == <<55357, 56832>>
      <4>5. TextKeys = {c, d}
        BY DEF TextKeys
      <4> HIDE DEF c, d
      <4> QED
        BY <4>4, <4>5
    <3> QED
      BY <3>1
  <2>3. after = Append(writes, op)
    BY <1>3 DEF StageWrite, op
  <2> HIDE DEF after
  <2>4. /\ after \in Seq(Op) /\ Len(after) = m + 1 /\ after[m + 1] = op
        /\ \A i \in 1..m : after[i] = writes[i]
    BY <1>1, <2>3
  <2>5. \A i \in 1..(m + 1) : i = m + 1 \/ i \in 1..m
    BY <1>2
  <2>6. \A i \in 1..(m + 1) : after[i].key \in TextKeys
    BY <1>1, <2>4, <2>5
  <2>7. OncePerKey(after)
    <3>1. ASSUME NEW i \in 1..(m + 1), NEW j \in 1..(m + 1), after[i].key = after[j].key
          PROVE  i = j
      <4>1. (i = m + 1 \/ i \in 1..m) /\ (j = m + 1 \/ j \in 1..m)
        BY <2>5
      <4> QED
        BY <1>1, <2>1, <2>4, <3>1, <4>1 DEF OncePerKey
    <3> QED
      BY <2>4, <3>1 DEF OncePerKey
  <2> QED
    <3>0. ASSUME NEW k \in Nat, k <= 2, k # 2 PROVE k + 1 <= 2
      BY <3>0
    <3>1. m + 1 <= 2
      BY <1>2, <2>2, <3>0
    <3> QED
      BY <2>4, <2>6, <2>7, <3>1 DEF after
<1>4. CASE StagedAt(writes, key) # {}
  <2>1. after = [i \in 1..m |-> IF writes[i].key = key THEN op ELSE writes[i]]
    BY <1>4 DEF StageWrite, op
  <2> HIDE DEF after
  <2>2. after \in [1..m -> Op] /\ \A i \in 1..m : after[i].key = writes[i].key
    BY <1>1, <1>2, <2>1
  <2>3. after \in Seq(Op) /\ Len(after) = m
    BY <1>2, <2>2
  <2>4. OncePerKey(after)
    BY <2>2, <2>3 DEF OncePerKey
  <2> QED
    BY <2>2, <2>3, <2>4 DEF after
<1> QED
  BY <1>3, <1>4

\* Init stages nothing, and each step at most one write.
LEMMA SpecStaged == Spec => []StagedInv
<1>1. Init => StagedInv
  <2> SUFFICES ASSUME Init PROVE StagedInv
    OBVIOUS
  <2>1. PICK value : stored = [key \in TextKeys |-> value]
    BY DEF Init
  <2>2. stored = [key \in DOMAIN stored |-> stored[key]]
    BY <2>1
  <2>3. staged = <<>> /\ textEncoder \in BOOLEAN
    BY DEF Init
  <2>4. staged \in Seq(Op) /\ Len(staged) = 0
    BY <2>3
  <2> QED
    BY <2>2, <2>3, <2>4 DEF StagedInv, OncePerKey
<1>2. StagedInv /\ [Next]_vars => StagedInv'
  <2> SUFFICES ASSUME StagedInv, [Next]_vars PROVE StagedInv'
    OBVIOUS
  <2>1. CASE StageOne
    <3>1. PICK key \in TextKeys, write \in SmallValues \cup {Delete} :
             staged' = StageWrite(staged, key, write)
      BY <2>1 DEF StageOne
    <3>2. write \in Values \cup {Delete}
      BY <3>1, SmallValuesAre
    <3>3. stored' = stored /\ textEncoder' = textEncoder
      BY <2>1 DEF StageOne
    <3>4. /\ staged' \in Seq(Op) /\ Len(staged') <= 2 /\ OncePerKey(staged')
          /\ \A i \in 1..Len(staged') : staged'[i].key \in TextKeys
      BY <3>1, <3>2, StageWriteIs DEF StagedInv
    <3> QED
      BY <3>3, <3>4 DEF StagedInv, OncePerKey
  <2>2. CASE Grow \/ Mount \/ WriteShown \/ AskAgain \/ Render \/ UNCHANGED vars
    <3>1. UNCHANGED <<stored, staged, textEncoder>>
      BY <2>2 DEF Grow, Mount, WriteShown, AskAgain, Render, vars
    <3> QED
      BY <3>1 DEF StagedInv, OncePerKey
  <2> QED
    BY <2>1, <2>2 DEF Next
<1> QED
  BY <1>1, <1>2, PTL DEF Spec

\* Whatever a transaction of the run has staged, its typed reads are what the commit will leave
\* (TransactionContext, encodeBatch, decode_batch and apply_ops).
THEOREM BatchesCommit == Spec => []BatchCommits
<1>1. StagedInv => BatchCommits
  <2> SUFFICES ASSUME StagedInv PROVE BatchCommits
    OBVIOUS
  <2>1. Len(staged) \in Sizes
    BY SMT DEF StagedInv, Sizes
  <2>2. staged \in Batch
    BY <2>1 DEF StagedInv, Batch, OncePerKey
  <2>3. stored = [key \in DOMAIN stored |-> stored[key]] /\ textEncoder \in BOOLEAN
    BY DEF StagedInv
  <2> QED
    BY <2>2, <2>3, TransactionReadsTrue DEF BatchCommits
<1> QED
  BY <1>1, SpecStaged, PTL
=============================================================================
