---------------------------- MODULE KVRecordsMC ----------------------------
(***************************************************************************)
(* Bounded exploration of the pure parts.  Either a log grows by one       *)
(* record at a time over a fixed snapshot, and the operators of KVRecords  *)
(* are compared with the loop of replay_wal and with each other in every   *)
(* state; or a transaction stages one write at a time, and in every state  *)
(* its batch is encoded, decoded and committed; or a hook is rendered and  *)
(* asked again while the key it shows is written.                          *)
(***************************************************************************)
EXTENDS KVRecords, BatchCodec, KVSelector

CONSTANTS MaxLen, MaxValue

ASSUME KVRecordsMCAssumption == MaxLen \in Nat /\ MaxValue \in Nat

VARIABLES
    base, recs,
    stored, staged, \* what the store holds and what the transaction stages
    textEncoder,    \* the JavaScript engine has TextEncoder
    hook, shown     \* a hook, and what the store holds under its key

vars == <<base, recs, stored, staged, textEncoder, hook, shown>>

SmallMap == [Keys -> 0..MaxValue]
SmallRecord == [Keys -> {Untouched} \cup 0..MaxValue]

\* Strings of one, two, three and four bytes a character, and half of a pair.
TextKeys  == {<<107>>, <<55357, 56832>>}
SmallTexts == {<<>>, <<233, 97>>, <<8364>>, <<97, 55357, 56832, 233>>, <<55357>>}
SmallValues ==
    {Typed(kind, text) : kind \in {"string", "json"}, text \in SmallTexts}
        \cup {Typed("number", <<0, 0, 0, 0, 0, 0, 248, 63>>), Typed("boolean", TRUE),
              Typed("boolean", FALSE), Typed("buffer", <<>>), Typed("buffer", <<0, 255, 1>>)}

NoHook == [kind |-> "none"]

Init == /\ base \in SmallMap
        /\ recs = <<>>
        /\ stored \in {[key \in TextKeys |-> value] :
                          value \in {Undefined, Typed("string", <<111>>)}}
        /\ staged = <<>> /\ textEncoder \in BOOLEAN
        /\ hook = NoHook /\ shown = Absent

\* The log gains a record, or the bytes of a torn one.
Grow == /\ Len(recs) < MaxLen /\ staged = <<>> /\ textEncoder /\ hook = NoHook
        /\ \A key \in TextKeys : stored[key] = Undefined
        /\ \E rec \in SmallRecord : recs' = Append(recs, rec)
        /\ UNCHANGED <<base, stored, staged, textEncoder, hook, shown>>

\* The callback of a transaction writes or deletes a key.
StageOne ==
    /\ recs = <<>> /\ base = NoKeys /\ hook = NoHook
    /\ \E key \in TextKeys, write \in SmallValues \cup {Delete} :
          staged' = StageWrite(staged, key, write)
    /\ UNCHANGED <<base, recs, stored, textEncoder, hook, shown>>

\* A component with a hook is mounted.
Mount ==
    /\ recs = <<>> /\ base = NoKeys /\ staged = <<>> /\ textEncoder /\ hook = NoHook
    /\ \A key \in TextKeys : stored[key] = Undefined
    /\ shown' \in Texts
    /\ \E first \in Hooks : hook' = OnScreen(Asked(first, shown'))
    /\ UNCHANGED <<base, recs, stored, staged, textEncoder>>

\* Whatever writes to its key; React is told of it, asks, and may ask at any time.
WriteShown ==
    /\ hook # NoHook /\ shown' \in Texts
    /\ UNCHANGED <<base, recs, stored, staged, textEncoder, hook>>

AskAgain ==
    /\ hook # NoHook /\ hook' = Asked(hook, shown)
    /\ UNCHANGED <<base, recs, stored, staged, textEncoder, shown>>

\* It is rendered: with the same getter, with a new one, or for another key.
Render ==
    /\ hook # NoHook
    /\ \/ hook' = OnScreen(Asked(hook, shown)) /\ UNCHANGED shown
       \/ /\ hook.selector # "none"
          /\ \E selector \in Selectors, comparison \in Comparisons :
                hook' = OnScreen(Asked(Reselected(hook, selector, comparison), shown))
          /\ UNCHANGED shown
       \/ shown' \in Texts /\ hook' = OnScreen(Asked(Rekeyed(hook), shown'))
    /\ UNCHANGED <<base, recs, stored, staged, textEncoder>>

Next == Grow \/ StageOne \/ Mount \/ WriteShown \/ AskAgain \/ Render

Spec == Init /\ [][Next]_vars

\* The loop of replay_wal: apply records in order until one cannot be decoded.
ReplayLoop(m0, rs) ==
    LET loop[i \in 0..Len(rs)] ==
            IF i = 0 THEN [map |-> m0, live |-> TRUE]
            ELSE IF loop[i - 1].live /\ rs[i] # Torn
                 THEN [map |-> Apply(loop[i - 1].map, rs[i]), live |-> TRUE]
                 ELSE [map |-> loop[i - 1].map, live |-> FALSE]
    IN loop[Len(rs)].map

(***************************************************************************)
(* Replay returns what the record-by-record loop of replay_wal leaves in   *)
(* the map, for every snapshot and every log, torn or not.                 *)
(***************************************************************************)
ReplayIsLoop == Replay(base, recs) = ReplayLoop(base, recs)

(***************************************************************************)
(* "Records duplicated across the two are harmless": a snapshot that holds *)
(* under every key what that key had after SOME prefix of the log, a       *)
(* different one for each key, as a capture racing mutations does, is      *)
(* brought to the same map by replaying the whole log over it.             *)
(***************************************************************************)
FuzzySnapshotConverges ==
    \A cut \in [Keys -> 0..Len(recs)] :
        Replay(Fuzzy(base, recs, cut), recs) = Replay(base, recs)

(***************************************************************************)
(* "reads match what commit will write" (kv.ts): every typed read in a     *)
(* transaction gives what the same read of the store gives once the batch  *)
(* has been encoded, decoded and applied.  A batch is refused only for     *)
(* half a surrogate pair, which TextEncoder would have replaced.           *)
(***************************************************************************)
IsText(value) == value.kind \in {"string", "json"}
IntactText(value) == IsText(value) => WellFormedText(value.content)

ReadsTrue(old, writes, encoder) ==
    LET batches == DecodeBatch(EncodeBatch(writes, encoder))
    IN /\ batches = {} <=> ~encoder /\ \E i \in 1..Len(writes) : ~IntactText(writes[i].write)
       /\ \A ops \in batches : \A key \in DOMAIN old :
              LET after == Committed(old, ops)
              IN /\ StagedContains(writes, old, key) <=> after[key] # Undefined
                 /\ \A kind \in TypedKinds :
                       LET seen == StagedRead(writes, old, key, kind)
                       IN IntactText(seen) => seen = ReadAs(after[key], kind)

BatchCommits == ReadsTrue(stored, staged, textEncoder)

(***************************************************************************)
(* What React is given when it asks a hook (useKVString and its like,      *)
(* useKVSelector) is made of what the store holds now, up to the           *)
(* comparison of the application; the same object again if nothing was     *)
(* written since the last time it asked, or React would render for ever;   *)
(* and under a new selector the selection on the screen if it equals.      *)
(***************************************************************************)
MadeOf(h, text) ==
    LET given == Asked(h, text).given
    IN CASE h.selector = "none"     -> given.value.what = text
         [] h.comparison = "near"   -> Near(given.what, Select(h.selector, Primitive(text), 0).what)
         [] OTHER                   -> given.what = Select(h.selector, Primitive(text), 0).what

AskedTwice(h, text) ==
    LET asked == Asked(h, text) IN Asked(asked, text).given = asked.given

KeepsScreen(h, text) ==
    LET given == Asked(h, text).given
    IN h.selector # "none" /\ h.comparison # "is" /\ h.instance # None
          /\ Equal(h.comparison, h.instance, Select(h.selector, Primitive(text), 0))
             => given = h.instance

HookTrue ==
    hook # NoHook =>
        /\ MadeOf(hook, shown) /\ AskedTwice(hook, shown)
        /\ hook.snapshot.value.what = shown => Asked(hook, shown).given = hook.given
        /\ hook.selector # "none" =>
              \A selector \in Selectors, comparison \in Comparisons :
                 LET renewed == Reselected(hook, selector, comparison)
                 IN MadeOf(renewed, shown) /\ AskedTwice(renewed, shown)
                       /\ KeepsScreen(renewed, shown)
=============================================================================
