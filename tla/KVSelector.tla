----------------------------- MODULE KVSelector -----------------------------
(***************************************************************************)
(* What a hook of hooks.ts shows: the snapshot source keeps one snapshot   *)
(* object while what it reads stays the same, and useKVSelector remembers  *)
(* the selection made of it, so that React, which compares by identity,    *)
(* renders again only when there is something new.                         *)
(*                                                                         *)
(* A value is [what, made]: its content and the number of the object, 0    *)
(* for a primitive.  A number is free again when nothing holds its object. *)
(***************************************************************************)
EXTENDS Integers, FiniteSets

Absent == -1
Texts  == {Absent} \cup 0..3 \* what the store holds under the key

Primitive(what)  == [what |-> what, made |-> 0]
Made(what, n)    == IF what = Absent THEN Primitive(Absent) ELSE [what |-> what, made |-> n]
None             == [what |-> Absent, made |-> -1] \* nothing shown, or remembered, so far
NoSnapshot       == [value |-> None, made |-> -1]

-----------------------------------------------------------------------------
(***************************************************************************)
(* The readers, which give back the previous snapshot if nothing changed   *)
(* or, for a buffer, always make a new one; and the comparisons.           *)
(***************************************************************************)
Kinds == {"value", "json", "buffer"}

ReadValue(text, previous, n) ==
    IF previous # NoSnapshot /\ previous.value = Primitive(text) THEN previous
    ELSE [value |-> Primitive(text), made |-> n]

ReadJSON(text, previous, n) ==
    IF previous # NoSnapshot /\ previous.value.what = text THEN previous
    ELSE [value |-> Made(text, n), made |-> n]

ReadBuffer(text, n) == [value |-> Made(text, n), made |-> n]

Reads(kind, text, previous, n) ==
    CASE kind = "value"  -> ReadValue(text, previous, n)
      [] kind = "json"   -> ReadJSON(text, previous, n)
      [] kind = "buffer" -> ReadBuffer(text, n)

\* Object.is of two values; the same text; the same bytes.
SameSnapshot(kind, previous, next) ==
    IF kind = "value" THEN previous.value = next.value
    ELSE previous.value.what = next.value.what

GetSnapshot(kind, snapshot, text, n) ==
    LET next == Reads(kind, text, snapshot, n)
    IN IF snapshot = NoSnapshot \/ ~SameSnapshot(kind, snapshot, next) THEN next ELSE snapshot

-----------------------------------------------------------------------------
(***************************************************************************)
(* Selectors and comparisons an application may pass: the whole value, a   *)
(* primitive part of it, an object made of that part; Object.is, the same  *)
(* content, and one that is not transitive.                                *)
(***************************************************************************)
Selectors   == {"whole", "part", "object"}
Comparisons == {"is", "content", "near"}

Part(text) == IF text = Absent THEN Absent ELSE (text + 1) \div 2

Select(selector, value, n) ==
    CASE selector = "whole"  -> value
      [] selector = "part"   -> Primitive(Part(value.what))
      [] selector = "object" -> Made(Part(value.what), n)

Near(a, b) == IF Absent \in {a, b} THEN a = b ELSE a - b \in -1..1

Equal(comparison, a, b) ==
    CASE comparison = "is"      -> a = b
      [] comparison = "content" -> a.what = b.what
      [] comparison = "near"    -> Near(a.what, b.what)

-----------------------------------------------------------------------------
(***************************************************************************)
(* A hook: the reader and snapshot of its source; its selector, "none" for *)
(* useKVString and its like, and comparison; what the selection getter     *)
(* remembers; the selection committed to the screen (the instance); and    *)
(* what React was given last.                                              *)
(***************************************************************************)
Forgot == [snapshot |-> -1, selection |-> None]

UseKV(kind, selector, comparison) ==
    [kind |-> kind, snapshot |-> NoSnapshot, selector |-> selector, comparison |-> comparison,
     memo |-> Forgot, instance |-> None, given |-> None]

Hooks ==
    {UseKV(kind, "none", "is") : kind \in Kinds}
        \cup {UseKV("json", selector, comparison) :
                 selector \in Selectors, comparison \in Comparisons}

Held(hook) ==
    {hook.snapshot.made, hook.memo.snapshot, hook.memo.selection.made, hook.instance.made,
     hook.given.made}

FreeNumber(taken) == CHOOSE n \in 1..(Cardinality(taken) + 1) : n \notin taken

\* Mutant: a new selection is returned, and not remembered.
GetSelectionUnremembered(hook, snapshot, n) ==
    LET next   == Select(hook.selector, snapshot.value, n)
        before == IF hook.memo # Forgot THEN hook.memo.selection ELSE hook.instance
        known  == hook.memo # Forgot /\ hook.memo.snapshot = snapshot.made
        kept   == before # None /\ Equal(hook.comparison, before, next)
        found  == IF known \/ kept THEN before ELSE next
    IN [hook EXCEPT !.given = found,
                    !.memo = [snapshot |-> snapshot.made,
                              selection |-> IF hook.memo = Forgot THEN found ELSE before]]

\* createSelectionGetter: the selection remembered, if it was made of this very snapshot;
\* else the new one, unless the last one (or, at first, the one on the screen) equals it.
GetSelection(hook, snapshot, n) ==
    LET next   == Select(hook.selector, snapshot.value, n)
        before == IF hook.memo # Forgot THEN hook.memo.selection ELSE hook.instance
        known  == hook.memo # Forgot /\ hook.memo.snapshot = snapshot.made
        kept   == before # None /\ Equal(hook.comparison, before, next)
        found  == IF known \/ kept THEN before ELSE next
    IN [hook EXCEPT !.given = found,
                    !.memo = [snapshot |-> snapshot.made, selection |-> found]]

\* React asks for the snapshot or the selection, while rendering or to see whether it must.
Asked(hook, text) ==
    LET n        == FreeNumber(Held(hook))
        snapshot == GetSnapshot(hook.kind, hook.snapshot, text, n)
        asked    == [hook EXCEPT !.snapshot = snapshot]
    IN IF hook.selector = "none" THEN [asked EXCEPT !.given = snapshot]
       ELSE GetSelection(asked, snapshot, FreeNumber(Held(hook) \cup {n}))

\* Another selector or comparison, be it the same written inline, is another getter;
\* another key or store is another source as well.
Reselected(hook, selector, comparison) ==
    [hook EXCEPT !.selector = selector, !.comparison = comparison, !.memo = Forgot]

Rekeyed(hook) == [hook EXCEPT !.snapshot = NoSnapshot, !.memo = Forgot]

\* The effect after a render that was committed.
OnScreen(hook) ==
    IF hook.selector = "none" THEN hook ELSE [hook EXCEPT !.instance = hook.given]
=============================================================================
