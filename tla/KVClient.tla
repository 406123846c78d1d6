------------------------------ MODULE KVClient ------------------------------
(***************************************************************************)
(* The KV objects of TypeScript over one open store: how a change gets     *)
(* from the thread that makes it to the listeners, hooks and atoms that    *)
(* subscribed, and the calls of several steps on the way (kv.ts, hooks.ts, *)
(* the adapters, the listener box of HybridSccKvInstance.hpp, notify.rs,   *)
(* store/mutation.rs).                                                     *)
(*                                                                         *)
(* One thread runs JavaScript; asynchronous calls run on a pool, each on a *)
(* thread of its own.  A root object and its namespaces are views of one   *)
(* native instance: each has its own listeners and one native subscription *)
(* while it has any.  A behaviour issues a few calls, its plan, in any     *)
(* order; every call is a process.                                         *)
(***************************************************************************)
EXTENDS Integers, Sequences, FiniteSets

CONSTANTS
    Keys,      \* full keys
    Values,
    Views,     \* KV objects: the root and its namespaces
    Root,
    Full,      \* Full[v]: the full key of each local key of a view
    Subs,      \* subscribers
    SubView, SubKey, SubKind,  \* what each subscribes to, and how
    Calls,     \* names of the calls of a behaviour
    Plans,     \* what the calls may be
    Sweepers   \* Sweepers[p]: may the store have a sweeper under plan p, may it have none

Missing   == "missing"
Untouched == "untouched"
AllKeys   == "all keys"    \* addOnValueChangedListener
Null      == "null"        \* the change of a clear
Nobody    == "nobody"
Sweeper   == "sweeper"

SubKinds  == {"hook", "observer", "atom", "listener"}
CallKinds == {"set", "hookSet", "batch", "transaction", "clear", "clearPrefix",
              "clearPrefixAsync", "subscribe", "unsubscribe", "close"}

Scope(v)  == {Full[v][l] : l \in DOMAIN Full[v]}
Changes   == Keys \cup {Null}
Threads   == Calls \cup {Sweeper}
Slots     == [value : Values \cup {Missing}, expires : {"never", "later", "past"}]
Writes    == [Keys -> Values \cup {Missing, Untouched}]

\* A call: on a view, of a subscriber (hookSet, subscribe, unsubscribe), with writes under
\* local keys and their expiry.  The calls that JavaScript can wait for may be async.
WellFormed(call) ==
    /\ call.kind \in CallKinds /\ call.view \in Views /\ call.sub \in Subs
    /\ DOMAIN call.puts \subseteq DOMAIN Full[call.view]
    /\ \A l \in DOMAIN call.puts : call.puts[l] \in Values \cup {Missing}
    /\ call.expires \in {"never", "later"}
    /\ call.async \in BOOLEAN
    /\ call.async => call.kind \in {"set", "batch", "clear", "clearPrefixAsync"}
    /\ call.kind = "clearPrefixAsync" => call.async
    /\ call.kind = "transaction" => {call.from, call.to} \subseteq DOMAIN Full[call.view]
    /\ call.kind = "hookSet" => call.view = SubView[call.sub]
    /\ call.kind = "clear" => call.view = Root

ASSUME KVClientAssumption ==
    /\ IsFiniteSet(Keys) /\ Null \notin Keys /\ AllKeys \notin Keys
    /\ Missing \notin Values /\ Untouched \notin Values
    /\ Sweeper \notin Calls /\ Nobody \notin Calls /\ Nobody \notin Views
    /\ Root \in Views /\ Full[Root] = [k \in Keys |-> k]
    /\ \A v \in Views : /\ AllKeys \notin DOMAIN Full[v] /\ Scope(v) \subseteq Keys
                        /\ \A l, m \in DOMAIN Full[v] : Full[v][l] = Full[v][m] => l = m
    /\ \A s \in Subs : /\ SubView[s] \in Views /\ SubKind[s] \in SubKinds
                       /\ SubKey[s] \in DOMAIN Full[SubView[s]] \cup {AllKeys}
    /\ \A p \in Plans : Sweepers[p] \subseteq BOOLEAN /\ \A o \in Calls : WellFormed(p[o])

VARIABLES
    plan,      \* what each call is
    slot,      \* Store.map
    storeClosed,
    hasSweeper, \* something sweeps: the writer of a store on disk, or Store.sweeper
    pc,        \* where each call is
    todo,      \* the writes it has yet to apply: full keys
    collect,   \* is_active(), as a batch sampled it before it began
    tell,      \* changes a thread has made and has yet to notify
    visit,     \* and those it is telling: <<change, view>>, for each listener to visit
    native,    \* views that have a native subscription: Listeners.map and nativeSubscription
    pending,   \* ListenerBox.pending, of a view's subscription
    scheduled, \* calls of onChange dispatched to the JS thread, by view
    closed,    \* KV.closed of the root
    phase,     \* of each subscriber: off, reading, attached (its entry is in the set), on
    shown,     \* what it last read, by full key
    js,        \* the call the JS thread is in
    frame,     \* the deliverChanges the JS thread is in
    \* history, for the properties only
    unheard,   \* keys of which each subscriber missed a change by design
    rewritten  \* keys given a value since a call was issued

storeVars  == <<slot, storeClosed, hasSweeper>>
callVars   == <<pc, todo, collect>>
noteVars   == <<tell, visit>>
boxVars    == <<native, pending, scheduled>>
subVars    == <<closed, phase, shown>>
jsVars     == <<js, frame>>
ghostVars  == <<unheard, rewritten>>
vars == <<plan, storeVars, callVars, noteVars, boxVars, subVars, jsVars, ghostVars>>

Absent  == [value |-> Missing, expires |-> "never"]
NoFrame == [view |-> Nobody, rest |-> <<>>, called |-> {}]
Nothing == [k \in Keys |-> Untouched]
Blank   == [k \in Keys |-> Missing]

Init ==
    /\ plan \in Plans
    /\ slot = [k \in Keys |-> Absent] /\ storeClosed = FALSE /\ hasSweeper \in Sweepers[plan]
    /\ pc = [o \in Calls |-> "planned"] /\ todo = [o \in Calls |-> Nothing]
    /\ collect = [o \in Calls |-> FALSE]
    /\ tell = [p \in Threads |-> {}] /\ visit = [p \in Threads |-> {}]
    /\ native = [v \in Views |-> FALSE] /\ pending = [v \in Views |-> <<>>]
    /\ scheduled = [v \in Views |-> 0]
    /\ closed = FALSE
    /\ phase = [s \in Subs |-> "off"] /\ shown = [s \in Subs |-> Blank]
    /\ js = Nobody /\ frame = NoFrame
    /\ unheard = [s \in Subs |-> {}] /\ rewritten = [o \in Calls |-> {}]

-----------------------------------------------------------------------------
(***************************************************************************)
(* Reading and writing.                                                    *)
(***************************************************************************)
\* get: an expired key reads as missing.
Visible(k) == IF slot[k].expires = "past" THEN Missing ELSE slot[k].value

Listed == {k \in Keys : Visible(k) # Missing}

Watched(s) == IF SubKey[s] = AllKeys THEN Scope(SubView[s])
              ELSE {Full[SubView[s]][SubKey[s]]}

\* What a subscriber shows once it has read these keys again.
Reread(s, ks) == [k \in Keys |-> IF k \in ks THEN Visible(k) ELSE shown[s][k]]

\* Mutant: the prefix is left out.
BareWrites(v, puts) == [k \in Keys |-> IF k \in DOMAIN puts THEN puts[k] ELSE Untouched]

\* fullKey, fullKeys, encodeBatch: writes under local keys, as the store gets them.
FullWrites(v, puts) ==
    [k \in Keys |-> IF \E l \in DOMAIN puts : Full[v][l] = k
                    THEN puts[CHOOSE l \in DOMAIN puts : Full[v][l] = k]
                    ELSE Untouched]

Removals(ks) == [k \in Keys |-> IF k \in ks THEN Missing ELSE Untouched]

Touched(o) == {k \in Keys : todo[o][k] # Untouched}

\* apply_set and remove_sync, and whether the key changed.
Put(k, value, expires) ==
    slot' = [slot EXCEPT ![k] = IF value = Missing THEN Absent
                                ELSE [value |-> value, expires |-> expires]]
Changed(k, value) == value # Missing \/ slot[k] # Absent

Rewrite(k, value) ==
    rewritten' = IF value = Missing THEN rewritten
                 ELSE [o \in Calls |-> rewritten[o] \cup {k}]

-----------------------------------------------------------------------------
(***************************************************************************)
(* The JS thread takes a call from the plan, at top level or from inside a *)
(* callback of deliverChanges.  A synchronous call keeps the thread.       *)
(***************************************************************************)
JsFree == js = Nobody /\ (frame = NoFrame \/ frame.called # {})

\* Where a call begins, and the writes it brings along.
Begin(o) ==
    CASE plan[o].kind \in {"set", "hookSet"}  -> "put"
      [] plan[o].kind = "batch"               -> "sample"
      [] plan[o].kind = "transaction"         -> "stage"
      [] plan[o].kind = "clear"               -> "clear"
      [] plan[o].kind \in {"clearPrefix", "clearPrefixAsync"} -> "list"
      [] plan[o].kind = "subscribe"           -> "read"
      [] plan[o].kind = "unsubscribe"         -> "detach"
      [] plan[o].kind = "close"               -> "release"

Issue(o) ==
    /\ pc[o] = "planned" /\ JsFree
    /\ plan[o].kind = "subscribe" => phase[plan[o].sub] = "off"
    /\ pc' = [pc EXCEPT ![o] = Begin(o)]
    /\ todo' = [todo EXCEPT ![o] = FullWrites(plan[o].view, plan[o].puts)]
    /\ js' = IF plan[o].async THEN js ELSE o
    /\ rewritten' = [rewritten EXCEPT ![o] = {}]
    /\ UNCHANGED <<plan, storeVars, collect, noteVars, boxVars, subVars, frame, unheard>>

\* A call returns, throws or settles its promise; a synchronous one frees the thread.
Return(o, how) ==
    /\ pc' = [pc EXCEPT ![o] = how]
    /\ js' = IF js = o THEN Nobody ELSE js

\* mutate refuses once the store is closed.
Refuse(o) ==
    /\ pc[o] \in {"put", "admit", "clear", "removing"} /\ storeClosed
    /\ Return(o, "failed")
    /\ UNCHANGED <<plan, storeVars, todo, collect, noteVars, boxVars, subVars, frame, ghostVars>>

\* set, delete, setAsync, deleteAsync, the setters with a ttl: one key.
SetKey(o) ==
    /\ pc[o] = "put" /\ ~storeClosed
    /\ \E k \in Touched(o) :
          /\ Put(k, todo[o][k], plan[o].expires)
          /\ tell' = [tell EXCEPT ![o] = IF Changed(k, todo[o][k]) THEN {k} ELSE {}]
          /\ todo' = [todo EXCEPT ![o] = Nothing]
          /\ Rewrite(k, todo[o][k])
    /\ pc' = [pc EXCEPT ![o] = "notify"]
    /\ UNCHANGED <<plan, storeClosed, hasSweeper, collect, visit, boxVars, subVars, jsVars,
                   unheard>>

(***************************************************************************)
(* transaction: the callback stages its writes in a map of its own, reads  *)
(* a key (its own staged write if there is one) and may write what it read *)
(* to another.  If it throws or returns a promise nothing is committed.    *)
(***************************************************************************)
TxRead(o) == LET k == Full[plan[o].view][plan[o].from]
             IN IF todo[o][k] # Untouched THEN todo[o][k] ELSE Visible(k)

Stage(o) ==
    /\ pc[o] = "stage"
    /\ LET to == Full[plan[o].view][plan[o].to]
       IN todo' = [todo EXCEPT ![o][to] = TxRead(o)]
    /\ pc' = [pc EXCEPT ![o] = "sample"]
    /\ UNCHANGED <<plan, storeVars, collect, noteVars, boxVars, subVars, jsVars, ghostVars>>

Abandon(o) ==
    /\ pc[o] = "stage" /\ Return(o, "failed")
    /\ todo' = [todo EXCEPT ![o] = Nothing]
    /\ UNCHANGED <<plan, storeVars, collect, noteVars, boxVars, subVars, frame, ghostVars>>

(***************************************************************************)
(* set_many and apply_batch: sample whether anybody listens, then apply    *)
(* key by key, in view of readers, and notify when all is applied.         *)
(***************************************************************************)
Sample(o) ==
    /\ pc[o] = "sample"
    /\ collect' = [collect EXCEPT ![o] = \E v \in Views : native[v]]
    /\ pc' = [pc EXCEPT ![o] = "admit"]
    /\ UNCHANGED <<plan, storeVars, todo, noteVars, boxVars, subVars, jsVars, ghostVars>>

Admit(o) ==
    /\ pc[o] = "admit" /\ ~storeClosed
    /\ pc' = [pc EXCEPT ![o] = "apply"]
    /\ UNCHANGED <<plan, storeVars, todo, collect, noteVars, boxVars, subVars, jsVars, ghostVars>>

\* clear: every key goes, then one change is told, of no key.
Clear(o) ==
    /\ pc[o] = "clear" /\ ~storeClosed
    /\ todo' = [todo EXCEPT ![o] = Removals(Keys)]
    /\ tell' = [tell EXCEPT ![o] = {Null}]
    /\ pc' = [pc EXCEPT ![o] = "apply"]
    /\ UNCHANGED <<plan, storeVars, collect, visit, boxVars, subVars, jsVars, ghostVars>>

Listening(s) == phase[s] \in {"attached", "on"}

\* History: these keys change and nobody is told.
NobodyHears(ks) ==
    unheard' = [s \in Subs |-> IF Listening(s) THEN unheard[s] \cup (ks \cap Watched(s))
                               ELSE unheard[s]]

ApplyKey(o) ==
    /\ pc[o] = "apply"
    /\ \E k \in Touched(o) :
          /\ Put(k, todo[o][k], "never")
          /\ todo' = [todo EXCEPT ![o][k] = Untouched]
          /\ tell' = IF collect[o] /\ Null \notin tell[o] /\ Changed(k, todo[o][k])
                     THEN [tell EXCEPT ![o] = @ \cup {k}] ELSE tell
          /\ NobodyHears(IF collect[o] \/ Null \in tell[o] THEN {} ELSE {k})
          /\ Rewrite(k, todo[o][k])
    /\ UNCHANGED <<plan, storeClosed, hasSweeper, pc, collect, visit, boxVars, subVars, jsVars>>

Applied(o) ==
    /\ pc[o] = "apply" /\ Touched(o) = {}
    /\ pc' = [pc EXCEPT ![o] = "notify"]
    /\ UNCHANGED <<plan, storeVars, todo, collect, noteVars, boxVars, subVars, jsVars, ghostVars>>

(***************************************************************************)
(* deleteByPrefix, and clearAll of a namespace: list the keys, then delete *)
(* them in one batch.  clearAllAsync of a namespace lists on the pool,     *)
(* comes back to the JS thread, and removes each key by a call of its own. *)
(***************************************************************************)
ListKeys(o) ==
    /\ pc[o] = "list"
    /\ LET found == Listed \cap Scope(plan[o].view)
       IN /\ todo' = [todo EXCEPT ![o] = Removals(found)]
          /\ IF found = {} THEN Return(o, "done")
             ELSE /\ pc' = [pc EXCEPT ![o] = IF plan[o].kind = "clearPrefix"
                                             THEN "sample" ELSE "listed"]
                  /\ UNCHANGED js
    /\ UNCHANGED <<plan, storeVars, collect, noteVars, boxVars, subVars, frame, ghostVars>>

\* The continuation after the await, which runs between two tasks.
ResumeClear(o) ==
    /\ pc[o] = "listed" /\ js = Nobody /\ frame = NoFrame
    /\ pc' = [pc EXCEPT ![o] = "removing"]
    /\ UNCHANGED <<plan, storeVars, todo, collect, noteVars, boxVars, subVars, jsVars, ghostVars>>

RemoveOne(o) ==
    /\ pc[o] = "removing" /\ ~storeClosed
    /\ \E k \in Touched(o) :
          /\ Put(k, Missing, "never")
          /\ todo' = [todo EXCEPT ![o][k] = Untouched]
          /\ tell' = IF Changed(k, Missing) THEN [tell EXCEPT ![o] = @ \cup {k}] ELSE tell
    /\ UNCHANGED <<plan, storeClosed, hasSweeper, pc, collect, visit, boxVars, subVars, jsVars,
                   ghostVars>>

\* Mutant: nobody awaits the removals.
RemovedSoon(o) ==
    /\ pc[o] = "removing" /\ pc' = [pc EXCEPT ![o] = "notify"]
    /\ UNCHANGED <<plan, storeVars, todo, collect, noteVars, boxVars, subVars, jsVars, ghostVars>>

\* Promise.all: every removal has returned.
Removed(o) ==
    /\ pc[o] = "removing" /\ Touched(o) = {}
    /\ pc' = [pc EXCEPT ![o] = "notify"]
    /\ UNCHANGED <<plan, storeVars, todo, collect, noteVars, boxVars, subVars, jsVars, ghostVars>>

-----------------------------------------------------------------------------
(***************************************************************************)
(* Listeners.notify and the trampoline: a thread goes through the          *)
(* listeners of the store, queues the change in the box of each and, when  *)
(* the box was empty, dispatches one onChange to the JS thread.            *)
(***************************************************************************)
\* Each removal of an asynchronous clear notifies on its own, those too that were made before
\* another was refused.
MayNotify(p) == p \in Calls => pc[p] \in {"notify", "removing", "failed"}

Notify(p) ==
    /\ MayNotify(p)
    /\ \E c \in tell[p] :
          /\ tell' = [tell EXCEPT ![p] = @ \ {c}]
          /\ visit' = [visit EXCEPT ![p] = @ \cup {<<c, v>> : v \in {w \in Views : native[w]}}]
    /\ UNCHANGED <<plan, storeVars, callVars, boxVars, subVars, jsVars, ghostVars>>

Visit(p) ==
    /\ \E c \in Changes, v \in Views :
          /\ <<c, v>> \in visit[p]
          /\ visit' = [visit EXCEPT ![p] = @ \ {<<c, v>>}]
          /\ pending' = [pending EXCEPT ![v] = Append(@, c)]
          /\ scheduled' = IF pending[v] = <<>> THEN [scheduled EXCEPT ![v] = @ + 1]
                          ELSE scheduled
    /\ UNCHANGED <<plan, storeVars, callVars, tell, native, subVars, jsVars, ghostVars>>

Finish(o) ==
    /\ pc[o] = "notify" /\ tell[o] = {} /\ visit[o] = {}
    /\ IF plan[o].kind = "hookSet"
       THEN pc' = [pc EXCEPT ![o] = "invalidate"] /\ UNCHANGED js
       ELSE Return(o, "done")
    /\ UNCHANGED <<plan, storeVars, todo, collect, noteVars, boxVars, subVars, frame, ghostVars>>

-----------------------------------------------------------------------------
(***************************************************************************)
(* Subscribing.  A hook (KVSnapshotSource.subscribe) reads, attaches, and  *)
(* reads again; observeJSON attaches and then reads; the jotai atom reads  *)
(* when it is mounted and then attaches; a plain listener only attaches,   *)
(* and is taken to have read at that moment.                               *)
(***************************************************************************)
\* The owner of a subscription reads these keys.
Show(s, ks) ==
    /\ shown' = [shown EXCEPT ![s] = Reread(s, ks)]
    /\ unheard' = [unheard EXCEPT ![s] = @ \ ks]

ReadFirst(o) ==
    LET s == plan[o].sub
    IN /\ pc[o] = "read"
       /\ IF SubKind[s] \in {"hook", "atom"}
          THEN shown' = [shown EXCEPT ![s] = Reread(s, Watched(s))]
          ELSE UNCHANGED shown
       /\ phase' = [phase EXCEPT ![s] = "reading"]
       /\ pc' = [pc EXCEPT ![o] = "attach"]
       /\ UNCHANGED <<plan, storeVars, todo, collect, noteVars, boxVars, closed, jsVars, ghostVars>>

\* KV.subscribe: the entry joins the set, and with the first one the view its listener.
\* Threads that are telling a change may or may not come across the new listener, and a
\* loop over the set that is under way may or may not come across the new entry.
Attach(o) ==
    LET s == plan[o].sub  v == SubView[s]
    IN /\ pc[o] = "attach" /\ ~(v = Root /\ closed)
       /\ native' = [native EXCEPT ![v] = TRUE]
       /\ IF native[v] THEN UNCHANGED visit
          ELSE \E late \in SUBSET {p \in Threads : visit[p] # {}} :
                  visit' = [p \in Threads |->
                      IF p \in late THEN visit[p] \cup {<<n[1], v>> : n \in visit[p]}
                      ELSE visit[p]]
       /\ phase' = [phase EXCEPT ![s] = IF SubKind[s] \in {"hook", "observer"}
                                        THEN "attached" ELSE "on"]
       /\ CASE SubKind[s] = "atom" ->
                  /\ UNCHANGED shown
                  /\ unheard' = [unheard EXCEPT ![s] =
                        {k \in Watched(s) : shown[s][k] # Visible(k)}]
            [] SubKind[s] = "listener" -> Show(s, Watched(s))
            [] OTHER -> UNCHANGED <<shown, unheard>>
       /\ IF SubKind[s] \in {"hook", "observer"}
          THEN pc' = [pc EXCEPT ![o] = "settle"] /\ UNCHANGED js
          ELSE Return(o, "done")
       /\ IF frame.view = v
          THEN \E called \in {frame.called \ {s}, frame.called \cup {s}} :
                  frame' = [frame EXCEPT !.called = called]
          ELSE UNCHANGED frame
       /\ UNCHANGED <<plan, storeVars, todo, collect, tell, pending, scheduled, closed, rewritten>>

\* Mutant: what was read before the entry joined the set is taken to be current.
SettleBlind(o) ==
    LET s == plan[o].sub
    IN /\ pc[o] = "settle"
       /\ phase' = [phase EXCEPT ![s] = "on"]
       /\ Return(o, "done")
       /\ UNCHANGED <<plan, storeVars, todo, collect, noteVars, boxVars, closed, shown, frame,
                      ghostVars>>

\* The hook takes its second reading and, if it differs, tells React, which reads as well.
Settle(o) ==
    LET s == plan[o].sub
    IN /\ pc[o] = "settle"
       /\ Show(s, Watched(s))
       /\ phase' = [phase EXCEPT ![s] = "on"]
       /\ Return(o, "done")
       /\ UNCHANGED <<plan, storeVars, todo, collect, noteVars, boxVars, closed, frame, rewritten>>

\* A subscription to a closed root throws.
AttachClosed(o) ==
    LET s == plan[o].sub
    IN /\ pc[o] = "attach" /\ SubView[s] = Root /\ closed
       /\ phase' = [phase EXCEPT ![s] = "off"]
       /\ shown' = [shown EXCEPT ![s] = Blank]
       /\ Return(o, "failed")
       /\ UNCHANGED <<plan, storeVars, todo, collect, noteVars, boxVars, closed, frame, ghostVars>>

Entries(v) == {s \in Subs : SubView[s] = v /\ Listening(s)}

\* Mutant: the subscription stays behind in the store.
KeepNative(vs) == UNCHANGED <<native, pending, visit>>

\* removeListener: the listener and its box are gone; calls already dispatched are not.
DropNative(vs) ==
    /\ native' = [v \in Views |-> native[v] /\ v \notin vs]
    /\ pending' = [v \in Views |-> IF v \in vs THEN <<>> ELSE pending[v]]
    /\ visit' = [p \in Threads |-> {n \in visit[p] : n[2] \notin vs}]

\* remove(), also by observeJSON when its first read throws: with the last entry of a view its
\* native subscription goes.
Detach(o) ==
    LET s == plan[o].sub  v == SubView[s]
    IN /\ pc[o] = "detach" \/ (pc[o] = "settle" /\ SubKind[s] = "observer")
       /\ IF Listening(s)
          THEN /\ phase' = [phase EXCEPT ![s] = "off"]
               /\ shown' = [shown EXCEPT ![s] = Blank]
               /\ unheard' = [unheard EXCEPT ![s] = {}]
               /\ DropNative(IF Entries(v) = {s} THEN {v} ELSE {})
          ELSE UNCHANGED <<phase, shown, unheard, native, pending, visit>>
       /\ Return(o, IF pc[o] = "settle" THEN "failed" ELSE "done")
       /\ UNCHANGED <<plan, storeVars, todo, collect, tell, scheduled, closed, frame, rewritten>>

\* source.invalidate() at the end of a hook's setter: React reads again.
Invalidate(o) ==
    LET s == plan[o].sub
    IN /\ pc[o] = "invalidate"
       /\ IF phase[s] = "on" THEN Show(s, Watched(s)) ELSE UNCHANGED <<shown, unheard>>
       /\ Return(o, "done")
       /\ UNCHANGED <<plan, storeVars, todo, collect, noteVars, boxVars, closed, phase, frame,
                      rewritten>>

-----------------------------------------------------------------------------
(***************************************************************************)
(* close of the root: its listeners go, then the store closes, which waits *)
(* for the mutations already admitted.  A namespace cannot be closed.      *)
(***************************************************************************)
Release(o) ==
    /\ pc[o] = "release"
    /\ IF plan[o].view # Root \/ closed
       THEN /\ Return(o, IF plan[o].view # Root THEN "failed" ELSE "done")
            /\ UNCHANGED <<phase, shown, unheard, native, pending, visit>>
       ELSE /\ DropNative({Root})
            /\ phase' = [s \in Subs |-> IF s \in Entries(Root) THEN "off" ELSE phase[s]]
            /\ shown' = [s \in Subs |-> IF s \in Entries(Root) THEN Blank ELSE shown[s]]
            /\ unheard' = [s \in Subs |-> IF s \in Entries(Root) THEN {} ELSE unheard[s]]
            /\ pc' = [pc EXCEPT ![o] = "close"] /\ UNCHANGED js
    /\ UNCHANGED <<plan, storeVars, todo, collect, tell, scheduled, closed, frame, rewritten>>

CloseStore(o) ==
    /\ pc[o] = "close" /\ \A other \in Calls : pc[other] # "apply"
    /\ storeClosed' = TRUE /\ closed' = TRUE
    /\ NobodyHears({k \in Keys : slot[k].expires = "past"})
    /\ Return(o, "done")
    /\ UNCHANGED <<plan, slot, hasSweeper, todo, collect, noteVars, boxVars, phase, shown, frame,
                   rewritten>>

-----------------------------------------------------------------------------
\* Mutant: what is dispatched is not counted off.
DeliverUnasked(v) ==
    /\ js = Nobody /\ frame = NoFrame
    /\ scheduled' = [scheduled EXCEPT ![v] = @ - 1]
    /\ pending' = [pending EXCEPT ![v] = <<>>]
    /\ UNCHANGED <<plan, storeVars, callVars, noteVars, native, subVars, jsVars, ghostVars>>

\* Mutant: takeChanges takes one change and leaves the others.
DeliverOne(v) ==
    /\ js = Nobody /\ frame = NoFrame /\ scheduled[v] > 0
    /\ scheduled' = [scheduled EXCEPT ![v] = @ - 1]
    /\ pending' = [pending EXCEPT ![v] = IF @ = <<>> THEN @ ELSE Tail(@)]
    /\ frame' = IF native[v] /\ pending[v] # <<>>
                THEN [view |-> v, rest |-> <<Head(pending[v])>>, called |-> {}] ELSE NoFrame
    /\ UNCHANGED <<plan, storeVars, callVars, noteVars, native, subVars, js, ghostVars>>

(***************************************************************************)
(* deliverChanges, called by the JS thread for each onChange dispatched.   *)
(* It takes what is pending and, change by change, calls the entries that  *)
(* are in the set when their turn comes.  A callback that throws does not  *)
(* end the loop.                                                           *)
(***************************************************************************)
Deliver(v) ==
    /\ js = Nobody /\ frame = NoFrame /\ scheduled[v] > 0
    /\ scheduled' = [scheduled EXCEPT ![v] = @ - 1]
    /\ pending' = [pending EXCEPT ![v] = <<>>]
    /\ frame' = IF native[v] /\ pending[v] # <<>>
                THEN [view |-> v, rest |-> pending[v], called |-> {}] ELSE NoFrame
    /\ UNCHANGED <<plan, storeVars, callVars, noteVars, native, subVars, js, ghostVars>>

\* toLocalChangedKey, and the listeners of that key: everybody hears of a clear.
Hears(s, c) ==
    \/ c = Null
    \/ \E l \in DOMAIN Full[SubView[s]] :
          Full[SubView[s]][l] = c /\ SubKey[s] \in {l, AllKeys}

\* Mutant: a copy of the entries is called, those removed since among them.
ToCallCopied == {s \in Subs : SubView[s] = frame.view /\ Hears(s, Head(frame.rest))}
                    \ frame.called

ToCall == {s \in Entries(frame.view) : Hears(s, Head(frame.rest))} \ frame.called

CallListener(s) ==
    /\ js = Nobody /\ frame # NoFrame /\ s \in ToCall
    /\ Show(s, IF Head(frame.rest) = Null THEN Watched(s)
               ELSE Watched(s) \cap {Head(frame.rest)})
    /\ frame' = [frame EXCEPT !.called = @ \cup {s}]
    /\ UNCHANGED <<plan, storeVars, callVars, noteVars, boxVars, closed, phase, js, rewritten>>

NextChange ==
    /\ js = Nobody /\ frame # NoFrame /\ ToCall = {}
    /\ frame' = IF Tail(frame.rest) = <<>> THEN NoFrame
                ELSE [frame EXCEPT !.rest = Tail(@), !.called = {}]
    /\ UNCHANGED <<plan, storeVars, callVars, noteVars, boxVars, subVars, js, ghostVars>>

-----------------------------------------------------------------------------
(***************************************************************************)
(* Time, and the sweep: expired keys go and their change is told.  A store  *)
(* in memory that evicts nothing is not swept; there, and in a store that  *)
(* is closed, an expired key stays and nobody is told.                     *)
(***************************************************************************)
Swept == hasSweeper /\ ~storeClosed

Expire(k) ==
    /\ slot[k].expires = "later"
    /\ slot' = [slot EXCEPT ![k].expires = "past"]
    /\ NobodyHears(IF Swept THEN {} ELSE {k})
    /\ UNCHANGED <<plan, storeClosed, hasSweeper, callVars, noteVars, boxVars, subVars, jsVars,
                   rewritten>>

\* Mutant: a sweep removes and tells nobody.
SweepQuiet(k) ==
    /\ slot[k].expires = "past" /\ Swept
    /\ slot' = [slot EXCEPT ![k] = Absent]
    /\ UNCHANGED <<plan, storeClosed, hasSweeper, callVars, noteVars, boxVars, subVars, jsVars,
                   ghostVars>>

Sweep(k) ==
    /\ slot[k].expires = "past" /\ Swept
    /\ slot' = [slot EXCEPT ![k] = Absent]
    /\ tell' = [tell EXCEPT ![Sweeper] = @ \cup {k}]
    /\ UNCHANGED <<plan, storeClosed, hasSweeper, callVars, visit, boxVars, subVars, jsVars,
                   ghostVars>>

-----------------------------------------------------------------------------
Step(o) ==
    \/ Refuse(o) \/ SetKey(o) \/ Stage(o) \/ Abandon(o)
    \/ Sample(o) \/ Admit(o) \/ Clear(o) \/ ApplyKey(o) \/ Applied(o)
    \/ ListKeys(o) \/ ResumeClear(o) \/ RemoveOne(o) \/ Removed(o) \/ Finish(o)
    \/ ReadFirst(o) \/ Attach(o) \/ Settle(o) \/ AttachClosed(o)
    \/ Detach(o) \/ Invalidate(o) \/ Release(o) \/ CloseStore(o)

Delivery == (\E v \in Views : Deliver(v)) \/ (\E s \in Subs : CallListener(s)) \/ NextChange

Telling(p) == Notify(p) \/ Visit(p)

Done == /\ \A o \in Calls : pc[o] \in {"planned", "done", "failed"}
        /\ \A p \in Threads : tell[p] = {} /\ visit[p] = {}
        /\ frame = NoFrame /\ \A v \in Views : scheduled[v] = 0
        /\ \A k \in Keys : slot[k].expires = "never" \/ ~Swept
        /\ UNCHANGED vars

Next ==
    \/ \E o \in Calls : Issue(o) \/ Step(o)
    \/ \E p \in Threads : Telling(p)
    \/ Delivery
    \/ \E k \in Keys : Expire(k) \/ Sweep(k)
    \/ Done

Spec == Init /\ [][Next]_vars

(***************************************************************************)
(* Calls that were issued run, the JS thread serves its queue, and the     *)
(* sweeper, where the store has one, comes round.  Nobody has to issue a   *)
(* call.                                                                   *)
(***************************************************************************)
Fairness ==
    /\ \A o \in Calls : WF_vars(Step(o))
    /\ \A p \in Threads : WF_vars(Telling(p))
    /\ WF_vars(Delivery)
    /\ \A k \in Keys : WF_vars(Sweep(k))

FairSpec == Spec /\ Fairness

-----------------------------------------------------------------------------
(***************************************************************************)
(* Types.                                                                  *)
(***************************************************************************)
PCs == {"planned", "put", "stage", "sample", "admit", "clear", "apply", "list", "listed",
        "removing", "notify", "invalidate", "read", "attach", "settle", "detach", "release",
        "close", "done", "failed"}

TypeOfStore ==
    /\ plan \in Plans
    /\ slot \in [Keys -> Slots] /\ storeClosed \in BOOLEAN /\ hasSweeper \in BOOLEAN

TypeOfCalls ==
    /\ pc \in [Calls -> PCs] /\ todo \in [Calls -> Writes] /\ collect \in [Calls -> BOOLEAN]

TypeOfNotes ==
    /\ tell \in [Threads -> SUBSET Changes]
    /\ visit \in [Threads -> SUBSET (Changes \X Views)]

TypeOfBoxes ==
    /\ native \in [Views -> BOOLEAN] /\ pending \in [Views -> Seq(Changes)]
    /\ scheduled \in [Views -> Nat]

TypeOfSubs ==
    /\ closed \in BOOLEAN
    /\ phase \in [Subs -> {"off", "reading", "attached", "on"}]
    /\ shown \in [Subs -> [Keys -> Values \cup {Missing}]]

TypeOfJs ==
    /\ js \in Calls \cup {Nobody}
    /\ frame \in [view : Views \cup {Nobody}, rest : Seq(Changes), called : SUBSET Subs]

TypeOfGhosts ==
    unheard \in [Subs -> SUBSET Keys] /\ rewritten \in [Calls -> SUBSET Keys]

TypeOK ==
    /\ TypeOfStore /\ TypeOfCalls /\ TypeOfNotes /\ TypeOfBoxes /\ TypeOfSubs
    /\ TypeOfJs /\ TypeOfGhosts

(***************************************************************************)
(* A view has a native subscription exactly while it has entries: none is  *)
(* leaked, and no entry is left without one.                               *)
(***************************************************************************)
NativeWhileNeeded == \A v \in Views : native[v] <=> Entries(v) # {}

(***************************************************************************)
(* "Changes queue natively and cross into JS as one batch per burst": only *)
(* the first change of a burst schedules a delivery, and none is left in a *)
(* box that nobody is going to open.                                       *)
(***************************************************************************)
BurstScheduled == \A v \in Views : pending[v] # <<>> => native[v] /\ scheduled[v] > 0

(***************************************************************************)
(* "The listener fires for every mutation of the underlying store": what a *)
(* subscriber shows under a key is what is stored, or the change is on its *)
(* way.  The exceptions, unheard: keys written by a batch that began when  *)
(* nobody listened, those that changed before an atom had attached, and    *)
(* those that expire in a store that is closed or has no sweeper.          *)
(***************************************************************************)
Concerns(k) == {k, Null}

InStore(k)  == slot[k].expires = "past" /\ Swept
Told(k)     == \E p \in Threads : tell[p] \cap Concerns(k) # {}
Visiting(k, v) == \E p \in Threads : \E c \in Concerns(k) : <<c, v>> \in visit[p]
Queued(k, v) == \E i \in 1..Len(pending[v]) : pending[v][i] \in Concerns(k)
InFrame(k, s) ==
    /\ frame.view = SubView[s]
    /\ \E i \in 1..Len(frame.rest) :
          frame.rest[i] \in Concerns(k) /\ (i = 1 => s \notin frame.called)

OnItsWay(s, k) ==
    \/ InStore(k) \/ Told(k) \/ Visiting(k, SubView[s]) \/ Queued(k, SubView[s])
    \/ InFrame(k, s)

NoChangeLost ==
    \A s \in Subs : phase[s] = "on" =>
        \A k \in Watched(s) \ unheard[s] : shown[s][k] = Visible(k) \/ OnItsWay(s, k)

(***************************************************************************)
(* The machinery implements KVMirror: what subscribers show follows what   *)
(* is stored, in the end too.                                              *)
(***************************************************************************)
On == {s \in Subs : phase[s] = "on"}

Mirror == INSTANCE KVMirror WITH
    Owners  <- Subs,
    Watches <- [s \in Subs |-> Watched(s)],
    stored  <- [k \in Keys |-> Visible(k)],
    shown   <- [s \in Subs |-> IF s \in On THEN shown[s] ELSE Blank],
    on      <- On,
    deaf    <- [s \in Subs |-> IF s \in On THEN unheard[s] ELSE {}]

MirrorsStore == Mirror!Spec

(***************************************************************************)
(* After remove() or close() a subscriber is not called any more, not even *)
(* for changes that were already taken.                                    *)
(***************************************************************************)
NoCallWhenOff ==
    [][\A s \in Subs : phase[s] = "off" /\ phase'[s] = "off" => shown'[s] = shown[s]]_vars

(***************************************************************************)
(* A namespace touches and tells only its own keys.  When a key changes,   *)
(* other than by the clock and the sweep, the call that makes this step    *)
(* has just done its write of that key, which lies in the scope of its     *)
(* view: what is stored now is what that call writes there, a value it was *)
(* given under the local name of the key, one its transaction read, or     *)
(* nothing in a clear.  A call reports keys it has just written, null only *)
(* when it clears the store; and a subscriber is called for keys that it   *)
(* subscribed to, or for null.                                             *)
(***************************************************************************)
Clears == {"clear", "clearPrefix", "clearPrefixAsync"}

\* What a call may write under a full key.
Meant(o, k) ==
    LET v == plan[o].view
    IN {plan[o].puts[l] : l \in {m \in DOMAIN plan[o].puts : Full[v][m] = k}}
       \cup {x \in Values \cup {Missing} :
               plan[o].kind = "transaction" /\ Full[v][plan[o].to] = k}
       \cup {x \in {Missing} : plan[o].kind \in Clears}

\* This step is the write of k that the call had yet to do.
Wrote(o, k) ==
    /\ todo[o][k] # Untouched /\ todo'[o][k] = Untouched
    /\ k \in Scope(plan[o].view) /\ todo[o][k] \in Meant(o, k)
    /\ slot'[k].value = todo[o][k]

\* This step is the clock's or the sweeper's.
Aged(k) ==
    /\ UNCHANGED todo
    /\ \/ slot[k].expires = "later" /\ slot'[k] = [slot[k] EXCEPT !.expires = "past"]
       \/ slot[k].expires = "past" /\ slot'[k] = Absent /\ k \in tell'[Sweeper]

WritesScoped == \A k \in Keys : slot'[k] # slot[k] => Aged(k) \/ \E o \in Calls : Wrote(o, k)

TellsScoped ==
    \A o \in Calls : \A c \in tell'[o] \ tell[o] :
        IF c = Null THEN plan[o].kind = "clear" ELSE Wrote(o, c)

CallsScoped ==
    \A s \in Subs : Listening(s) /\ s \in frame'.called \ frame.called =>
        Head(frame.rest) \in Watched(s) \cup {Null}

Scoped == [][WritesScoped /\ TellsScoped /\ CallsScoped]_vars

(***************************************************************************)
(* clearAllAsync of a namespace lists, awaits and removes: what was there  *)
(* when it was called is gone when its promise resolves, unless somebody   *)
(* wrote it again in the meantime.                                         *)
(***************************************************************************)
AsyncClearClears ==
    [][\A o \in Calls :
          plan[o].kind = "clearPrefixAsync" /\ pc[o] # "done" /\ pc'[o] = "done" =>
              \A k \in Scope(plan[o].view) : Visible(k)' = Missing \/ k \in rewritten[o]]_vars
=============================================================================
