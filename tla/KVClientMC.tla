----------------------------- MODULE KVClientMC -----------------------------
(***************************************************************************)
(* An instance of KVClient for TLC: a store with the keys `name',          *)
(* `profile:name' and `profile:age', its root object and the namespace     *)
(* `profile'.                                                              *)
(***************************************************************************)
EXTENDS KVClient, TLC

Prefixed == [v \in Views |-> IF v = Root THEN [k \in Keys |-> k]
                             ELSE "name" :> "profile:name" @@ "age" :> "profile:age"]

\* A hook and an observer in the namespace, a listener of everything, an atom.
Views0  == [s \in Subs |-> IF s \in {"hook", "observer"} THEN "profile" ELSE Root]
Keys0   == [s \in Subs |-> CASE s = "listener" -> AllKeys
                             [] s = "atom" -> "profile:name"
                             [] OTHER -> "name"]
Kinds0  == [s \in Subs |-> s]

-----------------------------------------------------------------------------
Call0 == [kind |-> "set", view |-> Root, puts |-> <<>>, expires |-> "never", async |-> FALSE,
          sub |-> "hook", from |-> "name", to |-> "name"]

Subscribe(s)   == [Call0 EXCEPT !.kind = "subscribe", !.sub = s]
Unsubscribe(s) == [Call0 EXCEPT !.kind = "unsubscribe", !.sub = s]
Set(v, l, x)   == [Call0 EXCEPT !.view = v, !.puts = l :> x]
Temporary(v, l, x) == [Set(v, l, x) EXCEPT !.expires = "later"]
HookSet(x)     == [Set("profile", "name", x) EXCEPT !.kind = "hookSet"]
Batch(v, puts) == [Call0 EXCEPT !.kind = "batch", !.view = v, !.puts = puts]
Transaction(v, puts, from, to) ==
    [Batch(v, puts) EXCEPT !.kind = "transaction", !.from = from, !.to = to]
ClearRoot      == [Call0 EXCEPT !.kind = "clear"]
ClearPrefix    == [Call0 EXCEPT !.kind = "clearPrefix", !.view = "profile"]
ClearAsync     == [Call0 EXCEPT !.kind = "clearPrefixAsync", !.view = "profile", !.async = TRUE]
Close(v)       == [Call0 EXCEPT !.kind = "close", !.view = v]
Async(call)    == [call EXCEPT !.async = TRUE]

Both    == "name" :> "new" @@ "profile:name" :> "new"
Profile == "name" :> "new" @@ "age" :> "new"

\* Each mix is about one thing that can go wrong; the calls come in any order.
Mixes == {
    \* a hook comes and goes while threads of the pool write
    <<Subscribe("hook"), Async(Set(Root, "profile:name", "old")), Async(Batch(Root, Both)),
      Unsubscribe("hook")>>,
    \* a namespace is cleared asynchronously while a listener watches and somebody writes
    <<Subscribe("listener"), ClearAsync, Async(Set(Root, "profile:name", "old")),
      Batch(Root, Both)>>,
    \* a hook's setter, a key that expires, and the store closing under both
    <<Subscribe("hook"), HookSet("new"), Async(Temporary(Root, "profile:name", "old")),
      Close(Root)>>,
    \* an atom, and the root listener that a close takes away
    <<Subscribe("atom"), Async(Set("profile", "name", "old")), Close(Root),
      Unsubscribe("atom")>>,
    \* a transaction between threads that write and a prefix that is deleted
    <<Subscribe("observer"), Transaction(Root, "name" :> "new", "name", "profile:name"),
      Async(Set("profile", "name", "old")), ClearPrefix>>,
    \* everything is cleared while two views are told of a write
    <<Subscribe("observer"), Subscribe("listener"), Async(ClearRoot),
      Set(Root, "profile:name", "new")>>,
    \* a transaction that reads its namespace, a delete, a close of the wrong object
    <<Subscribe("hook"), Transaction("profile", <<>>, "name", "name"),
      Async(Set(Root, "profile:name", Missing)), Close("profile")>>,
    \* subscriptions to a root and to its namespace, before and after the root is closed
    <<Subscribe("hook"), Subscribe("listener"), Close(Root), Async(Batch(Root, Both))>>,
    \* two subscribers of one view, whose callbacks may remove each other
    <<Subscribe("hook"), Subscribe("observer"), Unsubscribe("hook"),
      Async(Set("profile", "name", "new"))>>,
    \* the store is closed between the removals of an asynchronous clear
    <<Subscribe("hook"), Batch("profile", Profile), ClearAsync, Close(Root)>>
}

PlanOf(mix) == [o \in Calls |-> mix[CHOOSE i \in 1..4 : o = <<"c1", "c2", "c3", "c4">>[i]]]
SmallPlans  == {PlanOf(mix) : mix \in Mixes}

\* Where no key expires a sweeper has nothing to do, and one kind of store is enough.
WithAndWithout == [p \in SmallPlans |->
    IF \E o \in Calls : p[o].expires = "later" THEN BOOLEAN ELSE {TRUE}]

=============================================================================
