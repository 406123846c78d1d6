------------------------------ MODULE KVMirror ------------------------------
(***************************************************************************)
(* What subscriptions to a key-value store promise (README.md, "React      *)
(* hooks" and "Change listener"): what the owner of a subscription shows   *)
(* is only ever taken from the store, and a value that is out of date is   *)
(* replaced in the end, except under keys of which the owner was never     *)
(* told: `deaf'.                                                           *)
(***************************************************************************)
CONSTANTS
    Keys, Missing,
    Owners,
    Watches  \* Watches[w]: the keys an owner subscribes to

VARIABLES
    stored,  \* what a reader of the store would get, by key
    shown,   \* what each owner shows
    on,      \* the owners whose subscription is on
    deaf     \* keys that changed without an owner being told

vars == <<stored, shown, on, deaf>>

Blank == [k \in Keys |-> Missing]

Init ==
    /\ stored = Blank
    /\ shown = [w \in Owners |-> Blank]
    /\ on = {} /\ deaf = [w \in Owners |-> {}]

\* Somebody writes, or a key expires.
Change ==
    /\ \A w \in Owners : deaf[w] \subseteq deaf'[w]
    /\ UNCHANGED <<shown, on>>

\* An owner reads some of its keys again.
Refresh(w, ks) ==
    /\ w \in on /\ ks # {}
    /\ shown' = [shown EXCEPT ![w] = [k \in Keys |-> IF k \in ks THEN stored[k] ELSE @[k]]]
    /\ deaf' = [deaf EXCEPT ![w] = @ \ ks]
    /\ UNCHANGED <<stored, on>>

\* A subscription starts with what is stored; keys it could not read are deaf.
Start(w) ==
    /\ w \notin on /\ on' = on \cup {w}
    /\ \A k \in Watches[w] : shown'[w][k] = stored[k] \/ k \in deaf'[w]
    /\ \A other \in Owners \ {w} : shown'[other] = shown[other] /\ deaf'[other] = deaf[other]
    /\ UNCHANGED stored

\* One ends, or all those of a store that is closed.
Stop ==
    /\ \E ws \in SUBSET on :
          /\ ws # {} /\ on' = on \ ws
          /\ shown' = [w \in Owners |-> IF w \in ws THEN Blank ELSE shown[w]]
          /\ deaf' = [w \in Owners |-> IF w \in ws THEN {} ELSE deaf[w]]
    /\ UNCHANGED stored

Next ==
    \/ Change \/ Stop
    \/ \E w \in Owners : Start(w) \/ \E ks \in SUBSET Watches[w] : Refresh(w, ks)

\* What is shown is out of date, and not because the owner was left out.
Stale(w, k) == w \in on /\ k \notin deaf[w] /\ shown[w][k] # stored[k]

CatchUp(w, k) ==
    Stale(w, k) /\ \E ks \in SUBSET Watches[w] : k \in ks /\ Refresh(w, ks)

Spec ==
    /\ Init /\ [][Next]_vars
    /\ \A w \in Owners, k \in Keys : WF_vars(k \in Watches[w] /\ CatchUp(w, k))
=============================================================================
