------------------------------ MODULE MemStore ------------------------------
(***************************************************************************)
(* The store in memory: how close keeps mutations out and waits for the    *)
(* ones already inside, and the sweeper thread that reclaims expired keys  *)
(* and evicts down to max_entries (store.rs, store/mutation.rs,            *)
(* sweeper.rs, lib.rs).                                                    *)
(*                                                                         *)
(* Two kinds of store share the code.  in_memory() has no sweeper: its     *)
(* mutations count themselves in an atomic word whose top bit says closed. *)
(* in_memory_evicting() has a sweeper and a mutation gate, a mutex every   *)
(* mutation and the sweeper's removals hold.                               *)
(*                                                                         *)
(* A slot is its expiry: 0 for a key that never expires, a time, or Absent.*)
(***************************************************************************)
EXTENDS Integers, FiniteSets

CONSTANTS
    Keys,
    Clients,     \* threads that mutate and close
    Limits,      \* values of max_entries, NoLimit among them if it may be unset
    ExpiredCap,  \* expired keys one sweep may reclaim (4096)
    MaxClock     \* bound on the time of a behaviour

Absent    == -1
Untouched == -2
NoLimit   == -1
Free      == "free"
Sweeper   == "sweeper"

ASSUME MemStoreAssumption ==
    /\ IsFiniteSet(Clients) /\ Free \notin Clients /\ Sweeper \notin Clients
    /\ Limits \subseteq Nat \cup {NoLimit} /\ Limits # {}
    /\ ExpiredCap \in Nat \ {0} /\ MaxClock \in Nat

VARIABLES
    gated,     \* whether the store has a mutation gate and a sweeper
    limit,     \* max_entries
    map,       \* Store.map: the expiry under each key
    clock,     \* now_ms()
    closed,    \* Store.closed
    closedBit, \* the top bit of Store.ungated_mutations
    count,     \* the rest of it
    gate,      \* who holds the mutation gate
    closeGate, \* who holds the close gate
    cpc,       \* where each client is
    todo,      \* the writes its mutation has yet to apply
    stop,      \* SweeperHandle.shutdown
    token,     \* the sweeper thread's unpark token
    spc,       \* where the sweeper is
    now,       \* the time its pass began
    left,      \* keys the current scan has yet to visit
    expired, evicted,  \* what compute_doomed has found
    live,      \* its count of live keys
    \* history, for the properties only
    returned,  \* some close has returned
    start,     \* the map when the sweep began to scan it
    disturbed  \* whether a client has written since

storeVars   == <<map, clock, closed, closedBit, count, gate, closeGate>>
clientVars  == <<cpc, todo>>
sweeperVars == <<stop, token, spc, now, left, expired, evicted, live>>
ghostVars   == <<returned, start, disturbed>>
vars == <<gated, limit, storeVars, clientVars, sweeperVars, ghostVars>>

IsExpired(slot, t) == slot # 0 /\ slot # Absent /\ t >= slot
IsLive(slot, t)    == slot # Absent /\ ~IsExpired(slot, t)
LiveKeys(m, t)     == {k \in Keys : IsLive(m[k], t)}
Tracking           == limit # NoLimit

NoWrites == [k \in Keys |-> Untouched]

Init ==
    /\ gated \in BOOLEAN /\ limit \in Limits
    /\ map = [k \in Keys |-> Absent] /\ clock = 1
    /\ closed = FALSE /\ closedBit = FALSE /\ count = 0 /\ gate = Free /\ closeGate = Free
    /\ cpc = [c \in Clients |-> "idle"] /\ todo = [c \in Clients |-> NoWrites]
    /\ stop = FALSE /\ token = FALSE
    /\ spc = (IF gated THEN "park" ELSE "done")
    /\ now = 0 /\ left = {} /\ expired = {} /\ evicted = {} /\ live = 0
    /\ returned = FALSE /\ start = map /\ disturbed = FALSE

Tick ==
    /\ clock < MaxClock /\ clock' = clock + 1
    /\ UNCHANGED <<gated, limit, map, closed, closedBit, count, gate, closeGate, clientVars,
                   sweeperVars, ghostVars>>

-----------------------------------------------------------------------------
(***************************************************************************)
(* Mutations.                                                              *)
(***************************************************************************)
On(keys, slot) == [k \in Keys |-> IF k \in keys THEN slot ELSE Untouched]

\* A key set or deleted, every key set (set_many, a batch), or the map cleared.
Writes == {On({k}, e) : k \in Keys, e \in {0, clock + 1, Absent}}
          \cup {On(Keys, 0), On(Keys, Absent)}

\* begin_mutation without a gate: add one and read the bit in the same instruction.
FetchAdd(c) ==
    /\ ~gated /\ cpc[c] = "idle"
    /\ count' = count + 1
    /\ cpc' = [cpc EXCEPT ![c] = IF closedBit THEN "refuse" ELSE "mutate"]
    /\ \E w \in Writes : todo' = [todo EXCEPT ![c] = w]
    /\ UNCHANGED <<gated, limit, map, clock, closed, closedBit, gate, closeGate, sweeperVars,
                   ghostVars>>

\* begin_mutation with a gate: lock it, then look at the closed flag.
LockGate(c) ==
    /\ gated /\ cpc[c] = "idle"
    /\ gate = Free /\ gate' = c
    /\ cpc' = [cpc EXCEPT ![c] = IF closed THEN "refuse" ELSE "mutate"]
    /\ \E w \in Writes : todo' = [todo EXCEPT ![c] = w]
    /\ UNCHANGED <<gated, limit, map, clock, closed, closedBit, count, closeGate, sweeperVars,
                   ghostVars>>

Pending(c) == {k \in Keys : todo[c][k] # Untouched}

Apply(c) ==
    /\ cpc[c] = "mutate"
    /\ \E k \in Pending(c) :
          /\ map' = [map EXCEPT ![k] = todo[c][k]]
          /\ todo' = [todo EXCEPT ![c][k] = Untouched]
    /\ disturbed' = TRUE
    /\ UNCHANGED <<gated, limit, clock, closed, closedBit, count, gate, closeGate, cpc,
                   sweeperVars, returned, start>>

\* Mutant: a refused mutation takes itself off the count, and its guard does so again.
ReleaseTwice(c) ==
    /\ cpc[c] = "refuse" \/ (cpc[c] = "mutate" /\ Pending(c) = {})
    /\ cpc' = [cpc EXCEPT ![c] = "idle"]
    /\ todo' = [todo EXCEPT ![c] = NoWrites]
    /\ IF gated THEN gate' = Free /\ UNCHANGED count
                ELSE count' = (IF cpc[c] = "refuse" THEN count - 2 ELSE count - 1)
                     /\ UNCHANGED gate
    /\ UNCHANGED <<gated, limit, map, clock, closed, closedBit, closeGate, sweeperVars,
                   ghostVars>>

\* The guard is dropped; who was refused has Error::Closed, and may call again.
Release(c) ==
    /\ cpc[c] = "refuse" \/ (cpc[c] = "mutate" /\ Pending(c) = {})
    /\ cpc' = [cpc EXCEPT ![c] = "idle"]
    /\ todo' = [todo EXCEPT ![c] = NoWrites]
    /\ IF gated THEN gate' = Free /\ UNCHANGED count
                ELSE count' = count - 1 /\ UNCHANGED gate
    /\ UNCHANGED <<gated, limit, map, clock, closed, closedBit, closeGate, sweeperVars,
                   ghostVars>>

-----------------------------------------------------------------------------
(***************************************************************************)
(* close().                                                                *)
(***************************************************************************)
CloseStep(c, from, to) == cpc[c] = from /\ cpc' = [cpc EXCEPT ![c] = to]

\* Mutant: no close gate, so a second close does not wait for the first.
CloseEnterShared(c) ==
    /\ CloseStep(c, "idle", "close")
    /\ UNCHANGED <<gated, limit, map, clock, closed, closedBit, count, gate, closeGate, todo,
                   sweeperVars, ghostVars>>

CloseEnter(c) ==
    /\ CloseStep(c, "idle", "close")
    /\ closeGate = Free /\ closeGate' = c
    /\ UNCHANGED <<gated, limit, map, clock, closed, closedBit, count, gate, todo,
                   sweeperVars, ghostVars>>

\* Somebody has closed the store before.
CloseAgain(c) ==
    /\ CloseStep(c, "close", "return") /\ closed
    /\ gated => gate = Free
    /\ UNCHANGED <<gated, limit, storeVars, todo, sweeperVars, ghostVars>>

\* Without a gate: set the bit, then the flag, then wait for the count.
CloseBit(c) ==
    /\ CloseStep(c, "close", "mark") /\ ~gated /\ ~closed
    /\ closedBit' = TRUE
    /\ UNCHANGED <<gated, limit, map, clock, closed, count, gate, closeGate, todo,
                   sweeperVars, ghostVars>>

CloseMark(c) ==
    /\ CloseStep(c, "mark", "drain")
    /\ closed' = TRUE
    /\ UNCHANGED <<gated, limit, map, clock, closedBit, count, gate, closeGate, todo,
                   sweeperVars, ghostVars>>

Drained(c) ==
    /\ CloseStep(c, "drain", "return") /\ count = 0
    /\ UNCHANGED <<gated, limit, storeVars, todo, sweeperVars, ghostVars>>

\* With a gate: mark the store and stop the sweeper under it, and join outside it.
CloseLock(c) ==
    /\ CloseStep(c, "close", "stop") /\ gated /\ ~closed
    /\ gate = Free /\ gate' = c
    /\ closed' = TRUE
    /\ UNCHANGED <<gated, limit, map, clock, closedBit, count, closeGate, todo, sweeperVars,
                   ghostVars>>

SignalStop(c) ==
    /\ CloseStep(c, "stop", "unpark")
    /\ stop' = TRUE
    /\ UNCHANGED <<gated, limit, storeVars, todo, token, spc, now, left, expired, evicted,
                   live, ghostVars>>

\* Mutant: the sweeper is told to stop but not woken up.
NoUnpark(c) ==
    /\ CloseStep(c, "unpark", "join")
    /\ gate' = Free
    /\ UNCHANGED <<gated, limit, map, clock, closed, closedBit, count, closeGate, todo,
                   sweeperVars, ghostVars>>

Unpark(c) ==
    /\ CloseStep(c, "unpark", "join")
    /\ token' = TRUE /\ gate' = Free
    /\ UNCHANGED <<gated, limit, map, clock, closed, closedBit, count, closeGate, todo,
                   stop, spc, now, left, expired, evicted, live, ghostVars>>

Join(c) ==
    /\ CloseStep(c, "join", "return") /\ spc = "done"
    /\ UNCHANGED <<gated, limit, storeVars, todo, sweeperVars, ghostVars>>

CloseReturn(c) ==
    /\ CloseStep(c, "return", "idle")
    /\ closeGate' = Free /\ returned' = TRUE
    /\ UNCHANGED <<gated, limit, map, clock, closed, closedBit, count, gate, todo,
                   sweeperVars, start, disturbed>>

ClientCall(c) == FetchAdd(c) \/ LockGate(c) \/ CloseEnter(c)
ClientStep(c) ==
    \/ Apply(c) \/ Release(c)
    \/ CloseAgain(c) \/ CloseBit(c) \/ CloseMark(c) \/ Drained(c)
    \/ CloseLock(c) \/ SignalStop(c) \/ Unpark(c) \/ Join(c) \/ CloseReturn(c)

-----------------------------------------------------------------------------
(***************************************************************************)
(* The sweeper thread.  compute_doomed scans the map without the gate, key *)
(* by key: once to collect expired keys and count live ones, and, if there *)
(* are too many, once more to pick the ones to evict.                      *)
(***************************************************************************)
SweepOver(from, to) == spc = from /\ spc' = to

Interval ==
    /\ SweepOver("park", "wake")
    /\ UNCHANGED <<gated, limit, storeVars, clientVars, stop, token, now, left, expired,
                   evicted, live, ghostVars>>

Unparked ==
    /\ SweepOver("park", "wake")
    /\ token /\ token' = FALSE
    /\ UNCHANGED <<gated, limit, storeVars, clientVars, stop, now, left, expired, evicted,
                   live, ghostVars>>

SweepStops ==
    /\ SweepOver("wake", "done") /\ stop
    /\ UNCHANGED <<gated, limit, storeVars, clientVars, stop, token, now, left, expired,
                   evicted, live, ghostVars>>

SweepBegins ==
    /\ SweepOver("wake", "scan") /\ ~stop
    /\ now' = clock /\ left' = Keys /\ expired' = {} /\ evicted' = {} /\ live' = 0
    /\ start' = map /\ disturbed' = FALSE
    /\ UNCHANGED <<gated, limit, storeVars, clientVars, stop, token, returned>>

\* Without a limit to keep the scan ends with the last expired key it may take.
ScanFull == ~Tracking /\ Cardinality(expired) = ExpiredCap

Scan ==
    /\ spc = "scan" /\ ~ScanFull
    /\ \E k \in left :
          /\ left' = left \ {k}
          /\ expired' = IF IsExpired(map[k], now) /\ Cardinality(expired) < ExpiredCap
                        THEN expired \cup {k} ELSE expired
          /\ live' = IF Tracking /\ IsLive(map[k], now) THEN live + 1 ELSE live
    /\ UNCHANGED <<gated, limit, storeVars, clientVars, stop, token, spc, now, evicted,
                   ghostVars>>

Excess == IF Tracking /\ live > limit THEN live - limit ELSE 0

ScanOver ==
    /\ left = {} \/ ScanFull
    /\ SweepOver("scan", IF Excess > 0 THEN "pick" ELSE "lock")
    /\ left' = Keys
    /\ UNCHANGED <<gated, limit, storeVars, clientVars, stop, token, now, expired, evicted,
                   live, ghostVars>>

\* Mutant: one key too few is evicted.
EnoughLess == Cardinality(evicted) + 1 >= Excess

Enough == Cardinality(evicted) >= Excess

Pick ==
    /\ spc = "pick" /\ ~Enough
    /\ \E k \in left :
          /\ left' = left \ {k}
          /\ evicted' = IF IsLive(map[k], now) THEN evicted \cup {k} ELSE evicted
    /\ UNCHANGED <<gated, limit, storeVars, clientVars, stop, token, spc, now, expired, live,
                   ghostVars>>

PickOver ==
    /\ SweepOver("pick", "lock")
    /\ left = {} \/ Enough
    /\ UNCHANGED <<gated, limit, storeVars, clientVars, stop, token, now, left, expired,
                   evicted, live, ghostVars>>

\* Under the gate: leave if the store has been closed, else remove.
SweepLock ==
    /\ SweepOver("lock", IF stop \/ closed THEN "done" ELSE "remove")
    /\ gate = Free
    /\ gate' = IF stop \/ closed THEN Free ELSE Sweeper
    /\ UNCHANGED <<gated, limit, map, clock, closed, closedBit, count, closeGate, clientVars,
                   stop, token, now, left, expired, evicted, live, ghostVars>>

\* Mutant: an expired key is removed without another look at it.
RemoveUnseen ==
    /\ spc = "remove"
    /\ \E k \in expired :
          /\ expired' = expired \ {k}
          /\ map' = [map EXCEPT ![k] = Absent]
    /\ UNCHANGED <<gated, limit, clock, closed, closedBit, count, gate, closeGate, clientVars,
                   stop, token, spc, now, left, evicted, live, ghostVars>>

\* The entry may have been rewritten after the scan.
RemoveExpired ==
    /\ spc = "remove"
    /\ \E k \in expired :
          /\ expired' = expired \ {k}
          /\ map' = IF IsExpired(map[k], now) THEN [map EXCEPT ![k] = Absent] ELSE map
    /\ UNCHANGED <<gated, limit, clock, closed, closedBit, count, gate, closeGate, clientVars,
                   stop, token, spc, now, left, evicted, live, ghostVars>>

RemoveEvicted ==
    /\ spc = "remove" /\ expired = {}
    /\ \E k \in evicted :
          /\ evicted' = evicted \ {k}
          /\ map' = [map EXCEPT ![k] = Absent]
    /\ UNCHANGED <<gated, limit, clock, closed, closedBit, count, gate, closeGate, clientVars,
                   stop, token, spc, now, left, expired, live, ghostVars>>

SweepOut == expired = {} /\ evicted = {}

SweepEnds ==
    /\ SweepOver("remove", "park") /\ SweepOut
    /\ gate' = Free
    /\ UNCHANGED <<gated, limit, map, clock, closed, closedBit, count, closeGate, clientVars,
                   stop, token, now, left, expired, evicted, live, ghostVars>>

SweepStep ==
    \/ Unparked \/ SweepStops \/ SweepBegins \/ Scan \/ ScanOver \/ Pick \/ PickOver
    \/ SweepLock \/ RemoveExpired \/ RemoveEvicted \/ SweepEnds

Next ==
    \/ \E c \in Clients : ClientCall(c) \/ ClientStep(c)
    \/ SweepStep \/ Interval \/ Tick

Spec == Init /\ [][Next]_vars

(***************************************************************************)
(* Threads inside the store keep running, and a mutex that is released     *)
(* again and again is acquired in the end.  The callers a closed store has *)
(* refused do not call for ever: they raise the count a close waits on.    *)
(* Nothing is asked of the sweeper's interval.                             *)
(***************************************************************************)
RefusalsEnd == <>[][\A c \in Clients : closedBit => ~FetchAdd(c)]_vars

Fairness ==
    /\ WF_vars(SweepStep) /\ SF_vars(SweepLock)
    /\ \A c \in Clients :
          WF_vars(ClientStep(c)) /\ SF_vars(CloseLock(c)) /\ SF_vars(CloseAgain(c))
    /\ RefusalsEnd

FairSpec == Spec /\ Fairness
-----------------------------------------------------------------------------
(***************************************************************************)
(* Properties.                                                             *)
(***************************************************************************)
Slot == Nat \cup {Absent}

TypeOK ==
    /\ gated \in BOOLEAN /\ limit \in Limits
    /\ map \in [Keys -> Slot] /\ clock \in Nat
    /\ closed \in BOOLEAN /\ closedBit \in BOOLEAN /\ count \in Nat
    /\ gate \in Clients \cup {Free, Sweeper} /\ closeGate \in Clients \cup {Free}
    /\ cpc \in [Clients -> {"idle", "refuse", "mutate", "close", "mark", "drain", "stop",
                            "unpark", "join", "return"}]
    /\ todo \in [Clients -> [Keys -> Slot \cup {Untouched}]]
    /\ stop \in BOOLEAN /\ token \in BOOLEAN
    /\ spc \in {"park", "wake", "scan", "pick", "lock", "remove", "done"}
    /\ now \in Nat /\ left \subseteq Keys /\ expired \subseteq Keys /\ evicted \subseteq Keys
    /\ live \in Nat /\ returned \in BOOLEAN /\ start \in [Keys -> Slot]
    /\ disturbed \in BOOLEAN

(***************************************************************************)
(* close "stops new map and WAL mutations and waits for admitted ones to   *)
(* finish": when any close has returned, neither a client that was inside  *)
(* at the time, nor a later one, nor the sweeper changes the map.          *)
(***************************************************************************)
ClosedForGood == [][returned => map' = map]_vars

(***************************************************************************)
(* A sweep that has no limit to keep removes nothing that is live, however *)
(* the map has changed since it was scanned.                               *)
(***************************************************************************)
LiveKeysStay ==
    [][gate = Sweeper /\ ~Tracking =>
         \A k \in Keys : IsLive(map[k], now) => map'[k] = map[k]]_vars

(***************************************************************************)
(* A sweep nobody disturbs "evicts down to fit" and no further: as many    *)
(* live keys go as there were too many, whatever the cap on expired keys.  *)
(***************************************************************************)
SweepFits ==
    (spc = "remove" /\ SweepOut /\ ~disturbed) =>
        LET before == Cardinality(LiveKeys(start, now)) IN
        Cardinality(LiveKeys(map, now)) =
            IF Tracking /\ before > limit THEN limit ELSE before

(***************************************************************************)
(* "Evicts expired keys first, then arbitrary live keys until it fits": a  *)
(* live key is evicted only from a store that holds more than max_entries. *)
(***************************************************************************)
EvictsOnlyExcess ==
    [][gate = Sweeper /\ LiveKeys(map', now) # LiveKeys(map, now) =>
         Cardinality(LiveKeys(map, now)) > limit]_vars

\* Every close returns, without waiting for the sweep interval.
CloseReturns == \A c \in Clients : (cpc[c] = "close") ~> (cpc[c] = "idle")
=============================================================================
