--------------------------- MODULE MemStore_proofs ---------------------------
(***************************************************************************)
(* Proofs about MemStore: its types, the in-flight count among them, and   *)
(* that nothing changes the map once a close has returned.                 *)
(***************************************************************************)
EXTENDS MemStore, FiniteSetTheorems, TLAPS

Inside == {c \in Clients : cpc[c] \in {"mutate", "refuse"}}

\* A close that has turned new mutations away and waits for the old ones.
Waiting == {"mark", "drain", "stop", "unpark", "join"}
Closing == Waiting \cup {"close", "return"}

\* The count is what begin_mutation and the guards make of it.
Counted == count = IF gated THEN 0 ELSE Cardinality(Inside)

\* Both gates are held by who relies on them.
GatesHeld ==
    /\ \A c \in Clients : cpc[c] \in Closing => closeGate = c
    /\ gated => \A c \in Clients : cpc[c] \in {"mutate", "refuse", "stop", "unpark"} => gate = c
    /\ spc = "remove" => gate = Sweeper

\* The two kinds of store close in different ways, and only one has a sweeper.
KindsApart ==
    /\ \A c \in Clients : cpc[c] \in {"mark", "drain"} => ~gated
    /\ \A c \in Clients : cpc[c] \in {"stop", "unpark", "join"} => gated
    /\ ~gated => spc = "done"

\* What a close has done by the time it is where it is.
CloseMarked ==
    /\ \A c \in Clients : cpc[c] = "mark" => closedBit
    /\ \A c \in Clients : cpc[c] \in (Waiting \ {"mark"}) \cup {"return"} => closed
    /\ closed /\ ~gated => closedBit

Quiet == spc = "done" /\ \A c \in Clients : cpc[c] # "mutate"
Settled == closed /\ \A c \in Clients : cpc[c] \notin Waiting

\* Once the close that marked the store is through, nothing is left inside it.
SettledQuiet ==
    /\ closed /\ gated => \A c \in Clients : cpc[c] # "mutate"
    /\ Settled => Quiet
    /\ returned => Settled

IInv == TypeOK /\ Counted /\ GatesHeld /\ KindsApart /\ CloseMarked /\ SettledQuiet

USE DEF Absent, Untouched, NoLimit, Free, Sweeper

(***************************************************************************)
(* A finite set that gains or loses one member.                            *)
(***************************************************************************)
LEMMA InsideFinite ==
    ASSUME TypeOK
    PROVE  IsFiniteSet(Inside) /\ Cardinality(Inside) \in Nat
<1>1. IsFiniteSet(Inside)
  BY MemStoreAssumption, FS_Subset DEF Inside
<1> QED  BY <1>1, FS_CardinalityType

LEMMA OneEnters ==
    ASSUME TypeOK, NEW c \in Clients, c \notin Inside, Inside' = Inside \cup {c}
    PROVE  Cardinality(Inside') = Cardinality(Inside) + 1
  BY InsideFinite, FS_AddElement

LEMMA OneLeaves ==
    ASSUME TypeOK, NEW c \in Clients, c \in Inside, Inside' = Inside \ {c}
    PROVE  Cardinality(Inside') = Cardinality(Inside) - 1
  BY InsideFinite, FS_RemoveElement

LEMMA NobodyInside ==
    ASSUME TypeOK, Cardinality(Inside) = 0
    PROVE  \A c \in Clients : cpc[c] # "mutate"
<1>1. Inside = {}
  BY InsideFinite, FS_EmptySet
<1> QED  BY <1>1 DEF Inside

(***************************************************************************)
(* The steps keep the count.                                               *)
(***************************************************************************)
LEMMA CountStep ==
    ASSUME TypeOK, Counted, GatesHeld, KindsApart, [Next]_vars
    PROVE  Counted' /\ count' \in Nat
<1> USE DEF TypeOK, Inside
<1> DEFINE Same == count' = count /\ gated' = gated /\ Inside' = Inside
<1>1. Same => Counted'
  <2> SUFFICES ASSUME count' = count, gated' = gated, Inside' = Inside
               PROVE  Counted'
    OBVIOUS
  <2> HIDE DEF Inside
  <2> QED  BY DEF Counted
<1>2. ASSUME NEW c \in Clients, FetchAdd(c)
      PROVE  Counted'
  <2>1. c \notin Inside /\ Inside' = Inside \cup {c}
    BY <1>2 DEF FetchAdd
  <2>2. Cardinality(Inside') = Cardinality(Inside) + 1
    BY <2>1, OneEnters
  <2> QED  BY <1>2, <2>2 DEF FetchAdd, Counted
<1>3. ASSUME NEW c \in Clients, LockGate(c)
      PROVE  Counted'
  BY <1>3 DEF LockGate, Counted
<1>4. ASSUME NEW c \in Clients, Release(c)
      PROVE  Counted'
  <2>1. c \in Inside /\ Inside' = Inside \ {c}
    BY <1>4 DEF Release
  <2>2. Cardinality(Inside') = Cardinality(Inside) - 1
    BY <2>1, OneLeaves
  <2> QED  BY <1>4, <2>2 DEF Release, Counted
<1>5. ASSUME NEW c \in Clients, Apply(c)
      PROVE  Same
  BY <1>5 DEF Apply
<1>6. ASSUME NEW c \in Clients, CloseEnter(c)
      PROVE  Same
  BY <1>6 DEF CloseEnter, CloseStep, storeVars, sweeperVars
<1>7. ASSUME NEW c \in Clients, CloseAgain(c)
      PROVE  Same
  BY <1>7 DEF CloseAgain, CloseStep, storeVars, sweeperVars
<1>8. ASSUME NEW c \in Clients, CloseBit(c)
      PROVE  Same
  BY <1>8 DEF CloseBit, CloseStep, storeVars, sweeperVars
<1>9. ASSUME NEW c \in Clients, CloseMark(c)
      PROVE  Same
  BY <1>9 DEF CloseMark, CloseStep, storeVars, sweeperVars
<1>10. ASSUME NEW c \in Clients, Drained(c)
      PROVE  Same
  BY <1>10 DEF Drained, CloseStep, storeVars, sweeperVars
<1>11. ASSUME NEW c \in Clients, CloseLock(c)
      PROVE  Same
  BY <1>11 DEF CloseLock, CloseStep, storeVars, sweeperVars
<1>12. ASSUME NEW c \in Clients, SignalStop(c)
      PROVE  Same
  BY <1>12 DEF SignalStop, CloseStep, storeVars, sweeperVars
<1>13. ASSUME NEW c \in Clients, Unpark(c)
      PROVE  Same
  BY <1>13 DEF Unpark, CloseStep, storeVars, sweeperVars
<1>14. ASSUME NEW c \in Clients, Join(c)
      PROVE  Same
  BY <1>14 DEF Join, CloseStep, storeVars, sweeperVars
<1>15. ASSUME NEW c \in Clients, CloseReturn(c)
      PROVE  Same
  BY <1>15 DEF CloseReturn, CloseStep, storeVars, sweeperVars
<1>16. ASSUME SweepStep \/ Interval \/ Tick
      PROVE  Same
  <2>1. CASE Unparked
    BY <2>1 DEF Unparked, SweepOver, clientVars, storeVars
  <2>2. CASE SweepStops
    BY <2>2 DEF SweepStops, SweepOver, clientVars, storeVars
  <2>3. CASE SweepBegins
    BY <2>3 DEF SweepBegins, SweepOver, clientVars, storeVars
  <2>4. CASE Scan
    BY <2>4 DEF Scan, SweepOver, clientVars, storeVars
  <2>5. CASE ScanOver
    BY <2>5 DEF ScanOver, SweepOver, clientVars, storeVars
  <2>6. CASE Pick
    BY <2>6 DEF Pick, SweepOver, clientVars, storeVars
  <2>7. CASE PickOver
    BY <2>7 DEF PickOver, SweepOver, clientVars, storeVars
  <2>8. CASE SweepLock
    BY <2>8 DEF SweepLock, SweepOver, clientVars, storeVars
  <2>9. CASE RemoveExpired
    BY <2>9 DEF RemoveExpired, SweepOver, clientVars, storeVars
  <2>10. CASE RemoveEvicted
    BY <2>10 DEF RemoveEvicted, SweepOver, clientVars, storeVars
  <2>11. CASE SweepEnds
    BY <2>11 DEF SweepEnds, SweepOver, clientVars, storeVars
  <2>12. CASE Interval
    BY <2>12 DEF Interval, SweepOver, clientVars, storeVars
  <2>13. CASE Tick
    BY <2>13 DEF Tick, SweepOver, clientVars, storeVars
  <2> QED  BY <1>16, <2>1, <2>2, <2>3, <2>4, <2>5, <2>6, <2>7, <2>8, <2>9, <2>10, <2>11,
     <2>12, <2>13 DEF SweepStep
<1>17. CASE UNCHANGED vars
  BY <1>17 DEF vars, storeVars, clientVars, Counted
<1>18. Counted'
  BY <1>1, <1>2, <1>3, <1>4, <1>5, <1>6, <1>7, <1>8, <1>9, <1>10, <1>11, <1>12, <1>13, <1>14,
     <1>15, <1>16, <1>17 DEF Next, ClientCall, ClientStep
<1>19. IsFiniteSet(Inside') /\ Cardinality(Inside') \in Nat
  <2>1. IsFiniteSet(Inside')
    BY MemStoreAssumption, FS_Subset
  <2> QED  BY <2>1, FS_CardinalityType
<1> QED  BY <1>18, <1>19 DEF Counted

(***************************************************************************)
(* The steps keep the types; the count is a number because it counts.      *)
(***************************************************************************)
LEMMA TypeStep ==
    ASSUME TypeOK, count' \in Nat, [Next]_vars
    PROVE  TypeOK'
<1> USE MemStoreAssumption DEF TypeOK, Slot
<1>1. ASSUME NEW c \in Clients, FetchAdd(c)
      PROVE  TypeOK'
  <2>1. Writes \subseteq [Keys -> Slot \cup {Untouched}]
    BY DEF Writes, On
  <2> QED  BY <1>1, <2>1 DEF FetchAdd, clientVars, sweeperVars, ghostVars
<1>2. ASSUME NEW c \in Clients, LockGate(c)
      PROVE  TypeOK'
  <2>1. Writes \subseteq [Keys -> Slot \cup {Untouched}]
    BY DEF Writes, On
  <2> QED  BY <1>2, <2>1 DEF LockGate, clientVars, sweeperVars, ghostVars
<1>3. ASSUME NEW c \in Clients, CloseEnter(c)
      PROVE  TypeOK'
  BY <1>3 DEF CloseEnter, CloseStep, storeVars, clientVars, sweeperVars, ghostVars
<1>4. ASSUME NEW c \in Clients, Apply(c)
      PROVE  TypeOK'
  BY <1>4 DEF Apply, CloseStep, Pending, storeVars, clientVars, sweeperVars, ghostVars
<1>5. ASSUME NEW c \in Clients, Release(c)
      PROVE  TypeOK'
  BY <1>5 DEF Release, CloseStep, NoWrites, storeVars, clientVars, sweeperVars, ghostVars
<1>6. ASSUME NEW c \in Clients, CloseAgain(c)
      PROVE  TypeOK'
  BY <1>6 DEF CloseAgain, CloseStep, storeVars, clientVars, sweeperVars, ghostVars
<1>7. ASSUME NEW c \in Clients, CloseBit(c)
      PROVE  TypeOK'
  BY <1>7 DEF CloseBit, CloseStep, storeVars, clientVars, sweeperVars, ghostVars
<1>8. ASSUME NEW c \in Clients, CloseMark(c)
      PROVE  TypeOK'
  BY <1>8 DEF CloseMark, CloseStep, storeVars, clientVars, sweeperVars, ghostVars
<1>9. ASSUME NEW c \in Clients, Drained(c)
      PROVE  TypeOK'
  BY <1>9 DEF Drained, CloseStep, storeVars, clientVars, sweeperVars, ghostVars
<1>10. ASSUME NEW c \in Clients, CloseLock(c)
      PROVE  TypeOK'
  BY <1>10 DEF CloseLock, CloseStep, storeVars, clientVars, sweeperVars, ghostVars
<1>11. ASSUME NEW c \in Clients, SignalStop(c)
      PROVE  TypeOK'
  BY <1>11 DEF SignalStop, CloseStep, storeVars, clientVars, sweeperVars, ghostVars
<1>12. ASSUME NEW c \in Clients, Unpark(c)
      PROVE  TypeOK'
  BY <1>12 DEF Unpark, CloseStep, storeVars, clientVars, sweeperVars, ghostVars
<1>13. ASSUME NEW c \in Clients, Join(c)
      PROVE  TypeOK'
  BY <1>13 DEF Join, CloseStep, storeVars, clientVars, sweeperVars, ghostVars
<1>14. ASSUME NEW c \in Clients, CloseReturn(c)
      PROVE  TypeOK'
  BY <1>14 DEF CloseReturn, CloseStep, storeVars, clientVars, sweeperVars, ghostVars
<1>15. CASE Unparked
  BY <1>15 DEF Unparked, SweepOver, storeVars, clientVars, sweeperVars, ghostVars
<1>16. CASE SweepStops
  BY <1>16 DEF SweepStops, SweepOver, storeVars, clientVars, sweeperVars, ghostVars
<1>17. CASE SweepBegins
  BY <1>17 DEF SweepBegins, SweepOver, storeVars, clientVars, sweeperVars, ghostVars
<1>18. CASE Scan
  BY <1>18 DEF Scan, SweepOver, storeVars, clientVars, sweeperVars, ghostVars
<1>19. CASE ScanOver
  BY <1>19 DEF ScanOver, SweepOver, storeVars, clientVars, sweeperVars, ghostVars
<1>20. CASE Pick
  BY <1>20 DEF Pick, SweepOver, storeVars, clientVars, sweeperVars, ghostVars
<1>21. CASE PickOver
  BY <1>21 DEF PickOver, SweepOver, storeVars, clientVars, sweeperVars, ghostVars
<1>22. CASE SweepLock
  BY <1>22 DEF SweepLock, SweepOver, storeVars, clientVars, sweeperVars, ghostVars
<1>23. CASE RemoveExpired
  BY <1>23 DEF RemoveExpired, SweepOver, storeVars, clientVars, sweeperVars, ghostVars
<1>24. CASE RemoveEvicted
  BY <1>24 DEF RemoveEvicted, SweepOver, storeVars, clientVars, sweeperVars, ghostVars
<1>25. CASE SweepEnds
  BY <1>25 DEF SweepEnds, SweepOver, storeVars, clientVars, sweeperVars, ghostVars
<1>26. CASE Interval
  BY <1>26 DEF Interval, SweepOver, storeVars, clientVars, sweeperVars, ghostVars
<1>27. CASE Tick
  BY <1>27 DEF Tick, SweepOver, storeVars, clientVars, sweeperVars, ghostVars
<1>28. CASE UNCHANGED vars
  BY <1>28 DEF vars, storeVars, clientVars, sweeperVars, ghostVars
<1> QED
  BY <1>1, <1>2, <1>3, <1>4, <1>5, <1>6, <1>7, <1>8, <1>9, <1>10, <1>11, <1>12, <1>13, <1>14,
     <1>15, <1>16, <1>17, <1>18, <1>19, <1>20, <1>21, <1>22, <1>23, <1>24, <1>25, <1>26,
        <1>27, <1>28 DEF Next, ClientCall, ClientStep, SweepStep

(***************************************************************************)
(* The steps keep what the two gates, the closed flags and a finished      *)
(* close say of one another.                                               *)
(***************************************************************************)
LEMMA CloseStepsKeep ==
    ASSUME TypeOK, Counted, GatesHeld, KindsApart, CloseMarked, SettledQuiet, [Next]_vars
    PROVE  (GatesHeld /\ KindsApart /\ CloseMarked /\ SettledQuiet)'
<1> USE MemStoreAssumption DEF TypeOK, GatesHeld, KindsApart, CloseMarked, SettledQuiet, Settled,
        Quiet, Waiting, Closing
<1> DEFINE Goal == (GatesHeld /\ KindsApart /\ CloseMarked /\ SettledQuiet)'
<1>1. ASSUME NEW c \in Clients, FetchAdd(c)
      PROVE  Goal
  BY <1>1 DEF FetchAdd, CloseStep, storeVars, clientVars, sweeperVars, ghostVars
<1>2. ASSUME NEW c \in Clients, LockGate(c)
      PROVE  Goal
  BY <1>2 DEF LockGate, CloseStep, storeVars, clientVars, sweeperVars, ghostVars
<1>3. ASSUME NEW c \in Clients, CloseEnter(c)
      PROVE  Goal
  BY <1>3 DEF CloseEnter, CloseStep, storeVars, clientVars, sweeperVars, ghostVars
<1>4. ASSUME NEW c \in Clients, Apply(c)
      PROVE  Goal
  BY <1>4 DEF Apply, CloseStep, storeVars, clientVars, sweeperVars, ghostVars
<1>5. ASSUME NEW c \in Clients, Release(c)
      PROVE  Goal
  BY <1>5 DEF Release, CloseStep, storeVars, clientVars, sweeperVars, ghostVars
<1>6. ASSUME NEW c \in Clients, CloseAgain(c)
      PROVE  Goal
  BY <1>6 DEF CloseAgain, CloseStep, storeVars, clientVars, sweeperVars, ghostVars
<1>7. ASSUME NEW c \in Clients, CloseBit(c)
      PROVE  Goal
  BY <1>7 DEF CloseBit, CloseStep, storeVars, clientVars, sweeperVars, ghostVars
<1>8. ASSUME NEW c \in Clients, CloseMark(c)
      PROVE  Goal
  BY <1>8 DEF CloseMark, CloseStep, storeVars, clientVars, sweeperVars, ghostVars
<1>9. ASSUME NEW c \in Clients, Drained(c)
      PROVE  Goal
  <2>1. Cardinality(Inside) = 0
    BY <1>9 DEF Drained, CloseStep, Counted
  <2> QED  BY <1>9, <2>1, NobodyInside DEF Drained, CloseStep, storeVars, sweeperVars, ghostVars
<1>10. ASSUME NEW c \in Clients, CloseLock(c)
      PROVE  Goal
  BY <1>10 DEF CloseLock, CloseStep, storeVars, clientVars, sweeperVars, ghostVars
<1>11. ASSUME NEW c \in Clients, SignalStop(c)
      PROVE  Goal
  BY <1>11 DEF SignalStop, CloseStep, storeVars, clientVars, sweeperVars, ghostVars
<1>12. ASSUME NEW c \in Clients, Unpark(c)
      PROVE  Goal
  BY <1>12 DEF Unpark, CloseStep, storeVars, clientVars, sweeperVars, ghostVars
<1>13. ASSUME NEW c \in Clients, Join(c)
      PROVE  Goal
  BY <1>13 DEF Join, CloseStep, storeVars, clientVars, sweeperVars, ghostVars
<1>14. ASSUME NEW c \in Clients, CloseReturn(c)
      PROVE  Goal
  BY <1>14 DEF CloseReturn, CloseStep, storeVars, clientVars, sweeperVars, ghostVars
<1>15. CASE Unparked
  BY <1>15 DEF Unparked, SweepOver, storeVars, clientVars, sweeperVars, ghostVars
<1>16. CASE SweepStops
  BY <1>16 DEF SweepStops, SweepOver, storeVars, clientVars, sweeperVars, ghostVars
<1>17. CASE SweepBegins
  BY <1>17 DEF SweepBegins, SweepOver, storeVars, clientVars, sweeperVars, ghostVars
<1>18. CASE Scan
  BY <1>18 DEF Scan, SweepOver, storeVars, clientVars, sweeperVars, ghostVars
<1>19. CASE ScanOver
  BY <1>19 DEF ScanOver, SweepOver, storeVars, clientVars, sweeperVars, ghostVars
<1>20. CASE Pick
  BY <1>20 DEF Pick, SweepOver, storeVars, clientVars, sweeperVars, ghostVars
<1>21. CASE PickOver
  BY <1>21 DEF PickOver, SweepOver, storeVars, clientVars, sweeperVars, ghostVars
<1>22. CASE SweepLock
  BY <1>22 DEF SweepLock, SweepOver, storeVars, clientVars, sweeperVars, ghostVars
<1>23. CASE RemoveExpired
  BY <1>23 DEF RemoveExpired, SweepOver, storeVars, clientVars, sweeperVars, ghostVars
<1>24. CASE RemoveEvicted
  BY <1>24 DEF RemoveEvicted, SweepOver, storeVars, clientVars, sweeperVars, ghostVars
<1>25. CASE SweepEnds
  BY <1>25 DEF SweepEnds, SweepOver, storeVars, clientVars, sweeperVars, ghostVars
<1>26. CASE Interval
  BY <1>26 DEF Interval, SweepOver, storeVars, clientVars, sweeperVars, ghostVars
<1>27. CASE Tick
  BY <1>27 DEF Tick, SweepOver, storeVars, clientVars, sweeperVars, ghostVars
<1>28. CASE UNCHANGED vars
  BY <1>28 DEF vars, storeVars, clientVars, sweeperVars, ghostVars
<1> QED
  BY <1>1, <1>2, <1>3, <1>4, <1>5, <1>6, <1>7, <1>8, <1>9, <1>10, <1>11, <1>12, <1>13,
     <1>14, <1>15, <1>16, <1>17, <1>18, <1>19, <1>20, <1>21, <1>22, <1>23, <1>24, <1>25,
     <1>26, <1>27, <1>28 DEF Next, ClientCall, ClientStep, SweepStep

(***************************************************************************)
(* The invariant holds in every state of every behaviour.                  *)
(***************************************************************************)
LEMMA InvHolds == Spec => []IInv
<1>1. Init => IInv
  <2> SUFFICES ASSUME Init PROVE IInv
    OBVIOUS
  <2>1. Inside = {}
    BY DEF Init, Inside
  <2>2. Counted
    BY <2>1, FS_EmptySet DEF Init, Counted
  <2>3. TypeOK
    BY MemStoreAssumption DEF Init, TypeOK, Slot, NoWrites
  <2> QED
    BY <2>2, <2>3 DEF Init, IInv, GatesHeld, KindsApart, CloseMarked, SettledQuiet, Settled,
       Quiet, Waiting, Closing
<1>2. IInv /\ [Next]_vars => IInv'
  <2> SUFFICES ASSUME IInv, [Next]_vars PROVE IInv'
    OBVIOUS
  <2>1. Counted' /\ count' \in Nat
    BY CountStep DEF IInv
  <2>2. TypeOK'
    BY <2>1, TypeStep DEF IInv
  <2>3. (GatesHeld /\ KindsApart /\ CloseMarked /\ SettledQuiet)'
    BY CloseStepsKeep DEF IInv
  <2> QED  BY <2>1, <2>2, <2>3 DEF IInv
<1> QED  BY <1>1, <1>2, PTL DEF Spec

(***************************************************************************)
(* Every variable keeps its type; in particular the in-flight count of     *)
(* store.rs never falls below zero.                                        *)
(***************************************************************************)
THEOREM TypeCorrect == Spec => []TypeOK
<1>1. IInv => TypeOK
  BY DEF IInv
<1> QED  BY <1>1, InvHolds, PTL

(***************************************************************************)
(* Once a close has returned, no mutation and no sweep changes the map,    *)
(* with any number of clients and in either kind of store.                 *)
(***************************************************************************)
THEOREM ClosedStays == Spec => ClosedForGood
<1>1. IInv /\ [Next]_vars => [returned => map' = map]_vars
  <2> SUFFICES ASSUME IInv, Next, returned
               PROVE  map' = map
    BY DEF vars, storeVars
  <2>1. spc = "done" /\ \A c \in Clients : cpc[c] # "mutate"
    BY DEF IInv, SettledQuiet, Quiet
  <2>2. ASSUME NEW c \in Clients, ClientCall(c) \/ ClientStep(c)
        PROVE  map' = map
    BY <2>1, <2>2 DEF ClientCall, ClientStep, FetchAdd, LockGate, CloseEnter, Apply, Release,
       CloseAgain, CloseBit, CloseMark, Drained, CloseLock, SignalStop, Unpark, Join,
       CloseReturn, storeVars
  <2>3. ASSUME SweepStep \/ Interval
        PROVE  map' = map
    BY <2>1, <2>3 DEF SweepStep, Interval, Unparked, SweepStops, SweepBegins, Scan, ScanOver,
       Pick, PickOver, SweepLock, RemoveExpired, RemoveEvicted, SweepEnds, SweepOver, storeVars
  <2>4. CASE Tick
    BY <2>4 DEF Tick
  <2> QED  BY <2>2, <2>3, <2>4 DEF Next
<1> QED  BY <1>1, InvHolds, PTL DEF Spec, ClosedForGood
-----------------------------------------------------------------------------
(***************************************************************************)
(* A sweep.  Neither property of it is inductive: what the removal does    *)
(* depends on what the scan found and counted before it.                   *)
(***************************************************************************)
\* Only a sweeper that removes holds the gate, and only a limit makes it evict.
SweepHolds == /\ gate = Sweeper => spc = "remove"
              /\ ~Tracking => evicted = {}

LEMMA SweepHoldsStep ==
    ASSUME IInv, SweepHolds, [Next]_vars
    PROVE  SweepHolds'
<1> USE MemStoreAssumption DEF IInv, TypeOK, SweepHolds, Tracking
<1>1. ASSUME NEW c \in Clients, FetchAdd(c) \/ LockGate(c) \/ CloseEnter(c) \/ Apply(c)
      PROVE  SweepHolds'
  BY <1>1 DEF FetchAdd, LockGate, CloseEnter, Apply, CloseStep, sweeperVars
<1>2. ASSUME NEW c \in Clients, ClientStep(c), ~Apply(c)
      PROVE  SweepHolds'
  BY <1>2 DEF ClientStep, Release, CloseAgain, CloseBit, CloseMark, Drained, CloseLock,
     SignalStop, Unpark, Join, CloseReturn, CloseStep, storeVars, sweeperVars
<1>3. CASE Unparked \/ SweepStops \/ SweepBegins \/ Scan \/ ScanOver \/ Interval \/ Tick
  BY <1>3 DEF Unparked, SweepStops, SweepBegins, Scan, ScanOver, Interval, Tick, SweepOver,
     storeVars, sweeperVars
<1>4. CASE Pick \/ PickOver
  <2>1. /\ gate' = gate /\ limit' = limit /\ (spc = "remove" => spc' = "remove")
        /\ evicted' = evicted \/ ~Enough
    BY <1>4 DEF Pick, PickOver, SweepOver, storeVars
  <2>2. evicted = {} => Cardinality(evicted) = 0
    BY FS_EmptySet
  <2>3. ~Tracking => Excess = 0
    BY DEF Excess
  <2>4. ~Tracking => Enough
    BY <2>2, <2>3 DEF Enough
  <2> QED
    BY <1>4, <2>1, <2>4 DEF Pick, PickOver, SweepOver
<1>5. CASE SweepLock \/ RemoveExpired \/ RemoveEvicted \/ SweepEnds
  BY <1>5 DEF SweepLock, RemoveExpired, RemoveEvicted, SweepEnds, SweepOver
<1>6. CASE UNCHANGED vars
  BY <1>6 DEF vars, storeVars, sweeperVars
<1> QED
  BY <1>1, <1>2, <1>3, <1>4, <1>5, <1>6 DEF Next, ClientCall, ClientStep, SweepStep
(***************************************************************************)
(* A sweep that has no limit to keep removes nothing that is live,         *)
(* whatever has been written under its keys since it scanned them: it      *)
(* looks at each again under the gate, which keeps writers out             *)
(* (sweep_and_evict of sweeper.rs).                                        *)
(***************************************************************************)
THEOREM LiveStay == Spec => LiveKeysStay
<1>1. Init => SweepHolds
  BY MemStoreAssumption DEF Init, SweepHolds
<1>2. IInv /\ SweepHolds /\ [Next]_vars => SweepHolds'
  BY SweepHoldsStep
<1>3. IInv /\ SweepHolds /\ [Next]_vars =>
         [gate = Sweeper /\ ~Tracking =>
            \A k \in Keys : IsLive(map[k], now) => map'[k] = map[k]]_vars
  <2> SUFFICES ASSUME IInv, SweepHolds, Next, gate = Sweeper, ~Tracking,
                      NEW k \in Keys, IsLive(map[k], now)
               PROVE  map'[k] = map[k]
    OBVIOUS
  <2>1. /\ spc = "remove" /\ evicted = {} /\ map \in [Keys -> Slot]
        /\ \A c \in Clients : cpc[c] # "mutate"
    BY MemStoreAssumption DEF IInv, SweepHolds, TypeOK, GatesHeld, KindsApart
  <2>2. ASSUME NEW c \in Clients, ClientCall(c) \/ ClientStep(c)
        PROVE  map' = map
    BY <2>1, <2>2 DEF ClientCall, ClientStep, FetchAdd, LockGate, CloseEnter, Apply, Release,
       CloseAgain, CloseBit, CloseMark, Drained, CloseLock, SignalStop, Unpark, Join,
       CloseReturn, storeVars
  <2>3. ASSUME SweepStep \/ Interval \/ Tick, ~RemoveExpired
        PROVE  map' = map
    BY <2>1, <2>3 DEF SweepStep, Interval, Tick, Unparked, SweepStops, SweepBegins, Scan,
       ScanOver, Pick, PickOver, SweepLock, RemoveEvicted, SweepEnds, SweepOver, storeVars
  <2>4. CASE RemoveExpired
    <3>1. PICK x \in Keys :
              map' = IF IsExpired(map[x], now) THEN [map EXCEPT ![x] = Absent] ELSE map
      BY <2>4 DEF RemoveExpired, IInv, TypeOK
    <3>2. x # k \/ ~IsExpired(map[x], now)
      BY DEF IsLive
    <3> QED
      BY <2>1, <3>1, <3>2
  <2> QED
    BY <2>2, <2>3, <2>4 DEF Next
<1> QED
  BY <1>1, <1>2, <1>3, InvHolds, PTL DEF Spec, LiveKeysStay

(***************************************************************************)
(* What an undisturbed sweep has found so far, and what it has yet to do.  *)
(***************************************************************************)
Found   == LiveKeys(start, now)
Remains == LiveKeys(map, now)

Fitting ==
    /\ spc \in {"scan", "pick", "lock"} => map = start
    /\ spc = "scan" => evicted = {} /\ (Tracking => live = Cardinality(Found \ left))
    /\ spc = "pick" => /\ evicted = Found \ left /\ Cardinality(evicted) <= Excess
    /\ spc = "lock" => evicted \subseteq Found /\ Cardinality(evicted) = Excess
    /\ spc = "remove" =>
          /\ evicted \subseteq Remains
          /\ Cardinality(Remains) = (Cardinality(Found) - Excess) + Cardinality(evicted)
    /\ spc \in {"pick", "lock", "remove"} /\ Tracking => live = Cardinality(Found)
    /\ spc = "pick" => Tracking

FitInv == ~disturbed => Fitting

LEMMA FiniteKeys ==
    ASSUME IsFiniteSet(Keys), NEW S, S \subseteq Keys
    PROVE  IsFiniteSet(S) /\ Cardinality(S) \in Nat
  BY FS_Subset, FS_CardinalityType

LEMMA ExcessType ==
    ASSUME TypeOK
    PROVE  Excess \in Nat /\ (Tracking => limit \in Nat)
  BY MemStoreAssumption DEF TypeOK, Excess, Tracking

\* The removal brings the map down to what the scan decided.
LEMMA RemovalFits ==
    ASSUME IsFiniteSet(Keys), TypeOK, Fitting, RemoveExpired \/ RemoveEvicted
    PROVE  Fitting'
<1>0. /\ map \in [Keys -> Slot] /\ Remains \subseteq Keys /\ evicted \subseteq Keys
      /\ expired \subseteq Keys
  BY DEF TypeOK, Remains, LiveKeys
<1>1. /\ spc = "remove" /\ spc' = "remove" /\ start' = start /\ now' = now /\ live' = live
      /\ limit' = limit
  BY DEF RemoveExpired, RemoveEvicted, ghostVars
<1>2. Found' = Found /\ Excess' = Excess /\ (Tracking' <=> Tracking)
  BY <1>1 DEF Found, LiveKeys, Excess, Tracking
<1>3. /\ evicted \subseteq Remains
      /\ Cardinality(Remains) = (Cardinality(Found) - Excess) + Cardinality(evicted)
      /\ Tracking => live = Cardinality(Found)
  BY <1>1 DEF Fitting
<1>4. /\ evicted' \subseteq Remains'
      /\ Cardinality(Remains') = (Cardinality(Found) - Excess) + Cardinality(evicted')
  <2>1. CASE RemoveExpired
    <3>1. PICK k \in Keys :
              /\ map' = IF IsExpired(map[k], now) THEN [map EXCEPT ![k] = Absent] ELSE map
              /\ evicted' = evicted
      BY <1>0, <2>1 DEF RemoveExpired
    <3>2. \A x \in Keys : IsLive(map'[x], now) <=> IsLive(map[x], now)
      BY <1>0, <3>1 DEF IsLive
    <3>3. Remains' = Remains
      BY <1>1, <3>2 DEF Remains, LiveKeys
    <3> HIDE DEF Remains
    <3> QED
      BY <1>3, <3>1, <3>3
  <2>2. CASE RemoveEvicted
    <3>1. PICK k \in evicted : map' = [map EXCEPT ![k] = Absent] /\ evicted' = evicted \ {k}
      BY <2>2 DEF RemoveEvicted
    <3>2. \A x \in Keys : IsLive(map'[x], now) <=> IsLive(map[x], now) /\ x # k
      BY <1>0, <3>1 DEF IsLive
    <3>3. Remains' = Remains \ {k}
      BY <1>1, <3>2 DEF Remains, LiveKeys
    <3>4. IsFiniteSet(Remains) /\ IsFiniteSet(evicted) /\ k \in Remains
      BY <1>0, <1>3, FiniteKeys
    <3>5. /\ Cardinality(Remains \ {k}) = Cardinality(Remains) - 1
          /\ Cardinality(evicted \ {k}) = Cardinality(evicted) - 1
      BY <3>4, FS_RemoveElement
    <3>6. Cardinality(Found) \in Nat /\ Cardinality(evicted) \in Nat
      BY <1>0, FiniteKeys DEF Found, LiveKeys
    <3> HIDE DEF Remains
    <3> QED
      BY <1>3, <3>1, <3>3, <3>5, <3>6, ExcessType
  <2> QED
    BY <2>1, <2>2
<1> HIDE DEF Remains, Found, Excess, Tracking
<1> QED
  BY <1>1, <1>2, <1>3, <1>4 DEF Fitting

\* The scan counts and picks what it says.
LEMMA ScanFits ==
    ASSUME IsFiniteSet(Keys), TypeOK, Fitting, Scan \/ ScanOver \/ Pick \/ PickOver
    PROVE  Fitting'
<1>0. /\ map \in [Keys -> Slot] /\ Found \subseteq Keys /\ evicted \subseteq Keys
      /\ left \subseteq Keys /\ live \in Nat /\ Excess \in Nat /\ (Tracking => limit \in Nat)
      /\ Cardinality(Found) \in Nat /\ IsFiniteSet(Found) /\ Cardinality(evicted) \in Nat
      /\ IsFiniteSet(Found \ left)
  BY FiniteKeys, ExcessType DEF TypeOK, Found, LiveKeys
<1>1. /\ map' = map /\ start' = start /\ now' = now /\ limit' = limit
      /\ spc \in {"scan", "pick"} /\ map = start
  BY DEF Scan, ScanOver, Pick, PickOver, storeVars, ghostVars, SweepOver, Fitting
<1>2. Found' = Found /\ (Tracking' <=> Tracking) /\ (live' = live => Excess' = Excess)
  BY <1>1 DEF Found, LiveKeys, Excess, Tracking
<1>3. \A k \in Keys : IsLive(map[k], now) <=> k \in Found
  BY <1>1 DEF Found, LiveKeys
<1>e. IsFiniteSet({}) /\ Cardinality({}) = 0
  BY FS_EmptySet
<1>4. CASE Scan
  <2>1. PICK k \in left : /\ left' = left \ {k} /\ spc' = "scan" /\ evicted' = evicted
                          /\ live' = IF Tracking /\ IsLive(map[k], now) THEN live + 1 ELSE live
    BY <1>4 DEF Scan
  <2>2. spc = "scan" /\ evicted = {} /\ (Tracking => live = Cardinality(Found \ left))
    BY <1>4 DEF Scan, Fitting
  <2>3. Tracking => live' = Cardinality(Found \ left')
    <3>1. CASE k \in Found
      <4>1. Found \ left' = (Found \ left) \cup {k} /\ k \notin Found \ left
        BY <2>1, <3>1
      <4>2. Cardinality((Found \ left) \cup {k}) = Cardinality(Found \ left) + 1
        BY <1>0, <4>1, FS_AddElement
      <4>3. IsLive(map[k], now)
        BY <1>0, <1>3, <2>1, <3>1
      <4> QED
        BY <2>1, <2>2, <4>1, <4>2, <4>3
    <3>2. CASE k \notin Found
      <4>1. Found \ left' = Found \ left
        BY <2>1, <3>2
      <4>2. ~IsLive(map[k], now)
        BY <1>0, <1>3, <2>1, <3>2
      <4> QED
        BY <2>1, <2>2, <4>1, <4>2
    <3> QED
      BY <3>1, <3>2
  <2> HIDE DEF Found, Tracking, Excess
  <2> QED
    BY <1>1, <1>2, <2>1, <2>2, <2>3 DEF Fitting
<1>5. CASE ScanOver
  <2>1. /\ spc = "scan" /\ spc' = (IF Excess > 0 THEN "pick" ELSE "lock") /\ left' = Keys
        /\ evicted' = evicted /\ live' = live /\ (Tracking => left = {})
    BY <1>5 DEF ScanOver, SweepOver, ScanFull
  <2>2. evicted = {} /\ (Tracking => live = Cardinality(Found \ left))
    BY <2>1 DEF Fitting
  <2>3. Tracking => live = Cardinality(Found)
    <3>1. left = {} => Found \ left = Found
      OBVIOUS
    <3> QED
      BY <2>1, <2>2, <3>1
  <2>4. Found \ Keys = {}
    BY <1>0
  <2>5. Excess > 0 => Tracking
    BY DEF Excess
  <2> HIDE DEF Found, Tracking, Excess
  <2> QED
    BY <1>0, <1>1, <1>2, <1>e, <2>1, <2>2, <2>3, <2>4, <2>5 DEF Fitting
<1>6. CASE Pick
  <2>1. PICK k \in left : /\ left' = left \ {k} /\ spc' = "pick" /\ live' = live
                          /\ evicted' = IF IsLive(map[k], now) THEN evicted \cup {k} ELSE evicted
    BY <1>6 DEF Pick
  <2>2. /\ spc = "pick" /\ evicted = Found \ left /\ Cardinality(evicted) < Excess
        /\ Tracking /\ live = Cardinality(Found)
    BY <1>0, <1>6 DEF Pick, Enough, Fitting
  <2>3. evicted' = Found \ left'
    <3>1. IsLive(map[k], now) <=> k \in Found
      BY <1>0, <1>3, <2>1
    <3> HIDE DEF Found
    <3> QED
      BY <2>1, <2>2, <3>1
  <2>4. Cardinality(evicted') <= Excess
    <3>1. Cardinality(evicted \cup {k}) \in {Cardinality(evicted), Cardinality(evicted) + 1}
      BY <1>0, <2>2, FS_AddElement
    <3>2. evicted' = evicted \/ evicted' = evicted \cup {k}
      BY <2>1
    <3>3. \/ Cardinality(evicted') = Cardinality(evicted)
          \/ Cardinality(evicted') = Cardinality(evicted) + 1
      BY <3>1, <3>2
    <3>4. Cardinality(evicted) \in Nat /\ Excess \in Nat /\ Cardinality(evicted) < Excess
      BY <1>0, <2>2
    <3> HIDE DEF Excess
    <3> QED
      BY <3>3, <3>4
  <2> HIDE DEF Found, Tracking, Excess
  <2> QED
    BY <1>1, <1>2, <2>1, <2>2, <2>3, <2>4 DEF Fitting
<1>7. CASE PickOver
  <2>1. /\ spc = "pick" /\ spc' = "lock" /\ evicted' = evicted /\ live' = live
        /\ (left = {} \/ Enough)
    BY <1>7 DEF PickOver, SweepOver
  <2>2. /\ evicted = Found \ left /\ Cardinality(evicted) <= Excess
        /\ Tracking /\ live = Cardinality(Found)
    BY <2>1 DEF Fitting
  <2>3. Cardinality(evicted) = Excess
    <3>1. CASE left = {}
      <4>1. evicted = Found
        BY <2>2, <3>1
      <4>2. Excess <= live
        BY <1>0 DEF Excess
      <4> QED
        BY <1>0, <2>2, <4>1, <4>2
    <3>2. CASE Enough
      BY <1>0, <2>2, <3>2 DEF Enough
    <3> QED
      BY <2>1, <3>1, <3>2
  <2>4. evicted \subseteq Found
    BY <2>2
  <2> HIDE DEF Found, Tracking, Excess
  <2> QED
    BY <1>1, <1>2, <2>1, <2>2, <2>3, <2>4 DEF Fitting
<1> QED
  BY <1>4, <1>5, <1>6, <1>7

\* Every step keeps it, or is a write that disturbs the sweep.
LEMMA FitStep ==
    ASSUME IsFiniteSet(Keys), TypeOK, FitInv, [Next]_vars
    PROVE  FitInv'
<1> DEFINE Kept == /\ UNCHANGED <<map, start, now, left, evicted, live, limit>>
                   /\ disturbed' = disturbed
                   /\ spc' = spc \/ spc' \in {"park", "wake", "done"}
<1>1. Kept => FitInv'
  <2> SUFFICES ASSUME Kept, ~disturbed', spc' = spc
               PROVE  Fitting'
    BY DEF FitInv, Fitting
  <2>1. Fitting
    BY DEF FitInv
  <2>2. Found' = Found /\ Remains' = Remains /\ Excess' = Excess /\ (Tracking' <=> Tracking)
    BY DEF Found, Remains, LiveKeys, Excess, Tracking
  <2>3. map' = map /\ start' = start /\ left' = left /\ evicted' = evicted /\ live' = live
    OBVIOUS
  <2> HIDE DEF Found, Remains, Excess, Tracking, Kept
  <2> QED
    BY <2>1, <2>2, <2>3 DEF Fitting
<1>2. ASSUME NEW c \in Clients, Apply(c)
      PROVE  FitInv'
  BY <1>2 DEF Apply, FitInv
<1>3. ASSUME NEW c \in Clients, FetchAdd(c) \/ LockGate(c) \/ CloseEnter(c)
      PROVE  Kept
  BY <1>3 DEF FetchAdd, LockGate, CloseEnter, CloseStep, sweeperVars, ghostVars
<1>4. ASSUME NEW c \in Clients, ClientStep(c), ~Apply(c)
      PROVE  Kept
  BY <1>4 DEF ClientStep, Release, CloseAgain, CloseBit, CloseMark, Drained, CloseLock,
     SignalStop, Unpark, Join, CloseReturn, CloseStep, storeVars, sweeperVars, ghostVars
<1>5. CASE Interval \/ Tick \/ Unparked \/ SweepStops \/ SweepEnds
  <2>1. Kept
    BY <1>5 DEF Interval, Tick, Unparked, SweepStops, SweepEnds, SweepOver, storeVars,
       sweeperVars, ghostVars
  <2> QED
    BY <1>1, <2>1
<1>6. CASE UNCHANGED vars
  <2>1. Kept
    BY <1>6 DEF vars, storeVars, sweeperVars, ghostVars
  <2> QED
    BY <1>1, <2>1
<1>7. CASE SweepBegins
  <2>1. /\ spc' = "scan" /\ map' = map /\ start' = map /\ left' = Keys /\ evicted' = {}
        /\ live' = 0
    BY <1>7 DEF SweepBegins, SweepOver, storeVars
  <2>2. Found' \ left' = {}
    BY <2>1 DEF Found, LiveKeys
  <2>3. Cardinality({}) = 0
    BY FS_EmptySet
  <2> HIDE DEF Found
  <2> QED
    BY <2>1, <2>2, <2>3 DEF FitInv, Fitting
<1>8. CASE Scan \/ ScanOver \/ Pick \/ PickOver
  <2>1. disturbed' = disturbed
    BY <1>8 DEF Scan, ScanOver, Pick, PickOver, ghostVars
  <2> QED
    BY <1>8, <2>1, ScanFits DEF FitInv
<1>9. CASE SweepLock
  <2>1. /\ spc = "lock" /\ spc' \in {"done", "remove"} /\ disturbed' = disturbed
        /\ UNCHANGED <<map, start, now, left, evicted, live, limit>>
    BY <1>9 DEF SweepLock, SweepOver, ghostVars
  <2>2. Found' = Found /\ Remains' = Remains /\ Excess' = Excess /\ (Tracking' <=> Tracking)
    BY <2>1 DEF Found, Remains, LiveKeys, Excess, Tracking
  <2>3. map = start => Remains = Found
    BY DEF Found, Remains
  <2>4. Cardinality(Found) \in Nat /\ Excess \in Nat
    BY FiniteKeys, ExcessType DEF Found, LiveKeys
  <2> HIDE DEF Found, Remains, Excess, Tracking
  <2> QED
    BY <2>1, <2>2, <2>3, <2>4 DEF FitInv, Fitting
<1>10. CASE RemoveExpired \/ RemoveEvicted
  <2>1. disturbed' = disturbed
    BY <1>10 DEF RemoveExpired, RemoveEvicted, ghostVars
  <2> QED
    BY <1>10, <2>1, RemovalFits DEF FitInv
<1> QED
  BY <1>1, <1>2, <1>3, <1>4, <1>5, <1>6, <1>7, <1>8, <1>9, <1>10
     DEF Next, ClientCall, ClientStep, SweepStep

(***************************************************************************)
(* An undisturbed sweep leaves exactly max_entries live keys of a store    *)
(* that had more, and all of them of one that had not, with any number of  *)
(* keys and any cap on the expired ones (compute_doomed and                *)
(* sweep_and_evict of sweeper.rs).                                         *)
(***************************************************************************)
THEOREM SweepsFit ==
    ASSUME IsFiniteSet(Keys)
    PROVE  Spec => []SweepFits
<1>1. Init => FitInv
  BY DEF Init, FitInv, Fitting
<1>2. IInv /\ FitInv /\ [Next]_vars => FitInv'
  BY FitStep DEF IInv
<1>3. IInv /\ FitInv => SweepFits
  <2> SUFFICES ASSUME TypeOK, Fitting, spc = "remove", SweepOut
               PROVE  Cardinality(Remains) =
                          IF Tracking /\ Cardinality(Found) > limit THEN limit
                          ELSE Cardinality(Found)
    BY DEF IInv, FitInv, SweepFits, Remains, Found
  <2>1. Cardinality(evicted) = 0
    BY FS_EmptySet DEF SweepOut
  <2>2. /\ Cardinality(Remains) = (Cardinality(Found) - Excess) + 0
        /\ Tracking => live = Cardinality(Found)
    BY <2>1 DEF Fitting
  <2>3. Cardinality(Found) \in Nat /\ (Tracking => limit \in Nat)
    BY FiniteKeys, ExcessType DEF Found, LiveKeys
  <2> HIDE DEF Found, Remains
  <2> QED
    BY <2>2, <2>3 DEF Excess
<1> QED
  BY <1>1, <1>2, <1>3, InvHolds, PTL DEF Spec
=============================================================================
