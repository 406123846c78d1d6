-------------------------- MODULE KVClient_proofs --------------------------
(***************************************************************************)
(* Proofs about KVClient.                                                  *)
(***************************************************************************)
EXTENDS KVClient, TLAPS

(***************************************************************************)
(* The loop of deliverChanges has changes left while it runs.              *)
(***************************************************************************)
FrameOK == frame # NoFrame => frame.view \in Views /\ frame.rest # <<>>

\* Only transactions stage, only clears clear, and only those of a prefix list.
BegunOK == \A o \in Calls : pc[o] \in {"stage", "clear", "list"} => pc[o] = Begin(o)

Typed == TypeOK /\ FrameOK /\ BegunOK

LEMMA InitTyped == Init => Typed
<1> SUFFICES ASSUME Init PROVE Typed  OBVIOUS
<1> USE DEF Init
<1>1. TypeOfStore
  <2>1. hasSweeper \in BOOLEAN  BY KVClientAssumption DEF KVClientAssumption
  <2> QED  BY <2>1 DEF TypeOfStore, Absent, Slots
<1>2. TypeOfCalls  BY DEF TypeOfCalls, PCs, Writes, Nothing
<1>3. TypeOfNotes  BY DEF TypeOfNotes
<1>4. TypeOfBoxes
  <2>1. <<>> \in Seq(Changes)  OBVIOUS
  <2> QED  BY <2>1 DEF TypeOfBoxes
<1>5. TypeOfSubs   BY DEF TypeOfSubs, Blank
<1>6. TypeOfJs /\ FrameOK
  <2>1. <<>> \in Seq(Changes)  OBVIOUS
  <2> QED  BY <2>1 DEF TypeOfJs, FrameOK, NoFrame
<1>7. TypeOfGhosts  BY DEF TypeOfGhosts
<1>8. BegunOK  BY DEF BegunOK
<1> QED  BY <1>1, <1>2, <1>3, <1>4, <1>5, <1>6, <1>7, <1>8 DEF Typed, TypeOK

LEMMA Reading ==
    ASSUME TypeOK, NEW s \in Subs, NEW ks
    PROVE  Reread(s, ks) \in [Keys -> Values \cup {Missing}]
BY DEF TypeOK, TypeOfStore, TypeOfSubs, Reread, Visible, Slots

LEMMA PlanWellFormed ==
    ASSUME TypeOK, NEW o \in Calls
    PROVE  WellFormed(plan[o])
BY KVClientAssumption DEF KVClientAssumption, TypeOK, TypeOfStore

LEMMA WritesTyped ==
    ASSUME TypeOK, NEW o \in Calls
    PROVE  FullWrites(plan[o].view, plan[o].puts) \in Writes
BY PlanWellFormed DEF WellFormed, FullWrites, Writes

LEMMA TxReadTyped ==
    ASSUME TypeOK, NEW o \in Calls, plan[o].kind = "transaction"
    PROVE  /\ TxRead(o) \in Values \cup {Missing}
           /\ Full[plan[o].view][plan[o].to] \in Keys
<1>1. /\ plan[o].view \in Views
      /\ plan[o].from \in DOMAIN Full[plan[o].view]
      /\ plan[o].to \in DOMAIN Full[plan[o].view]
  BY PlanWellFormed DEF WellFormed
<1>2. /\ Full[plan[o].view][plan[o].from] \in Keys
      /\ Full[plan[o].view][plan[o].to] \in Keys
  BY <1>1, KVClientAssumption DEF KVClientAssumption, Scope
<1>3. \A k \in Keys : Visible(k) \in Values \cup {Missing}
  BY DEF TypeOK, TypeOfStore, Visible, Slots
<1>4. \A k \in Keys : todo[o][k] \in Values \cup {Missing, Untouched}
  BY DEF TypeOK, TypeOfCalls, Writes
<1> QED  BY <1>2, <1>3, <1>4 DEF TxRead

LEMMA ShowTyped ==
    ASSUME TypeOK, NEW s \in Subs, NEW ks, Show(s, ks)
    PROVE  /\ shown' \in [Subs -> [Keys -> Values \cup {Missing}]]
           /\ unheard' \in [Subs -> SUBSET Keys]
BY Reading DEF Show, TypeOK, TypeOfSubs, TypeOfGhosts

LEMMA SubTyped == ASSUME TypeOK, NEW o \in Calls PROVE plan[o].sub \in Subs
BY PlanWellFormed DEF WellFormed

LEMMA WatchedKeys == ASSUME NEW s \in Subs PROVE Watched(s) \subseteq Keys
BY KVClientAssumption DEF KVClientAssumption, Watched, Scope

LEMMA DropTyped ==
    ASSUME TypeOK, NEW vs, DropNative(vs)
    PROVE  /\ native' \in [Views -> BOOLEAN] /\ pending' \in [Views -> Seq(Changes)]
           /\ visit' \in [Threads -> SUBSET (Changes \X Views)]
<1>1. <<>> \in Seq(Changes)  OBVIOUS
<1> QED  BY <1>1 DEF DropNative, TypeOK, TypeOfBoxes, TypeOfNotes

LEMMA PlanKept == [Next]_vars => plan' = plan
<1>1. ASSUME NEW o \in Calls, Issue(o) \/ Step(o) PROVE plan' = plan
  <2>1. CASE Issue(o)  BY <2>1 DEF Issue
  <2>2. CASE \/ Refuse(o) \/ SetKey(o) \/ Stage(o) \/ Abandon(o) \/ Sample(o) \/ Admit(o)
             \/ Clear(o) \/ ApplyKey(o) \/ Applied(o) \/ ListKeys(o) \/ ResumeClear(o)
    BY <2>2
    DEF Refuse, SetKey, Stage, Abandon, Sample, Admit, Clear, ApplyKey, Applied, ListKeys,
        ResumeClear
  <2>3. CASE \/ RemoveOne(o) \/ Removed(o) \/ Finish(o) \/ ReadFirst(o) \/ Attach(o)
             \/ Settle(o) \/ AttachClosed(o) \/ Detach(o) \/ Invalidate(o) \/ Release(o)
             \/ CloseStore(o)
    BY <2>3
    DEF RemoveOne, Removed, Finish, ReadFirst, Attach, Settle, AttachClosed, Detach, Invalidate,
        Release, CloseStore
  <2> QED  BY <1>1, <2>1, <2>2, <2>3 DEF Step
<1>2. ASSUME \/ \E p \in Threads : Telling(p)
             \/ Delivery
             \/ \E k \in Keys : Expire(k) \/ Sweep(k)
             \/ Done \/ UNCHANGED vars
      PROVE  plan' = plan
  BY <1>2
  DEF Telling, Delivery, Done, vars, Notify, Visit, Deliver, CallListener, NextChange, Expire,
      Sweep
<1> QED  BY <1>1, <1>2 DEF Next

LEMMA StepBegun == TypeOK /\ BegunOK /\ [Next]_vars => BegunOK'
<1> SUFFICES ASSUME TypeOK, BegunOK, [Next]_vars, NEW o \in Calls,
                    pc'[o] \in {"stage", "clear", "list"}
             PROVE  Begin(o)' = pc'[o]
  BY DEF BegunOK
<1>1. plan' = plan  BY PlanKept
<1>2. ASSUME NEW c \in Calls, Issue(c) PROVE pc'[o] = pc[o] \/ pc'[o] = Begin(o)
  <2>1. pc' = [pc EXCEPT ![c] = Begin(c)]  BY <1>2 DEF Issue
  <2> QED  BY <2>1 DEF TypeOK, TypeOfCalls
<1>3. ASSUME NEW c \in Calls, Step(c) PROVE pc'[o] = pc[o]
  BY <1>3
  DEF Step, TypeOK, TypeOfCalls, Return, Refuse, SetKey, Stage, Abandon, Sample, Admit, Clear,
      ApplyKey, Applied, ListKeys, ResumeClear, RemoveOne, Removed, Finish, ReadFirst, Attach,
      Settle, AttachClosed, Detach, Invalidate, Release, CloseStore
<1>4. ASSUME \/ \E p \in Threads : Telling(p)
             \/ Delivery
             \/ \E k \in Keys : Expire(k) \/ Sweep(k)
             \/ Done \/ UNCHANGED vars
      PROVE  pc'[o] = pc[o]
  BY <1>4
  DEF Telling, Delivery, Done, vars, callVars, Notify, Visit, Deliver, CallListener, NextChange,
      Expire, Sweep
<1>5. pc'[o] = pc[o] \/ pc'[o] = Begin(o)  BY <1>2, <1>3, <1>4 DEF Next
<1> QED  BY <1>1, <1>5 DEF BegunOK, Begin

LEMMA BegunKind ==
    ASSUME BegunOK, TypeOK, NEW o \in Calls
    PROVE  /\ pc[o] = "stage" => plan[o].kind = "transaction"
           /\ pc[o] = "clear" => plan[o].kind = "clear" /\ plan[o].view = Root
           /\ pc[o] = "list" => plan[o].kind \in {"clearPrefix", "clearPrefixAsync"}
BY PlanWellFormed DEF BegunOK, Begin, WellFormed, CallKinds

LEMMA StepTyped == Typed /\ [Next]_vars => Typed'
<1> SUFFICES ASSUME Typed, [Next]_vars PROVE Typed'  OBVIOUS
<1>0. TypeOK /\ FrameOK /\ BegunOK  BY DEF Typed
<1>99. BegunOK'  BY <1>0, StepBegun
<1> USE DEF TypeOfStore, TypeOfCalls, TypeOfNotes, TypeOfBoxes, TypeOfSubs, TypeOfJs, TypeOfGhosts,
            storeVars, callVars, noteVars, boxVars, subVars, jsVars, ghostVars
<1>1. ASSUME NEW o \in Calls, Issue(o) PROVE TypeOK' /\ FrameOK'
  <2>1. TypeOfStore'  BY <1>0, <1>1 DEF Issue, TypeOK, FrameOK
  <2>2. TypeOfCalls'
    <3>1. Begin(o) \in PCs  BY <1>0, PlanWellFormed DEF Begin, WellFormed, CallKinds, PCs
    <3> QED  BY <1>0, <1>1, <3>1, WritesTyped DEF Issue, TypeOK
  <2>3. TypeOfNotes'  BY <1>0, <1>1 DEF Issue, TypeOK, FrameOK
  <2>4. TypeOfBoxes'  BY <1>0, <1>1 DEF Issue, TypeOK, FrameOK
  <2>5. TypeOfSubs'  BY <1>0, <1>1 DEF Issue, TypeOK, FrameOK
  <2>6. TypeOfJs' /\ FrameOK'  BY <1>0, <1>1 DEF Issue, TypeOK, FrameOK
  <2>7. TypeOfGhosts'  BY <1>0, <1>1 DEF Issue, TypeOK, FrameOK
  <2> QED  BY <2>1, <2>2, <2>3, <2>4, <2>5, <2>6, <2>7 DEF TypeOK
<1>2. ASSUME NEW o \in Calls, Refuse(o) PROVE TypeOK' /\ FrameOK'
  BY <1>0, <1>2
  DEF Refuse, Return, TypeOK, FrameOK, PCs
<1>3. ASSUME NEW o \in Calls, SetKey(o) PROVE TypeOK' /\ FrameOK'
  <2>1. TypeOfStore'
    <3>1. PICK k \in Touched(o) : Put(k, todo[o][k], plan[o].expires)  BY <1>3 DEF SetKey
    <3>2. k \in Keys /\ todo[o][k] \in Values \cup {Missing}
      BY <1>0 DEF TypeOK, Writes, Touched
    <3>3. plan[o].expires \in {"never", "later"}  BY <1>0, PlanWellFormed DEF WellFormed
    <3> QED  BY <1>0, <1>3, <3>1, <3>2, <3>3 DEF SetKey, Put, TypeOK, Slots, Absent
  <2>2. TypeOfCalls'  BY <1>0, <1>3 DEF SetKey, TypeOK, PCs, Nothing, Writes
  <2>3. TypeOfNotes'  BY <1>0, <1>3 DEF SetKey, TypeOK, Touched, Changes, Threads
  <2>4. TypeOfBoxes'  BY <1>0, <1>3 DEF SetKey, Put, Rewrite, TypeOK, FrameOK, PCs
  <2>5. TypeOfSubs'  BY <1>0, <1>3 DEF SetKey, Put, Rewrite, TypeOK, FrameOK, PCs
  <2>6. TypeOfJs' /\ FrameOK'  BY <1>0, <1>3 DEF SetKey, Put, Rewrite, TypeOK, FrameOK, PCs
  <2>7. TypeOfGhosts'  BY <1>0, <1>3 DEF SetKey, Rewrite, TypeOK, Touched
  <2> QED  BY <2>1, <2>2, <2>3, <2>4, <2>5, <2>6, <2>7 DEF TypeOK
<1>4. ASSUME NEW o \in Calls, Stage(o) PROVE TypeOK' /\ FrameOK'
  <2>1. TypeOfStore'  BY <1>0, <1>4 DEF Stage, TypeOK, FrameOK, PCs
  <2>2. TypeOfCalls'
    <3>0. plan[o].kind = "transaction"  BY <1>0, <1>4, BegunKind DEF Stage
    <3>1. todo' \in [Calls -> Writes]
      BY <1>0, <1>4, <3>0, TxReadTyped DEF Stage, TypeOK, Writes
    <3> QED  BY <1>0, <1>4, <3>1 DEF Stage, TypeOK, PCs
  <2>3. TypeOfNotes'  BY <1>0, <1>4 DEF Stage, TypeOK, FrameOK, PCs
  <2>4. TypeOfBoxes'  BY <1>0, <1>4 DEF Stage, TypeOK, FrameOK, PCs
  <2>5. TypeOfSubs'  BY <1>0, <1>4 DEF Stage, TypeOK, FrameOK, PCs
  <2>6. TypeOfJs' /\ FrameOK'  BY <1>0, <1>4 DEF Stage, TypeOK, FrameOK, PCs
  <2>7. TypeOfGhosts'  BY <1>0, <1>4 DEF Stage, TypeOK, FrameOK, PCs
  <2> QED  BY <2>1, <2>2, <2>3, <2>4, <2>5, <2>6, <2>7 DEF TypeOK
<1>5. ASSUME NEW o \in Calls, Abandon(o) PROVE TypeOK' /\ FrameOK'
  BY <1>0, <1>5
  DEF Abandon, Return, Nothing, TypeOK, FrameOK, PCs, Writes, Slots, Absent, Changes, Threads
<1>6. ASSUME NEW o \in Calls, Sample(o) PROVE TypeOK' /\ FrameOK'
  BY <1>0, <1>6
  DEF Sample, TypeOK, FrameOK, PCs
<1>7. ASSUME NEW o \in Calls, Admit(o) PROVE TypeOK' /\ FrameOK'
  BY <1>0, <1>7
  DEF Admit, TypeOK, FrameOK, PCs
<1>8. ASSUME NEW o \in Calls, Clear(o) PROVE TypeOK' /\ FrameOK'
  BY <1>0, <1>8
  DEF Clear, Removals, TypeOK, FrameOK, PCs, Writes, Slots, Absent, Changes, Threads
<1>9. ASSUME NEW o \in Calls, ApplyKey(o) PROVE TypeOK' /\ FrameOK'
  BY <1>0, <1>9
  DEF ApplyKey, Put, Touched, NobodyHears, Rewrite, TypeOK, FrameOK, PCs, Writes, Slots, Absent,
      Changes, Threads
<1>10. ASSUME NEW o \in Calls, Applied(o) PROVE TypeOK' /\ FrameOK'
  BY <1>0, <1>10
  DEF Applied, TypeOK, FrameOK, PCs
<1>11. ASSUME NEW o \in Calls, ListKeys(o) PROVE TypeOK' /\ FrameOK'
  BY <1>0, <1>11
  DEF ListKeys, Return, Removals, Listed, Scope, TypeOK, FrameOK, PCs, Writes, Slots, Absent,
      Changes, Threads
<1>12. ASSUME NEW o \in Calls, ResumeClear(o) PROVE TypeOK' /\ FrameOK'
  BY <1>0, <1>12
  DEF ResumeClear, TypeOK, FrameOK, PCs
<1>13. ASSUME NEW o \in Calls, RemoveOne(o) PROVE TypeOK' /\ FrameOK'
  BY <1>0, <1>13
  DEF RemoveOne, Put, Touched, TypeOK, FrameOK, PCs, Writes, Slots, Absent, Changes, Threads
<1>14. ASSUME NEW o \in Calls, Removed(o) PROVE TypeOK' /\ FrameOK'
  BY <1>0, <1>14
  DEF Removed, TypeOK, FrameOK, PCs
<1>15. ASSUME NEW o \in Calls, Finish(o) PROVE TypeOK' /\ FrameOK'
  BY <1>0, <1>15
  DEF Finish, Return, TypeOK, FrameOK, PCs
<1>16. ASSUME NEW o \in Calls, ReadFirst(o) PROVE TypeOK' /\ FrameOK'
  <2>1. TypeOfStore'
    BY <1>0, <1>16, Reading, PlanWellFormed
    DEF ReadFirst, WellFormed, TypeOK, FrameOK, PCs
  <2>2. TypeOfCalls'
    BY <1>0, <1>16, Reading, PlanWellFormed
    DEF ReadFirst, WellFormed, TypeOK, FrameOK, PCs
  <2>3. TypeOfNotes'
    BY <1>0, <1>16, Reading, PlanWellFormed
    DEF ReadFirst, WellFormed, TypeOK, FrameOK, PCs
  <2>4. TypeOfBoxes'
    BY <1>0, <1>16, Reading, PlanWellFormed
    DEF ReadFirst, WellFormed, TypeOK, FrameOK, PCs
  <2>5. TypeOfSubs'
    <3> DEFINE s == plan[o].sub
               again == Reread(s, Watched(s))
    <3>1. s \in Subs /\ again \in [Keys -> Values \cup {Missing}]  BY <1>0, Reading, SubTyped
    <3>2. /\ phase' = [phase EXCEPT ![s] = "reading"] /\ closed' = closed
          /\ shown' = [shown EXCEPT ![s] = again] \/ shown' = shown
      BY <1>16 DEF ReadFirst
    <3> HIDE DEF s, again
    <3>3. phase' \in [Subs -> {"off", "reading", "attached", "on"}]
      BY <1>0, <3>1, <3>2 DEF TypeOK
    <3>4. shown' \in [Subs -> [Keys -> Values \cup {Missing}]]  BY <1>0, <3>1, <3>2 DEF TypeOK
    <3> QED  BY <1>0, <3>2, <3>3, <3>4 DEF TypeOK
  <2>6. TypeOfJs' /\ FrameOK'
    BY <1>0, <1>16, Reading, PlanWellFormed
    DEF ReadFirst, WellFormed, TypeOK, FrameOK, PCs
  <2>7. TypeOfGhosts'
    BY <1>0, <1>16, Reading, PlanWellFormed
    DEF ReadFirst, WellFormed, TypeOK, FrameOK, PCs
  <2> QED  BY <2>1, <2>2, <2>3, <2>4, <2>5, <2>6, <2>7 DEF TypeOK
<1>17. ASSUME NEW o \in Calls, Attach(o) PROVE TypeOK' /\ FrameOK'
  <2>1. TypeOfStore'  BY <1>0, <1>17 DEF Attach, Return, Show, TypeOK, FrameOK, PCs
  <2>2. TypeOfCalls'  BY <1>0, <1>17 DEF Attach, Return, Show, TypeOK, FrameOK, PCs
  <2>3. TypeOfNotes'
    <3>1. SubView[plan[o].sub] \in Views
      BY <1>0, SubTyped, KVClientAssumption DEF KVClientAssumption
    <3> DEFINE v == SubView[plan[o].sub]
               Both(p) == visit[p] \cup {<<n[1], v>> : n \in visit[p]}
    <3>2. ASSUME NEW p \in Threads PROVE visit[p] \in SUBSET (Changes \X Views)
      BY <1>0 DEF TypeOK
    <3>3. ASSUME NEW p \in Threads PROVE Both(p) \in SUBSET (Changes \X Views)
      BY <3>1, <3>2
    <3>4. \/ visit' = visit
          \/ \E late \in SUBSET Threads :
                visit' = [p \in Threads |-> IF p \in late THEN Both(p) ELSE visit[p]]
      BY <1>17 DEF Attach
    <3> HIDE DEF Both
    <3>5. visit' \in [Threads -> SUBSET (Changes \X Views)]
      <4> DEFINE Now(late) == [p \in Threads |-> IF p \in late THEN Both(p) ELSE visit[p]]
      <4>1. ASSUME NEW late \in SUBSET Threads
            PROVE  Now(late) \in [Threads -> SUBSET (Changes \X Views)]
        BY <3>2, <3>3
      <4>2. visit' = visit \/ \E late \in SUBSET Threads : visit' = Now(late)  BY <3>4
      <4> HIDE DEF Now
      <4> QED  BY <1>0, <4>1, <4>2 DEF TypeOK
    <3> QED  BY <1>0, <1>17, <3>5 DEF Attach, TypeOK
  <2>4. TypeOfBoxes'  BY <1>0, <1>17 DEF Attach, Return, Show, TypeOK, FrameOK, PCs
  <2>5. TypeOfSubs'
    <3>1. shown' \in [Subs -> [Keys -> Values \cup {Missing}]]
      BY <1>0, <1>17, ShowTyped, SubTyped DEF Attach, TypeOK
    <3> QED  BY <1>0, <1>17, <3>1 DEF Attach, TypeOK
  <2>6. TypeOfJs' /\ FrameOK'
    <3>1. js' \in Calls \cup {Nobody}  BY <1>0, <1>17 DEF Attach, Return, TypeOK
    <3>2. CASE frame' = frame  BY <1>0, <3>1, <3>2 DEF TypeOK, FrameOK
    <3>3. CASE frame' # frame
      <4>1. PICK called \in {frame.called \ {plan[o].sub}, frame.called \cup {plan[o].sub}} :
               frame' = [frame EXCEPT !.called = called]
        BY <1>17, <3>3 DEF Attach
      <4>2. frame.view \in Views /\ frame # NoFrame
        BY <1>0, <1>17, <3>3, SubTyped, KVClientAssumption
        DEF Attach, KVClientAssumption, NoFrame, TypeOK
      <4>3. frame.rest \in Seq(Changes) /\ frame.rest # <<>> /\ called \in SUBSET Subs
        BY <1>0, <4>1, <4>2, SubTyped DEF TypeOK, FrameOK
      <4>4. frame = [view |-> frame.view, rest |-> frame.rest, called |-> frame.called]
        BY <1>0 DEF TypeOK
      <4>5. frame' = [view |-> frame.view, rest |-> frame.rest, called |-> called]
        BY <4>1, <4>4
      <4> QED  BY <3>1, <4>2, <4>3, <4>5 DEF FrameOK
    <3> QED  BY <3>2, <3>3
  <2>7. TypeOfGhosts'
    <3> DEFINE s == plan[o].sub
               missed == {k \in Watched(s) : shown[s][k] # Visible(k)}
    <3>1. s \in Subs /\ missed \in SUBSET Keys  BY <1>0, SubTyped, WatchedKeys
    <3>2. \/ unheard' = [unheard EXCEPT ![s] = missed]
          \/ Show(s, Watched(s)) \/ unheard' = unheard
      BY <1>17 DEF Attach
    <3> HIDE DEF s, missed
    <3>3. unheard' \in [Subs -> SUBSET Keys]
      BY <1>0, <3>1, <3>2, ShowTyped DEF TypeOK
    <3> QED  BY <1>0, <1>17, <3>3 DEF Attach, TypeOK
  <2> QED  BY <2>1, <2>2, <2>3, <2>4, <2>5, <2>6, <2>7 DEF TypeOK
<1>18. ASSUME NEW o \in Calls, Settle(o) PROVE TypeOK' /\ FrameOK'
  BY <1>0, <1>18, Reading, PlanWellFormed
  DEF Settle, Return, Show, TypeOK, FrameOK, PCs
<1>19. ASSUME NEW o \in Calls, AttachClosed(o) PROVE TypeOK' /\ FrameOK'
  BY <1>0, <1>19, PlanWellFormed
  DEF AttachClosed, Return, Blank, TypeOK, FrameOK, PCs
<1>20. ASSUME NEW o \in Calls, Detach(o) PROVE TypeOK' /\ FrameOK'
  <2>1. TypeOfStore'  BY <1>0, <1>20 DEF Detach, Return, DropNative, Blank, TypeOK, FrameOK, PCs
  <2>2. TypeOfCalls'  BY <1>0, <1>20 DEF Detach, Return, DropNative, Blank, TypeOK, FrameOK, PCs
  <2>3. TypeOfNotes'  BY <1>0, <1>20, DropTyped DEF Detach, TypeOK
  <2>4. TypeOfBoxes'  BY <1>0, <1>20, DropTyped DEF Detach, TypeOK
  <2>5. TypeOfSubs'
    <3> DEFINE s == plan[o].sub
    <3>1. s \in Subs /\ Blank \in [Keys -> Values \cup {Missing}]  BY <1>0, SubTyped DEF Blank
    <3>2. /\ phase' = [phase EXCEPT ![s] = "off"] \/ phase' = phase
          /\ shown' = [shown EXCEPT ![s] = Blank] \/ shown' = shown
          /\ closed' = closed
      BY <1>20 DEF Detach
    <3> HIDE DEF s
    <3>3. phase' \in [Subs -> {"off", "reading", "attached", "on"}]
      BY <1>0, <3>1, <3>2 DEF TypeOK
    <3>4. shown' \in [Subs -> [Keys -> Values \cup {Missing}]]  BY <1>0, <3>1, <3>2 DEF TypeOK
    <3> QED  BY <1>0, <3>2, <3>3, <3>4 DEF TypeOK
  <2>6. TypeOfJs' /\ FrameOK'
    BY <1>0, <1>20
    DEF Detach, Return, DropNative, Blank, TypeOK, FrameOK, PCs
  <2>7. TypeOfGhosts'  BY <1>0, <1>20 DEF Detach, Return, DropNative, Blank, TypeOK, FrameOK, PCs
  <2> QED  BY <2>1, <2>2, <2>3, <2>4, <2>5, <2>6, <2>7 DEF TypeOK
<1>21. ASSUME NEW o \in Calls, Invalidate(o) PROVE TypeOK' /\ FrameOK'
  <2>1. TypeOfStore'
    BY <1>0, <1>21, Reading, PlanWellFormed
    DEF Invalidate, Return, Show, WellFormed, TypeOK, FrameOK, PCs
  <2>2. TypeOfCalls'
    BY <1>0, <1>21, Reading, PlanWellFormed
    DEF Invalidate, Return, Show, WellFormed, TypeOK, FrameOK, PCs
  <2>3. TypeOfNotes'
    BY <1>0, <1>21, Reading, PlanWellFormed
    DEF Invalidate, Return, Show, WellFormed, TypeOK, FrameOK, PCs
  <2>4. TypeOfBoxes'
    BY <1>0, <1>21, Reading, PlanWellFormed
    DEF Invalidate, Return, Show, WellFormed, TypeOK, FrameOK, PCs
  <2>5. TypeOfSubs'  BY <1>0, <1>21, ShowTyped, SubTyped DEF Invalidate, TypeOK
  <2>6. TypeOfJs' /\ FrameOK'
    BY <1>0, <1>21, Reading, PlanWellFormed
    DEF Invalidate, Return, Show, WellFormed, TypeOK, FrameOK, PCs
  <2>7. TypeOfGhosts'  BY <1>0, <1>21, ShowTyped, SubTyped DEF Invalidate, TypeOK
  <2> QED  BY <2>1, <2>2, <2>3, <2>4, <2>5, <2>6, <2>7 DEF TypeOK
<1>22. ASSUME NEW o \in Calls, Release(o) PROVE TypeOK' /\ FrameOK'
  <2>1. TypeOfStore'  BY <1>0, <1>22 DEF Release, Return, DropNative, Blank, TypeOK, FrameOK, PCs
  <2>2. TypeOfCalls'  BY <1>0, <1>22 DEF Release, Return, DropNative, Blank, TypeOK, FrameOK, PCs
  <2>3. TypeOfNotes'  BY <1>0, <1>22, DropTyped DEF Release, TypeOK
  <2>4. TypeOfBoxes'  BY <1>0, <1>22, DropTyped DEF Release, TypeOK
  <2>5. TypeOfSubs'  BY <1>0, <1>22 DEF Release, Return, DropNative, Blank, TypeOK, FrameOK, PCs
  <2>6. TypeOfJs' /\ FrameOK'
    BY <1>0, <1>22
    DEF Release, Return, DropNative, Blank, TypeOK, FrameOK, PCs
  <2>7. TypeOfGhosts'  BY <1>0, <1>22 DEF Release, TypeOK
  <2> QED  BY <2>1, <2>2, <2>3, <2>4, <2>5, <2>6, <2>7 DEF TypeOK
<1>23. ASSUME NEW o \in Calls, CloseStore(o) PROVE TypeOK' /\ FrameOK'
  BY <1>0, <1>23
  DEF CloseStore, Return, NobodyHears, TypeOK, FrameOK, PCs
<1>24. ASSUME NEW p \in Threads, Notify(p) PROVE TypeOK' /\ FrameOK'
  BY <1>0, <1>24 DEF Notify, TypeOK, FrameOK
<1>25. ASSUME NEW p \in Threads, Visit(p) PROVE TypeOK' /\ FrameOK'
  BY <1>0, <1>25 DEF Visit, TypeOK, FrameOK
<1>26. ASSUME NEW v \in Views, Deliver(v) PROVE TypeOK' /\ FrameOK'
  BY <1>0, <1>26 DEF Deliver, TypeOK, FrameOK, NoFrame
<1>27. ASSUME NEW s \in Subs, CallListener(s) PROVE TypeOK' /\ FrameOK'
  BY <1>0, <1>27, Reading DEF CallListener, Show, TypeOK, FrameOK, NoFrame
<1>28. ASSUME NextChange PROVE TypeOK' /\ FrameOK'
  <2>1. TypeOfStore'  BY <1>0, <1>28 DEF NextChange, TypeOK, FrameOK
  <2>2. TypeOfCalls'  BY <1>0, <1>28 DEF NextChange, TypeOK, FrameOK
  <2>3. TypeOfNotes'  BY <1>0, <1>28 DEF NextChange, TypeOK, FrameOK
  <2>4. TypeOfBoxes'  BY <1>0, <1>28 DEF NextChange, TypeOK, FrameOK
  <2>5. TypeOfSubs'  BY <1>0, <1>28 DEF NextChange, TypeOK, FrameOK
  <2>6. TypeOfJs' /\ FrameOK'
    <3>1. frame.rest # <<>> /\ frame.rest \in Seq(Changes) /\ frame.view \in Views
      BY <1>0, <1>28 DEF NextChange, TypeOK, FrameOK
    <3>2. Tail(frame.rest) \in Seq(Changes)  BY <3>1
    <3>3. CASE Tail(frame.rest) = <<>>
      BY <1>0, <1>28, <3>2, <3>3 DEF NextChange, TypeOK, FrameOK, NoFrame
    <3>4. CASE Tail(frame.rest) # <<>>
      BY <1>0, <1>28, <3>1, <3>2, <3>4 DEF NextChange, TypeOK, FrameOK
    <3> QED  BY <3>3, <3>4
  <2>7. TypeOfGhosts'  BY <1>0, <1>28 DEF NextChange, TypeOK, FrameOK
  <2> QED  BY <2>1, <2>2, <2>3, <2>4, <2>5, <2>6, <2>7 DEF TypeOK
<1>29. ASSUME NEW k \in Keys, Expire(k) PROVE TypeOK' /\ FrameOK'
  <2>1. TypeOfStore'
    <3>1. /\ slot' = [slot EXCEPT ![k] = [slot[k] EXCEPT !.expires = "past"]]
          /\ UNCHANGED <<storeClosed, hasSweeper>> /\ plan' = plan
      BY <1>29 DEF Expire
    <3>2. [slot[k] EXCEPT !.expires = "past"] \in Slots
      <4>1. PICK r \in Slots : r = slot[k]  BY <1>0 DEF TypeOK
      <4>2. [r EXCEPT !.expires = "past"] \in Slots  BY DEF Slots
      <4> QED  BY <4>1, <4>2
    <3> QED  BY <1>0, <3>1, <3>2 DEF TypeOK
  <2>2. TypeOfGhosts'  BY <1>0, <1>29 DEF Expire, NobodyHears, TypeOK
  <2>3. /\ TypeOfCalls' /\ TypeOfNotes' /\ TypeOfBoxes' /\ TypeOfSubs' /\ TypeOfJs'
        /\ FrameOK'
    BY <1>0, <1>29 DEF Expire, TypeOK, FrameOK
  <2> QED  BY <2>1, <2>2, <2>3 DEF TypeOK
<1>30. ASSUME NEW k \in Keys, Sweep(k) PROVE TypeOK' /\ FrameOK'
  BY <1>0, <1>30 DEF Sweep, TypeOK, FrameOK, Slots, Absent, Changes, Threads
<1>31. CASE UNCHANGED vars
  <2>1. TypeOfStore'  BY <1>0, <1>31 DEF vars, TypeOK, FrameOK
  <2>2. TypeOfCalls'  BY <1>0, <1>31 DEF vars, TypeOK, FrameOK
  <2>3. TypeOfNotes'  BY <1>0, <1>31 DEF vars, TypeOK, FrameOK
  <2>4. TypeOfBoxes'  BY <1>0, <1>31 DEF vars, TypeOK, FrameOK
  <2>5. TypeOfSubs'  BY <1>0, <1>31 DEF vars, TypeOK, FrameOK
  <2>6. TypeOfJs' /\ FrameOK'  BY <1>0, <1>31 DEF vars, TypeOK, FrameOK
  <2>7. TypeOfGhosts'  BY <1>0, <1>31 DEF vars, TypeOK, FrameOK
  <2> QED  BY <2>1, <2>2, <2>3, <2>4, <2>5, <2>6, <2>7, <1>99 DEF TypeOK, Typed
<1> QED
  BY <1>99, <1>1, <1>2, <1>3, <1>4, <1>5, <1>6, <1>7, <1>8, <1>9, <1>10, <1>11, <1>12, <1>13,
     <1>14, <1>15, <1>16, <1>17, <1>18, <1>19, <1>20, <1>21, <1>22, <1>23, <1>24, <1>25, <1>26,
     <1>27, <1>28, <1>29, <1>30, <1>31
  DEF Next, Step, Telling, Delivery, Done, Typed
-----------------------------------------------------------------------------
(***************************************************************************)
(* The JS thread stays with a synchronous call until it returns: nobody    *)
(* else moves the subscriber it is about.                                  *)
(***************************************************************************)
JsHolds ==
    \A o \in Calls :
        pc[o] \in {"read", "attach", "settle", "detach", "release", "close"} => js = o

PhaseAt ==
    \A o \in Calls :
        /\ pc[o] = "read" => phase[plan[o].sub] = "off"
        /\ pc[o] = "attach" => phase[plan[o].sub] = "reading"
        /\ pc[o] = "settle" => phase[plan[o].sub] = "attached"

Held == JsHolds /\ PhaseAt

LEMMA CallsNotJs == Nobody \notin Calls
BY KVClientAssumption DEF KVClientAssumption

LEMMA SyncBegin ==
    ASSUME TypeOK, NEW o \in Calls, Begin(o) \in {"read", "attach", "settle", "detach", "release",
       "close"}
    PROVE  /\ ~plan[o].async
           /\ Begin(o) \in {"read", "detach", "release"}
           /\ Begin(o) = "read" => plan[o].kind = "subscribe"
BY PlanWellFormed DEF WellFormed, Begin, CallKinds

LEMMA StepHeld == Typed /\ Held /\ [Next]_vars => Held'
<1> SUFFICES ASSUME Typed, Held, [Next]_vars PROVE Held'  OBVIOUS
<1>0. TypeOK /\ JsHolds /\ PhaseAt /\ plan' = plan  BY PlanKept DEF Typed, Held
<1> USE CallsNotJs DEF TypeOfCalls, TypeOfSubs, TypeOfJs
<1>1. ASSUME NEW o \in Calls, Issue(o) PROVE Held'
  <2>1. /\ pc' = [pc EXCEPT ![o] = Begin(o)] /\ js = Nobody /\ phase' = phase
        /\ js' = IF plan[o].async THEN js ELSE o
        /\ plan[o].kind = "subscribe" => phase[plan[o].sub] = "off"
    BY <1>1 DEF Issue, JsFree, subVars
  <2> HIDE DEF Begin
  <2> QED  BY <1>0, <2>1, SyncBegin DEF Held, JsHolds, PhaseAt, TypeOK
<1>2. ASSUME NEW o \in Calls, Refuse(o) PROVE Held'
  BY <1>0, <1>2, SubTyped DEF Refuse, Return, Held, JsHolds, PhaseAt, TypeOK, subVars, jsVars
<1>3. ASSUME NEW o \in Calls, SetKey(o) PROVE Held'
  BY <1>0, <1>3, SubTyped DEF SetKey, Return, Held, JsHolds, PhaseAt, TypeOK, subVars, jsVars
<1>4. ASSUME NEW o \in Calls, Stage(o) PROVE Held'
  BY <1>0, <1>4, SubTyped DEF Stage, Return, Held, JsHolds, PhaseAt, TypeOK, subVars, jsVars
<1>5. ASSUME NEW o \in Calls, Abandon(o) PROVE Held'
  BY <1>0, <1>5, SubTyped DEF Abandon, Return, Held, JsHolds, PhaseAt, TypeOK, subVars, jsVars
<1>6. ASSUME NEW o \in Calls, Sample(o) PROVE Held'
  BY <1>0, <1>6, SubTyped DEF Sample, Return, Held, JsHolds, PhaseAt, TypeOK, subVars, jsVars
<1>7. ASSUME NEW o \in Calls, Admit(o) PROVE Held'
  BY <1>0, <1>7, SubTyped DEF Admit, Return, Held, JsHolds, PhaseAt, TypeOK, subVars, jsVars
<1>8. ASSUME NEW o \in Calls, Clear(o) PROVE Held'
  BY <1>0, <1>8, SubTyped DEF Clear, Return, Held, JsHolds, PhaseAt, TypeOK, subVars, jsVars
<1>9. ASSUME NEW o \in Calls, ApplyKey(o) PROVE Held'
  BY <1>0, <1>9, SubTyped DEF ApplyKey, Return, Held, JsHolds, PhaseAt, TypeOK, subVars, jsVars
<1>10. ASSUME NEW o \in Calls, Applied(o) PROVE Held'
  BY <1>0, <1>10, SubTyped DEF Applied, Return, Held, JsHolds, PhaseAt, TypeOK, subVars, jsVars
<1>11. ASSUME NEW o \in Calls, ListKeys(o) PROVE Held'
  BY <1>0, <1>11, SubTyped DEF ListKeys, Return, Held, JsHolds, PhaseAt, TypeOK, subVars, jsVars
<1>12. ASSUME NEW o \in Calls, ResumeClear(o) PROVE Held'
  BY <1>0, <1>12, SubTyped DEF ResumeClear, Return, Held, JsHolds, PhaseAt, TypeOK, subVars, jsVars
<1>13. ASSUME NEW o \in Calls, RemoveOne(o) PROVE Held'
  BY <1>0, <1>13, SubTyped DEF RemoveOne, Return, Held, JsHolds, PhaseAt, TypeOK, subVars, jsVars
<1>14. ASSUME NEW o \in Calls, Removed(o) PROVE Held'
  BY <1>0, <1>14, SubTyped DEF Removed, Return, Held, JsHolds, PhaseAt, TypeOK, subVars, jsVars
<1>15. ASSUME NEW o \in Calls, Finish(o) PROVE Held'
  BY <1>0, <1>15, SubTyped DEF Finish, Return, Held, JsHolds, PhaseAt, TypeOK, subVars, jsVars
<1>16. ASSUME NEW o \in Calls, ReadFirst(o) PROVE Held'
  BY <1>0, <1>16, SubTyped DEF ReadFirst, Return, Held, JsHolds, PhaseAt, TypeOK, subVars, jsVars
<1>17. ASSUME NEW o \in Calls, Attach(o) PROVE Held'
  <2> DEFINE s == plan[o].sub
  <2>1. /\ pc[o] = "attach"
        /\ \/ /\ phase' = [phase EXCEPT ![s] = "attached"]
              /\ pc' = [pc EXCEPT ![o] = "settle"] /\ js' = js
           \/ /\ phase' = [phase EXCEPT ![s] = "on"] /\ Return(o, "done")
    BY <1>17 DEF Attach
  <2> QED  BY <1>0, <2>1, SubTyped DEF Return, Held, JsHolds, PhaseAt, TypeOK
<1>18. ASSUME NEW o \in Calls, Settle(o) PROVE Held'
  BY <1>0, <1>18, SubTyped DEF Settle, Return, Held, JsHolds, PhaseAt, TypeOK, subVars, jsVars, Show
<1>19. ASSUME NEW o \in Calls, AttachClosed(o) PROVE Held'
  BY <1>0, <1>19, SubTyped DEF AttachClosed, Return, Held, JsHolds, PhaseAt, TypeOK, subVars, jsVars
<1>20. ASSUME NEW o \in Calls, Detach(o) PROVE Held'
  BY <1>0, <1>20, SubTyped DEF Detach, Return, Held, JsHolds, PhaseAt, TypeOK, subVars, jsVars
<1>21. ASSUME NEW o \in Calls, Invalidate(o) PROVE Held'
  BY <1>0, <1>21, SubTyped DEF Invalidate, Return, Held, JsHolds, PhaseAt, TypeOK, subVars,
     jsVars, Show
<1>22. ASSUME NEW o \in Calls, Release(o) PROVE Held'
  BY <1>0, <1>22, SubTyped DEF Release, Return, Held, JsHolds, PhaseAt, TypeOK, subVars, jsVars,
     Entries, Listening
<1>23. ASSUME NEW o \in Calls, CloseStore(o) PROVE Held'
  BY <1>0, <1>23, SubTyped DEF CloseStore, Return, Held, JsHolds, PhaseAt, TypeOK, subVars, jsVars
<1>24. ASSUME \/ \E p \in Threads : Telling(p)
              \/ Delivery
              \/ \E k \in Keys : Expire(k) \/ Sweep(k)
              \/ Done
      PROVE  Held'
  <2>1. pc' = pc /\ js' = js /\ phase' = phase
    BY <1>24
    DEF Telling, Delivery, Done, vars, callVars, subVars, jsVars, Notify, Visit, Deliver,
        CallListener, NextChange, Expire, Sweep
  <2> QED  BY <1>0, <2>1 DEF Held, JsHolds, PhaseAt
<1>25. ASSUME NEW o \in Calls, Step(o) PROVE Held'
  BY <1>25, <1>2, <1>3, <1>4, <1>5, <1>6, <1>7, <1>8, <1>9, <1>10, <1>11, <1>12, <1>13, <1>14,
     <1>15, <1>16, <1>17, <1>18, <1>19, <1>20, <1>21, <1>22, <1>23 DEF Step
<1>26. CASE UNCHANGED vars
  BY <1>0, <1>26 DEF vars, callVars, subVars, jsVars, Held, JsHolds, PhaseAt
<1> QED  BY <1>1, <1>24, <1>25, <1>26 DEF Next

-----------------------------------------------------------------------------
(***************************************************************************)
(* The native subscriptions: a thread tells only views that have one, and  *)
(* a box that holds changes has a delivery under way.                      *)
(***************************************************************************)
VisitsNative == \A p \in Threads : \A n \in visit[p] : native[n[2]]

Linked == NativeWhileNeeded /\ VisitsNative /\ BurstScheduled

LEMMA EntriesKept ==
    ASSUME \A s \in Subs : Listening(s)' <=> Listening(s)
    PROVE  NativeWhileNeeded /\ native' = native => NativeWhileNeeded'
BY DEF NativeWhileNeeded, Entries

LEMMA DropLinked ==
    ASSUME Typed, Linked, NEW vs \in SUBSET Views, DropNative(vs), scheduled' = scheduled,
           \A v \in Views : Entries(v)' = IF v \in vs THEN {} ELSE Entries(v)
    PROVE  Linked'
<1> USE DEF Linked, Typed, TypeOK, TypeOfNotes, TypeOfBoxes
<1>1. NativeWhileNeeded'  BY DEF NativeWhileNeeded, DropNative
<1>2. VisitsNative'
  <2> SUFFICES ASSUME NEW p \in Threads, NEW n \in visit'[p] PROVE native'[n[2]]
    BY DEF VisitsNative
  <2>1. n \in visit[p] /\ n[2] \notin vs  BY DEF DropNative
  <2>2. n[2] \in Views /\ native[n[2]]  BY <2>1 DEF VisitsNative
  <2> QED  BY <2>1, <2>2 DEF DropNative
<1>3. BurstScheduled'  BY DEF BurstScheduled, DropNative
<1> QED  BY <1>1, <1>2, <1>3

LEMMA AttachLinked ==
    ASSUME Typed, Linked, NEW o \in Calls, Attach(o)
    PROVE  Linked'
<1> DEFINE S == plan[o].sub  V == SubView[S]
           Came(s, v) ==
              /\ phase' = [phase EXCEPT ![s] = "attached"] \/ phase' = [phase EXCEPT ![s] = "on"]
              /\ native' = [native EXCEPT ![v] = TRUE]
              /\ pending' = pending /\ scheduled' = scheduled
              /\ \A p \in Threads : \A n : n \in visit'[p] => n \in visit[p] \/ n[2] = v
<1> USE DEF Linked, Typed, TypeOK, TypeOfNotes, TypeOfBoxes, TypeOfSubs
<1>1. S \in Subs /\ V \in Views
  BY SubTyped, KVClientAssumption DEF KVClientAssumption
<1>2. Came(S, V)
  <2>1. ASSUME NEW p \in Threads, NEW n \in visit'[p], n \notin visit[p] PROVE n[2] = V
    <3> DEFINE more == {<<m[1], V>> : m \in visit[p]}
    <3>1. visit' = visit \/ visit'[p] = visit[p] \cup more \/ visit'[p] = visit[p]
      BY DEF Attach
    <3>2. n \in more  BY <2>1, <3>1
    <3> QED  BY <3>2
  <2> QED  BY <2>1 DEF Attach
<1>3. PICK s \in Subs, v \in Views : Came(s, v) /\ v = SubView[s]  BY <1>1, <1>2
<1>4. NativeWhileNeeded'
  <2>1. s \in Entries(v)'  BY <1>3 DEF Entries, Listening
  <2>2. \A w \in Views \ {v} : Entries(w)' = Entries(w)  BY <1>3 DEF Entries, Listening
  <2>3. native'[v] /\ \A w \in Views \ {v} : native'[w] = native[w]  BY <1>3
  <2> QED  BY <2>1, <2>2, <2>3 DEF NativeWhileNeeded
<1>5. VisitsNative'
  <2> SUFFICES ASSUME NEW p \in Threads, NEW n \in visit'[p] PROVE native'[n[2]]
    BY DEF VisitsNative
  <2>1. n \in visit[p] \/ n[2] = v  BY <1>3
  <2>2. n \in visit[p] => n[2] \in Views /\ native[n[2]]  BY DEF VisitsNative
  <2> QED  BY <2>1, <2>2, <1>3
<1>6. BurstScheduled'  BY <1>3 DEF BurstScheduled
<1> QED  BY <1>4, <1>5, <1>6

LEMMA StepLinked == Typed /\ Held /\ Linked /\ [Next]_vars => Linked'
<1> SUFFICES ASSUME Typed, Held, Linked, [Next]_vars PROVE Linked'  OBVIOUS
<1> USE DEF TypeOfNotes, TypeOfBoxes, TypeOfSubs
<1>0. TypeOK /\ NativeWhileNeeded /\ VisitsNative /\ BurstScheduled /\ PhaseAt
  BY DEF Typed, Linked, Held
<1>1. ASSUME UNCHANGED <<native, pending, scheduled, visit, phase>> PROVE Linked'
  BY <1>0, <1>1
  DEF Linked, NativeWhileNeeded, Entries, Listening, VisitsNative, BurstScheduled
<1>2. ASSUME NEW o \in Calls, Issue(o) PROVE Linked'
  BY <1>1, <1>2 DEF Issue, noteVars, boxVars, subVars
<1>3. ASSUME NEW o \in Calls, Step(o) PROVE Linked'
  <2>1. CASE \/ Refuse(o) \/ SetKey(o) \/ Stage(o) \/ Abandon(o) \/ Sample(o) \/ Admit(o)
             \/ Clear(o) \/ ApplyKey(o) \/ Applied(o) \/ ListKeys(o) \/ ResumeClear(o)
             \/ RemoveOne(o) \/ Removed(o) \/ Finish(o) \/ Invalidate(o) \/ CloseStore(o)
    <3>1. UNCHANGED <<native, pending, scheduled, visit, phase>>
      BY <2>1
      DEF Refuse, SetKey, Stage, Abandon, Sample, Admit, Clear, ApplyKey, Applied, ListKeys,
          ResumeClear, RemoveOne, Removed, Finish, Invalidate, CloseStore, noteVars, boxVars,
          subVars
    <3> QED  BY <3>1, <1>1
  <2>2. CASE ReadFirst(o) \/ Settle(o) \/ AttachClosed(o)
    <3> DEFINE s == plan[o].sub
    <3>1. /\ UNCHANGED <<native, pending, scheduled, visit>>
          /\ \/ /\ phase[s] = "off" /\ phase' = [phase EXCEPT ![s] = "reading"]
             \/ /\ phase[s] = "attached" /\ phase' = [phase EXCEPT ![s] = "on"]
             \/ /\ phase[s] = "reading" /\ phase' = [phase EXCEPT ![s] = "off"]
      BY <1>0, <2>2 DEF ReadFirst, Settle, AttachClosed, PhaseAt, noteVars, boxVars
    <3>2. \A other \in Subs : Listening(other)' <=> Listening(other)
      BY <1>0, <3>1, SubTyped DEF Listening, TypeOK
    <3>3. NativeWhileNeeded'  BY <1>0, <3>1, <3>2, EntriesKept
    <3> QED  BY <1>0, <3>1, <3>3 DEF Linked, VisitsNative, BurstScheduled
  <2>3. CASE Attach(o)  BY <2>3, AttachLinked
  <2>4. CASE Detach(o)
    <3> DEFINE s == plan[o].sub  v == SubView[s]
    <3>1. s \in Subs /\ v \in Views
      BY <1>0, SubTyped, KVClientAssumption DEF KVClientAssumption
    <3>2. CASE ~Listening(s)
      BY <2>4, <3>2, <1>1 DEF Detach
    <3>3. CASE Listening(s)
      <4>1. /\ phase' = [phase EXCEPT ![s] = "off"]
            /\ DropNative(IF Entries(v) = {s} THEN {v} ELSE {}) /\ scheduled' = scheduled
        BY <2>4, <3>3 DEF Detach
      <4>2. \A w \in Views : Entries(w)' = Entries(w) \ {s}
        BY <1>0, <3>1, <4>1 DEF Entries, Listening, TypeOK
      <4>3. s \in Entries(v) /\ \A w \in Views \ {v} : s \notin Entries(w)
        BY <3>1, <3>3 DEF Entries, Listening
      <4>4. CASE Entries(v) = {s}
        <5> HIDE DEF s, v
        <5>0. \A w \in Views \ {v} : Entries(w) \ {s} = Entries(w)  BY <4>3
        <5>1. \A w \in Views : Entries(w)' = IF w \in {v} THEN {} ELSE Entries(w)
          BY <4>2, <4>4, <5>0
        <5> QED  BY <3>1, <4>1, <4>4, <5>1, DropLinked
      <4>5. CASE Entries(v) # {s}
        <5>1. UNCHANGED <<native, pending, visit, scheduled>>
          BY <1>0, <4>1, <4>5 DEF DropNative, TypeOK
        <5>2. NativeWhileNeeded'
          BY <1>0, <4>2, <4>3, <4>5, <5>1 DEF NativeWhileNeeded
        <5> QED  BY <1>0, <5>1, <5>2 DEF Linked, VisitsNative, BurstScheduled
      <4> QED  BY <4>4, <4>5
    <3> QED  BY <3>2, <3>3
  <2>5. CASE Release(o)
    <3>1. CASE plan[o].view # Root \/ closed
      BY <2>5, <3>1, <1>1 DEF Release
    <3>2. CASE ~(plan[o].view # Root \/ closed)
      <4>1. /\ DropNative({Root}) /\ scheduled' = scheduled
            /\ phase' = [s \in Subs |-> IF s \in Entries(Root) THEN "off" ELSE phase[s]]
        BY <2>5, <3>2 DEF Release
      <4>2. \A w \in Views : Entries(w)' = IF w \in {Root} THEN {} ELSE Entries(w)
        BY <4>1 DEF Entries, Listening
      <4> QED  BY <4>1, <4>2, DropLinked, KVClientAssumption DEF KVClientAssumption
    <3> QED  BY <3>1, <3>2
  <2> QED  BY <1>3, <2>1, <2>2, <2>3, <2>4, <2>5 DEF Step
<1>4. ASSUME NEW p \in Threads, Notify(p) PROVE Linked'
  <2>1. PICK c \in tell[p] :
           visit' = [visit EXCEPT ![p] = @ \cup {<<c, v>> : v \in {w \in Views : native[w]}}]
    BY <1>4 DEF Notify
  <2>2. UNCHANGED <<native, pending, scheduled, phase>>  BY <1>4 DEF Notify, boxVars, subVars
  <2>3. VisitsNative'  BY <1>0, <2>1, <2>2 DEF VisitsNative, TypeOK
  <2> QED
    BY <1>0, <2>2, <2>3 DEF Linked, NativeWhileNeeded, Entries, Listening, BurstScheduled
<1>5. ASSUME NEW p \in Threads, Visit(p) PROVE Linked'
  <2>1. PICK c \in Changes, v \in Views :
           /\ <<c, v>> \in visit[p]
           /\ visit' = [visit EXCEPT ![p] = @ \ {<<c, v>>}]
           /\ pending' = [pending EXCEPT ![v] = Append(@, c)]
           /\ scheduled' = IF pending[v] = <<>> THEN [scheduled EXCEPT ![v] = @ + 1]
                           ELSE scheduled
    BY <1>5 DEF Visit
  <2>2. native' = native /\ phase' = phase  BY <1>5 DEF Visit, subVars
  <2>3. VisitsNative'  BY <1>0, <2>1, <2>2 DEF VisitsNative, TypeOK
  <2>4. native[v]  BY <1>0, <2>1 DEF VisitsNative
  <2>5. BurstScheduled'
    BY <1>0, <2>1, <2>2, <2>4 DEF BurstScheduled, TypeOK
  <2> QED  BY <1>0, <2>2, <2>3, <2>5 DEF Linked, NativeWhileNeeded, Entries, Listening
<1>6. ASSUME NEW v \in Views, Deliver(v) PROVE Linked'
  <2>1. BurstScheduled'  BY <1>0, <1>6 DEF Deliver, BurstScheduled, TypeOK
  <2> QED
    BY <1>0, <1>6, <2>1
    DEF Deliver, Linked, NativeWhileNeeded, Entries, Listening, VisitsNative, noteVars, subVars
<1>7. CASE \/ \E s \in Subs : CallListener(s)
           \/ NextChange
           \/ \E k \in Keys : Expire(k) \/ Sweep(k)
           \/ Done \/ UNCHANGED vars
  <2>1. UNCHANGED <<native, pending, scheduled, visit, phase>>
    BY <1>7
    DEF CallListener, NextChange, Expire, Sweep, Done, vars, noteVars, boxVars, subVars
  <2> QED  BY <2>1, <1>1
<1> QED
  BY <1>2, <1>3, <1>4, <1>5, <1>6, <1>7 DEF Next, Telling, Delivery

-----------------------------------------------------------------------------
(***************************************************************************)
(* What a call has yet to write lies in the scope of its view and is what  *)
(* it is meant to write there, and it has told nothing before it writes.   *)
(***************************************************************************)
InScope(o, k, value) == k \in Scope(plan[o].view) /\ value \in Meant(o, k)

TodoScoped ==
    \A o \in Calls : \A k \in Keys : todo[o][k] # Untouched => InScope(o, k, todo[o][k])

TellEmpty == \A o \in Calls : pc[o] \in {"planned", "put"} => tell[o] = {}

\* The removals that an asynchronous clear has yet to make are no writes of values.
OnlyRemovals ==
    \A o \in Calls : pc[o] \in {"listed", "removing"} =>
        \A k \in Keys : todo[o][k] \in {Missing, Untouched}

Staged == TodoScoped /\ TellEmpty /\ OnlyRemovals

LEMMA FullInScope ==
    ASSUME TypeOK, NEW o \in Calls, NEW k \in Keys,
           FullWrites(plan[o].view, plan[o].puts)[k] # Untouched
    PROVE  InScope(o, k, FullWrites(plan[o].view, plan[o].puts)[k])
<1> DEFINE v == plan[o].view  puts == plan[o].puts
           names == {l \in DOMAIN puts : Full[v][l] = k}
<1>1. DOMAIN puts \subseteq DOMAIN Full[v]  BY PlanWellFormed DEF WellFormed
<1>2. names # {} /\ FullWrites(v, puts)[k] = puts[CHOOSE l \in DOMAIN puts : Full[v][l] = k]
  BY DEF FullWrites
<1>3. PICK l \in names : FullWrites(v, puts)[k] = puts[l]  BY <1>2
<1>4. k \in Scope(v)  BY <1>1, <1>3 DEF Scope
<1>5. puts[l] \in Meant(o, k)  BY <1>3 DEF Meant
<1> QED  BY <1>3, <1>4, <1>5 DEF InScope

LEMMA StepScoped == Typed /\ TodoScoped /\ [Next]_vars => TodoScoped'
<1> SUFFICES ASSUME Typed, TodoScoped, [Next]_vars PROVE TodoScoped'  OBVIOUS
<1>0. TypeOK /\ BegunOK /\ plan' = plan  BY PlanKept DEF Typed
<1> USE DEF TypeOfCalls
<1>00. \A c \in Calls, k \in Keys : \A x : InScope(c, k, x)' <=> InScope(c, k, x)
  BY <1>0 DEF InScope, Meant
<1>1. ASSUME UNCHANGED todo PROVE TodoScoped'
  BY <1>00, <1>1 DEF TodoScoped
<1>2. ASSUME NEW o \in Calls, todo' \in [Calls -> Writes],
             \A c \in Calls \ {o} : todo'[c] = todo[c],
             \A k \in Keys : todo'[o][k] # Untouched =>
                 todo'[o][k] = todo[o][k] \/ InScope(o, k, todo'[o][k])
      PROVE  TodoScoped'
  <2> SUFFICES ASSUME NEW c \in Calls, NEW k \in Keys, todo'[c][k] # Untouched
               PROVE  InScope(c, k, todo'[c][k])
    BY <1>00 DEF TodoScoped
  <2>1. CASE todo'[c][k] = todo[c][k]  BY <2>1 DEF TodoScoped
  <2>2. CASE todo'[c][k] # todo[c][k]
    <3>1. c = o  BY <1>2, <2>2
    <3> QED  BY <1>2, <2>2, <3>1
  <2> QED  BY <2>1, <2>2
<1>3. ASSUME NEW o \in Calls, Issue(o) PROVE TodoScoped'
  <2>1. todo' = [todo EXCEPT ![o] = FullWrites(plan[o].view, plan[o].puts)]  BY <1>3 DEF Issue
  <2>2. todo'[o] = FullWrites(plan[o].view, plan[o].puts)  BY <1>0, <2>1 DEF TypeOK
  <2> QED  BY <1>0, <1>2, <2>1, <2>2, FullInScope, WritesTyped DEF TypeOK
<1>4. ASSUME NEW o \in Calls, SetKey(o) \/ Abandon(o) PROVE TodoScoped'
  <2>1. todo' = [todo EXCEPT ![o] = Nothing] /\ Nothing \in Writes
    BY <1>4 DEF SetKey, Abandon, Nothing, Writes
  <2>2. \A k \in Keys : Nothing[k] = Untouched  BY DEF Nothing
  <2> QED  BY <1>0, <1>2, <2>1, <2>2 DEF TypeOK
<1>5. ASSUME NEW o \in Calls, Stage(o) PROVE TodoScoped'
  <2> DEFINE to == Full[plan[o].view][plan[o].to]
  <2>1. todo' = [todo EXCEPT ![o][to] = TxRead(o)]  BY <1>5 DEF Stage
  <2>2. plan[o].kind = "transaction"  BY <1>0, <1>5, BegunKind DEF Stage
  <2>3. to \in Scope(plan[o].view)  BY <1>0, <2>2, PlanWellFormed DEF WellFormed, Scope
  <2>4. to \in Keys /\ TxRead(o) \in Values \cup {Missing}  BY <1>0, <2>2, TxReadTyped
  <2>5. InScope(o, to, TxRead(o))  BY <2>2, <2>3, <2>4 DEF InScope, Meant
  <2> HIDE DEF to
  <2>6. /\ todo' \in [Calls -> Writes] /\ \A c \in Calls \ {o} : todo'[c] = todo[c]
        /\ todo'[o][to] = TxRead(o) /\ \A k \in Keys : k # to => todo'[o][k] = todo[o][k]
    BY <1>0, <2>1, <2>4 DEF TypeOK, Writes
  <2> QED  BY <1>2, <2>5, <2>6
<1>6. ASSUME NEW o \in Calls, plan[o].kind \in Clears, NEW ks \in SUBSET Scope(plan[o].view),
             todo' = [todo EXCEPT ![o] = Removals(ks)]
      PROVE  TodoScoped'
  <2>1. /\ Removals(ks) \in Writes
        /\ \A k \in Keys : Removals(ks)[k] # Untouched => k \in ks /\ Removals(ks)[k] = Missing
    BY DEF Removals, Writes
  <2>2. todo'[o] = Removals(ks)  BY <1>0, <1>6 DEF TypeOK
  <2>3. \A k \in Keys : Missing \in Meant(o, k)  BY <1>6 DEF Meant
  <2>4. \A k \in Keys : todo'[o][k] # Untouched => InScope(o, k, todo'[o][k])
    BY <2>1, <2>2, <2>3 DEF InScope
  <2> QED  BY <1>0, <1>2, <1>6, <2>1, <2>4 DEF TypeOK
<1>7. ASSUME NEW o \in Calls, Clear(o) PROVE TodoScoped'
  <2>1. plan[o].view = Root /\ plan[o].kind \in Clears
    BY <1>0, <1>7, BegunKind DEF Clear, Clears
  <2>2. Keys \subseteq Scope(Root)  BY KVClientAssumption DEF KVClientAssumption, Scope
  <2> QED  BY <1>6, <1>7, <2>1, <2>2 DEF Clear
<1>8. ASSUME NEW o \in Calls, ListKeys(o) PROVE TodoScoped'
  <2>1. plan[o].kind \in Clears  BY <1>0, <1>8, BegunKind DEF ListKeys, Clears
  <2> QED  BY <1>6, <1>8, <2>1 DEF ListKeys
<1>9. ASSUME NEW o \in Calls, ApplyKey(o) \/ RemoveOne(o) PROVE TodoScoped'
  <2>1. PICK k \in Touched(o) : todo' = [todo EXCEPT ![o][k] = Untouched]
    BY <1>9 DEF ApplyKey, RemoveOne
  <2>2. /\ todo' \in [Calls -> Writes] /\ \A c \in Calls \ {o} : todo'[c] = todo[c]
        /\ \A j \in Keys : todo'[o][j] # Untouched => todo'[o][j] = todo[o][j]
    BY <1>0, <2>1 DEF TypeOK, Touched, Writes
  <2> QED  BY <1>2, <2>2
<1>10. CASE UNCHANGED vars  BY <1>1, <1>10 DEF vars, callVars
<1>11. ASSUME NEW o \in Calls,
              \/ Refuse(o) \/ Sample(o) \/ Admit(o) \/ Applied(o) \/ ResumeClear(o)
              \/ Removed(o) \/ Finish(o) \/ ReadFirst(o) \/ Attach(o) \/ Settle(o)
              \/ AttachClosed(o) \/ Detach(o) \/ Invalidate(o) \/ Release(o) \/ CloseStore(o)
       PROVE  TodoScoped'
  <2>1. todo' = todo
    BY <1>11
    DEF Refuse, Sample, Admit, Applied, ResumeClear, Removed, Finish, ReadFirst, Attach, Settle,
        AttachClosed, Detach, Invalidate, Release, CloseStore
  <2> QED  BY <1>1, <2>1
<1>12. ASSUME NEW o \in Calls, Step(o) PROVE TodoScoped'
  BY <1>12, <1>4, <1>5, <1>7, <1>8, <1>9, <1>11 DEF Step
<1>13. ASSUME \/ \E p \in Threads : Telling(p)
              \/ Delivery
              \/ \E k \in Keys : Expire(k) \/ Sweep(k)
              \/ Done
       PROVE  TodoScoped'
  <2>1. todo' = todo
    BY <1>13
    DEF Telling, Delivery, Done, vars, callVars, Notify, Visit, Deliver, CallListener, NextChange,
        Expire, Sweep
  <2> QED  BY <1>1, <2>1
<1> QED  BY <1>3, <1>10, <1>12, <1>13 DEF Next

LEMMA StepOnlyRemovals == Typed /\ OnlyRemovals /\ [Next]_vars => OnlyRemovals'
<1> SUFFICES ASSUME Typed, OnlyRemovals, [Next]_vars, NEW c \in Calls,
                    pc'[c] \in {"listed", "removing"}, NEW k \in Keys
             PROVE  todo'[c][k] \in {Missing, Untouched}
  BY DEF OnlyRemovals
<1>0. pc \in [Calls -> PCs] /\ todo \in [Calls -> Writes]  BY DEF Typed, TypeOK, TypeOfCalls
<1>1. ASSUME pc'[c] = pc[c], todo'[c] = todo[c] PROVE todo'[c][k] \in {Missing, Untouched}
  BY <1>1 DEF OnlyRemovals
<1>2. ASSUME NEW o \in Calls, Issue(o) PROVE todo'[c][k] \in {Missing, Untouched}
  <2>1. /\ pc' = [pc EXCEPT ![o] = Begin(o)]
        /\ todo' = [todo EXCEPT ![o] = FullWrites(plan[o].view, plan[o].puts)]
    BY <1>2 DEF Issue
  <2>2. Begin(o) \notin {"listed", "removing"}
    BY PlanWellFormed DEF Begin, WellFormed, CallKinds, Typed
  <2>3. c # o  BY <1>0, <2>1, <2>2
  <2> HIDE DEF Begin
  <2> QED  BY <1>0, <1>1, <2>1, <2>3
<1>3. ASSUME NEW o \in Calls, o # c, Step(o) PROVE todo'[c][k] \in {Missing, Untouched}
  <2>1. pc'[c] = pc[c] /\ todo'[c] = todo[c]
    BY <1>0, <1>3
    DEF Step, Return, Refuse, SetKey, Stage, Abandon, Sample, Admit, Clear, ApplyKey, Applied,
        ListKeys, ResumeClear, RemoveOne, Removed, Finish, ReadFirst, Attach, Settle,
        AttachClosed, Detach, Invalidate, Release, CloseStore, callVars
  <2> QED  BY <1>1, <2>1
<1>4. ASSUME Step(c) PROVE todo'[c][k] \in {Missing, Untouched}
  <2>1. ListKeys(c) \/ ResumeClear(c) \/ RemoveOne(c)
    BY <1>0, <1>4
    DEF Step, Return, Refuse, SetKey, Stage, Abandon, Sample, Admit, Clear, ApplyKey, Applied,
        Removed, Finish, ReadFirst, Attach, Settle, AttachClosed, Detach, Invalidate, Release,
        CloseStore
  <2>2. CASE ListKeys(c)
    <3>1. \E ks : todo' = [todo EXCEPT ![c] = Removals(ks)]  BY <2>2 DEF ListKeys
    <3> QED  BY <1>0, <3>1 DEF Removals
  <2>3. CASE ResumeClear(c)
    BY <1>0, <2>3 DEF ResumeClear, OnlyRemovals
  <2>4. CASE RemoveOne(c)
    <3>1. /\ pc[c] = "removing"
          /\ \E j \in Touched(c) : todo' = [todo EXCEPT ![c][j] = Untouched]
      BY <2>4 DEF RemoveOne
    <3>2. todo[c][k] \in {Missing, Untouched}  BY <3>1 DEF OnlyRemovals
    <3> QED  BY <1>0, <3>1, <3>2 DEF Touched, Writes
  <2> QED  BY <2>1, <2>2, <2>3, <2>4
<1>5. ASSUME \/ \E p \in Threads : Telling(p)
             \/ Delivery
             \/ \E j \in Keys : Expire(j) \/ Sweep(j)
             \/ Done \/ UNCHANGED vars
      PROVE  todo'[c][k] \in {Missing, Untouched}
  <2>1. pc' = pc /\ todo' = todo
    BY <1>5
    DEF Telling, Delivery, Done, vars, callVars, Notify, Visit, Deliver, CallListener, NextChange,
        Expire, Sweep
  <2> QED  BY <1>1, <2>1
<1> QED  BY <1>2, <1>3, <1>4, <1>5 DEF Next

LEMMA StepTellEmpty == Typed /\ TellEmpty /\ [Next]_vars => TellEmpty'
<1> SUFFICES ASSUME Typed, TellEmpty, [Next]_vars PROVE TellEmpty'  OBVIOUS
<1>0. TypeOK /\ Sweeper \notin Calls /\ Calls \subseteq Threads
  BY KVClientAssumption DEF KVClientAssumption, Typed, Threads
<1> USE DEF TypeOfCalls, TypeOfNotes
<1>1. ASSUME tell' = tell,
             \A o \in Calls : pc'[o] \in {"planned", "put"} => pc[o] \in {"planned", "put"}
      PROVE  TellEmpty'
  BY <1>1 DEF TellEmpty
<1>2. ASSUME NEW o \in Calls, Issue(o) PROVE TellEmpty'
  <2>1. pc' = [pc EXCEPT ![o] = Begin(o)] /\ pc[o] = "planned" /\ tell' = tell
    BY <1>2 DEF Issue, noteVars
  <2> HIDE DEF Begin
  <2> QED  BY <1>0, <1>1, <2>1 DEF TypeOK
<1>3. ASSUME NEW o \in Calls, Step(o) PROVE TellEmpty'
  <2>1. \A c \in Calls : pc'[c] \in {"planned", "put"} => pc'[c] = pc[c]
    BY <1>0, <1>3
    DEF Step, TypeOK, Return, Refuse, SetKey, Stage, Abandon, Sample, Admit, Clear, ApplyKey,
        Applied, ListKeys, ResumeClear, RemoveOne, Removed, Finish, ReadFirst, Attach, Settle,
        AttachClosed, Detach, Invalidate, Release, CloseStore
  <2>2. pc'[o] \notin {"planned", "put"}
    BY <1>0, <1>3
    DEF Step, TypeOK, Return, Refuse, SetKey, Stage, Abandon, Sample, Admit, Clear, ApplyKey,
        Applied, ListKeys, ResumeClear, RemoveOne, Removed, Finish, ReadFirst, Attach, Settle,
        AttachClosed, Detach, Invalidate, Release, CloseStore
  <2>3. \A c \in Calls \ {o} : tell'[c] = tell[c]
    BY <1>0, <1>3
    DEF Step, TypeOK, Refuse, SetKey, Stage, Abandon, Sample, Admit, Clear, ApplyKey,
        Applied, ListKeys, ResumeClear, RemoveOne, Removed, Finish, ReadFirst, Attach, Settle,
        AttachClosed, Detach, Invalidate, Release, CloseStore, noteVars
  <2> QED  BY <2>1, <2>2, <2>3 DEF TellEmpty
<1>4. ASSUME \/ \E p \in Threads : Telling(p)
             \/ Delivery
             \/ \E k \in Keys : Expire(k) \/ Sweep(k)
             \/ Done \/ UNCHANGED vars
      PROVE  TellEmpty'
  <2>1. pc' = pc
    BY <1>4
    DEF Telling, Delivery, Done, vars, callVars, Notify, Visit, Deliver, CallListener, NextChange,
        Expire, Sweep
  <2>2. \A c \in Calls : tell'[c] \subseteq tell[c]
    <3>1. ASSUME NEW p \in Threads, Notify(p) PROVE \A c \in Calls : tell'[c] \subseteq tell[c]
      BY <1>0, <3>1 DEF TypeOK, Notify
    <3>2. ASSUME NEW k \in Keys, Sweep(k) PROVE \A c \in Calls : tell'[c] = tell[c]
      BY <1>0, <3>2 DEF TypeOK, Sweep
    <3>3. CASE \/ \E p \in Threads : Visit(p)
               \/ Delivery
               \/ \E k \in Keys : Expire(k)
               \/ Done \/ UNCHANGED vars
      <4>1. tell' = tell
        BY <3>3
        DEF Delivery, Done, vars, noteVars, Visit, Deliver, CallListener, NextChange, Expire
      <4> QED  BY <4>1
    <3> QED  BY <1>4, <3>1, <3>2, <3>3 DEF Telling
  <2> QED  BY <2>1, <2>2 DEF TellEmpty
<1> QED  BY <1>2, <1>3, <1>4 DEF Next

-----------------------------------------------------------------------------
(***************************************************************************)
(* No change is lost: wherever a change of a key is, the next step leaves  *)
(* it there or moves it on, until the subscriber reads the key.            *)
(***************************************************************************)
Kept(s, k) == shown[s][k] = Visible(k) \/ OnItsWay(s, k)

LEMMA StillKept ==
    ASSUME NEW s \in Subs, NEW k \in Keys, Kept(s, k),
           \/ shown'[s][k] = shown[s][k] /\ Visible(k)' = Visible(k)
           \/ OnItsWay(s, k)',
           OnItsWay(s, k) => OnItsWay(s, k)'
    PROVE  Kept(s, k)'
BY DEF Kept

LEMMA ShowShows ==
    ASSUME TypeOK, NEW s \in Subs, NEW ks, Show(s, ks), NEW other \in Subs, NEW k \in Keys
    PROVE  IF other = s /\ k \in ks THEN shown'[other][k] = Visible(k)
           ELSE /\ shown'[other][k] = shown[other][k]
                /\ k \in unheard[other] => k \in unheard'[other]
BY DEF Show, Reread, TypeOK, TypeOfSubs, TypeOfGhosts

\* A step that only writes and tells.
LEMMA WriteKeeps ==
    ASSUME NEW s \in Subs, NEW k \in Keys, Kept(s, k),
           visit' = visit, pending' = pending, frame' = frame, shown' = shown,
           Told(k) => Told(k)',
           Told(k)' \/ (Visible(k)' = Visible(k) /\ (InStore(k) => InStore(k)'))
    PROVE  Kept(s, k)'
<1>1. OnItsWay(s, k) => OnItsWay(s, k)'  BY DEF OnItsWay, Visiting, Queued, InFrame
<1>2. Told(k)' => OnItsWay(s, k)'  BY DEF OnItsWay
<1> QED  BY <1>1, <1>2, StillKept

\* A step that reads, or moves somebody else.
LEMMA ReadKeeps ==
    ASSUME NEW s \in Subs, NEW k \in Keys, Kept(s, k),
           UNCHANGED <<slot, storeClosed, hasSweeper, tell>>, shown'[s][k] = shown[s][k],
           Visiting(k, SubView[s]) => Visiting(k, SubView[s])',
           Queued(k, SubView[s]) => Queued(k, SubView[s])',
           InFrame(k, s) => InFrame(k, s)'
    PROVE  Kept(s, k)'
<1>1. Visible(k)' = Visible(k)  BY DEF Visible
<1>2. OnItsWay(s, k) => OnItsWay(s, k)'  BY DEF OnItsWay, InStore, Swept, Told
<1> QED  BY <1>1, <1>2, StillKept

LEMMA HearsWatched ==
    ASSUME NEW s \in Subs, NEW k \in Watched(s), NEW c \in Concerns(k)
    PROVE  Hears(s, c)
BY KVClientAssumption DEF KVClientAssumption, Watched, Scope, Concerns, Hears

LEMMA NotifyKeeps ==
    ASSUME Typed, NEW s \in Subs, NEW k \in Keys, Kept(s, k), native[SubView[s]],
           NEW p \in Threads, Notify(p)
    PROVE  Kept(s, k)'
<1> USE DEF Typed, TypeOK, TypeOfNotes
<1>0. SubView[s] \in Views  BY KVClientAssumption DEF KVClientAssumption
<1>1. PICK c \in tell[p] :
         /\ tell' = [tell EXCEPT ![p] = @ \ {c}]
         /\ visit' = [visit EXCEPT ![p] = @ \cup {<<c, v>> : v \in {w \in Views : native[w]}}]
  BY DEF Notify
<1>2. UNCHANGED <<slot, storeClosed, hasSweeper, pending, frame, shown>>
  BY DEF Notify, storeVars, boxVars, subVars, jsVars
<1>3. Visiting(k, SubView[s]) => Visiting(k, SubView[s])'
  <2>1. \A q \in Threads : visit[q] \subseteq visit'[q]  BY <1>1
  <2> QED  BY <2>1 DEF Visiting
<1>4. Told(k) => Told(k)' \/ Visiting(k, SubView[s])'
  <2> SUFFICES ASSUME NEW q \in Threads, NEW d \in Concerns(k), d \in tell[q]
               PROVE  Told(k)' \/ Visiting(k, SubView[s])'
    BY DEF Told
  <2>1. CASE q = p /\ d = c
    <3>1. <<d, SubView[s]>> \in visit'[p]  BY <1>0, <1>1, <2>1
    <3> QED  BY <3>1 DEF Visiting
  <2>2. CASE ~(q = p /\ d = c)
    <3>1. d \in tell'[q]  BY <1>1, <2>2
    <3> QED  BY <3>1 DEF Told
  <2> QED  BY <2>1, <2>2
<1>5. Visible(k)' = Visible(k) /\ (InStore(k) => InStore(k)')  BY <1>2 DEF Visible, InStore, Swept
<1>6. /\ Queued(k, SubView[s]) => Queued(k, SubView[s])'
      /\ InFrame(k, s) => InFrame(k, s)'
  BY <1>2 DEF Queued, InFrame
<1>7. OnItsWay(s, k) => OnItsWay(s, k)'  BY <1>3, <1>4, <1>5, <1>6 DEF OnItsWay
<1> QED  BY <1>2, <1>5, <1>7, StillKept

LEMMA VisitKeeps ==
    ASSUME Typed, NEW s \in Subs, NEW k \in Keys, Kept(s, k), NEW p \in Threads, Visit(p)
    PROVE  Kept(s, k)'
<1> USE DEF Typed, TypeOK, TypeOfNotes, TypeOfBoxes
<1> DEFINE w == SubView[s]
<1>0. w \in Views  BY KVClientAssumption DEF KVClientAssumption
<1>1. PICK c \in Changes, v \in Views :
         /\ <<c, v>> \in visit[p]
         /\ visit' = [visit EXCEPT ![p] = @ \ {<<c, v>>}]
         /\ pending' = [pending EXCEPT ![v] = Append(@, c)]
  BY DEF Visit
<1>2. UNCHANGED <<slot, storeClosed, hasSweeper, tell, frame, shown>>
  BY DEF Visit, storeVars, subVars, jsVars
<1>3. Queued(k, w) => Queued(k, w)'
  <2>1. CASE v # w  BY <1>0, <1>1, <2>1 DEF Queued
  <2>2. CASE v = w
    <3>1. /\ pending[w] \in Seq(Changes) /\ Len(pending'[w]) = Len(pending[w]) + 1
          /\ \A i \in 1..Len(pending[w]) : pending'[w][i] = pending[w][i]
      BY <1>0, <1>1, <2>2
    <3>2. 1..Len(pending[w]) \subseteq 1..Len(pending'[w])  BY <3>1
    <3> HIDE DEF w
    <3>3. ASSUME NEW i \in 1..Len(pending[w]), pending[w][i] \in Concerns(k)
          PROVE  i \in 1..Len(pending'[w]) /\ pending'[w][i] \in Concerns(k)
      BY <3>1, <3>2, <3>3
    <3> QED  BY <3>3 DEF Queued, w, Concerns
  <2> QED  BY <2>1, <2>2
<1>4. Visiting(k, w) => Visiting(k, w)' \/ Queued(k, w)'
  <2> SUFFICES ASSUME NEW q \in Threads, NEW d \in Concerns(k), <<d, w>> \in visit[q]
               PROVE  Visiting(k, w)' \/ Queued(k, w)'
    BY DEF Visiting
  <2>1. CASE q = p /\ d = c /\ w = v
    <3>1. /\ pending[w] \in Seq(Changes) /\ Len(pending'[w]) = Len(pending[w]) + 1
          /\ pending'[w][Len(pending[w]) + 1] = d
      BY <1>0, <1>1, <2>1
    <3>2. Len(pending[w]) + 1 \in 1..Len(pending'[w])  BY <3>1
    <3> HIDE DEF w
    <3>3. \E i \in 1..Len(pending'[w]) : pending'[w][i] \in Concerns(k)  BY <3>1, <3>2
    <3> QED  BY <3>3 DEF Queued, w, Concerns
  <2>2. CASE ~(q = p /\ d = c /\ w = v)
    <3>1. <<d, w>> \in visit'[q]  BY <1>1, <2>2
    <3> QED  BY <3>1 DEF Visiting
  <2> QED  BY <2>1, <2>2
<1>5. /\ Visible(k)' = Visible(k) /\ (InStore(k) => InStore(k)') /\ (Told(k) => Told(k)')
      /\ InFrame(k, s) => InFrame(k, s)'
  BY <1>2 DEF Visible, InStore, Swept, Told, InFrame
<1>6. OnItsWay(s, k) => OnItsWay(s, k)'  BY <1>3, <1>4, <1>5 DEF OnItsWay
<1> QED  BY <1>2, <1>5, <1>6, StillKept

LEMMA DeliverKeeps ==
    ASSUME Typed, NEW s \in Subs, NEW k \in Keys, Kept(s, k), native[SubView[s]],
           NEW v \in Views, Deliver(v)
    PROVE  Kept(s, k)'
<1> USE DEF Typed, TypeOK, TypeOfBoxes
<1> DEFINE w == SubView[s]
<1>0. w \in Views /\ w # Nobody  BY KVClientAssumption DEF KVClientAssumption
<1>1. /\ pending' = [pending EXCEPT ![v] = <<>>] /\ frame = NoFrame
      /\ frame' = IF native[v] /\ pending[v] # <<>>
                  THEN [view |-> v, rest |-> pending[v], called |-> {}] ELSE NoFrame
      /\ UNCHANGED <<slot, storeClosed, hasSweeper, tell, visit, shown>>
  BY DEF Deliver, storeVars, noteVars, subVars
<1>2. ~InFrame(k, s)  BY <1>0, <1>1 DEF InFrame, NoFrame
<1>3. Queued(k, w) => Queued(k, w)' \/ InFrame(k, s)'
  <2>1. CASE v # w  BY <1>0, <1>1, <2>1 DEF Queued
  <2>2. CASE v = w
    <3> SUFFICES ASSUME NEW i \in 1..Len(pending[w]), pending[w][i] \in Concerns(k)
                 PROVE  InFrame(k, s)'
      BY DEF Queued
    <3>1. pending[v] # <<>>  BY <1>0, <2>2
    <3>2. frame' = [view |-> w, rest |-> pending[w], called |-> {}]  BY <1>1, <2>2, <3>1
    <3> QED  BY <3>2 DEF InFrame, Concerns
  <2> QED  BY <2>1, <2>2
<1>4. /\ Visible(k)' = Visible(k) /\ (InStore(k) => InStore(k)') /\ (Told(k) => Told(k)')
      /\ Visiting(k, w) => Visiting(k, w)'
  BY <1>1 DEF Visible, InStore, Swept, Told, Visiting
<1>5. OnItsWay(s, k) => OnItsWay(s, k)'  BY <1>2, <1>3, <1>4 DEF OnItsWay
<1> QED  BY <1>1, <1>4, <1>5, StillKept

LEMMA NextChangeKeeps ==
    ASSUME Typed, NEW s \in Subs, NEW k \in Watched(s), k \in Keys, Kept(s, k),
           phase[s] = "on", NextChange
    PROVE  Kept(s, k)'
<1> USE DEF Typed, TypeOK, TypeOfJs
<1>1. /\ frame # NoFrame /\ ToCall = {}
      /\ frame' = IF Tail(frame.rest) = <<>> THEN NoFrame
                  ELSE [frame EXCEPT !.rest = Tail(@), !.called = {}]
      /\ UNCHANGED <<slot, storeClosed, hasSweeper, tell, visit, pending, shown>>
  BY DEF NextChange, storeVars, noteVars, boxVars, subVars
<1>2. frame.rest \in Seq(Changes) /\ frame.rest # <<>>  BY <1>1 DEF FrameOK
<1>3. InFrame(k, s) => InFrame(k, s)'
  <2> SUFFICES ASSUME frame.view = SubView[s], NEW i \in 1..Len(frame.rest),
                      frame.rest[i] \in Concerns(k), i = 1 => s \notin frame.called
               PROVE  InFrame(k, s)'
    BY DEF InFrame
  <2>1. i # 1
    <3> SUFFICES ASSUME i = 1 PROVE FALSE  OBVIOUS
    <3>1. Hears(s, Head(frame.rest))  BY <1>2, HearsWatched
    <3>2. s \in ToCall  BY <3>1 DEF ToCall, Entries, Listening
    <3> QED  BY <1>1, <3>2
  <2>2. /\ Tail(frame.rest) \in Seq(Changes) /\ Len(Tail(frame.rest)) = Len(frame.rest) - 1
        /\ i - 1 \in 1..Len(Tail(frame.rest)) /\ Tail(frame.rest)[i - 1] = frame.rest[i]
    BY <1>2, <2>1
  <2>3. Tail(frame.rest) # <<>>
    <3> SUFFICES ASSUME Tail(frame.rest) = <<>> PROVE FALSE  OBVIOUS
    <3>1. i - 1 \in 1..0  BY <2>2
    <3> QED  BY <3>1
  <2>4. /\ frame'.view = frame.view /\ frame'.rest = Tail(frame.rest) /\ frame'.called = {}
    BY <1>1, <2>3
  <2> QED  BY <2>2, <2>4 DEF InFrame
<1>4. /\ Visiting(k, SubView[s]) => Visiting(k, SubView[s])'
      /\ Queued(k, SubView[s]) => Queued(k, SubView[s])'
  BY <1>1 DEF Visiting, Queued
<1> QED  BY <1>1, <1>3, <1>4, ReadKeeps

LEMMA CallListenerKeeps ==
    ASSUME Typed, NEW s \in Subs, NEW k \in Watched(s), k \in Keys,
           k \notin unheard[s] => Kept(s, k), k \notin unheard'[s],
           NEW other \in Subs, CallListener(other)
    PROVE  Kept(s, k)'
<1> USE DEF Typed, TypeOK, TypeOfJs
<1> DEFINE ks == IF Head(frame.rest) = Null THEN Watched(other)
                 ELSE Watched(other) \cap {Head(frame.rest)}
<1>1. /\ frame # NoFrame /\ Show(other, ks)
      /\ frame' = [frame EXCEPT !.called = @ \cup {other}]
      /\ UNCHANGED <<slot, storeClosed, hasSweeper, tell, visit, pending>>
  BY DEF CallListener, storeVars, noteVars, boxVars
<1>2. frame.rest \in Seq(Changes) /\ frame.rest # <<>>  BY <1>1 DEF FrameOK
<1>3. CASE s = other /\ k \in ks
  BY <1>1, <1>3, ShowShows DEF Kept, Visible
<1>4. CASE ~(s = other /\ k \in ks)
  <2> HIDE DEF ks
  <2>1. shown'[s][k] = shown[s][k] /\ Kept(s, k)  BY <1>1, <1>4, ShowShows
  <2>2. s = other => Head(frame.rest) \notin Concerns(k)  BY <1>4 DEF ks, Concerns
  <2>3. /\ frame'.view = frame.view /\ frame'.rest = frame.rest
        /\ frame'.called = frame.called \cup {other}
    BY <1>1
  <2>4. InFrame(k, s) => InFrame(k, s)'
    <3> SUFFICES ASSUME frame.view = SubView[s], NEW i \in 1..Len(frame.rest),
                        frame.rest[i] \in Concerns(k), i = 1 => s \notin frame.called
                 PROVE  InFrame(k, s)'
      BY DEF InFrame
    <3>1. i = 1 => s # other  BY <1>2, <2>2
    <3> QED  BY <2>3, <3>1 DEF InFrame
  <2>5. /\ Visiting(k, SubView[s]) => Visiting(k, SubView[s])'
        /\ Queued(k, SubView[s]) => Queued(k, SubView[s])'
    BY <1>1 DEF Visiting, Queued
  <2> QED  BY <1>1, <2>1, <2>4, <2>5, ReadKeeps
<1> QED  BY <1>3, <1>4

\* The steps that write: what they change is told, or set down as unheard.
LEMMA WriterKeeps ==
    ASSUME Typed, TellEmpty, NEW s \in Subs, NEW k \in Watched(s), k \in Keys,
           Listening(s), k \notin unheard[s] => Kept(s, k), k \notin unheard'[s],
           NEW o \in Calls, SetKey(o) \/ Clear(o) \/ ApplyKey(o) \/ RemoveOne(o) \/ CloseStore(o)
    PROVE  Kept(s, k)'
<1> USE DEF Typed, TypeOK, TypeOfStore, TypeOfCalls, TypeOfNotes, TypeOfGhosts
<1>0. o \in Threads /\ UNCHANGED <<visit, pending, frame, shown>>
  BY DEF SetKey, Clear, ApplyKey, RemoveOne, CloseStore, noteVars, boxVars, subVars, jsVars,
         Threads
<1>1. CASE SetKey(o)
  <2>1. PICK j \in Touched(o) :
           /\ Put(j, todo[o][j], plan[o].expires)
           /\ tell' = [tell EXCEPT ![o] = IF Changed(j, todo[o][j]) THEN {j} ELSE {}]
    BY <1>1 DEF SetKey
  <2>2. unheard' = unheard /\ UNCHANGED <<storeClosed, hasSweeper>> /\ j \in Keys /\ tell[o] = {}
    BY <1>1, <2>1 DEF SetKey, Touched, TellEmpty
  <2>3. \A p \in Threads : tell[p] \subseteq tell'[p]  BY <2>1, <2>2
  <2>4. Told(k) => Told(k)'  BY <2>3 DEF Told
  <2>5. CASE j = k /\ Changed(j, todo[o][j])
    <3>1. k \in tell'[o]  BY <1>0, <2>1, <2>5
    <3>2. Told(k)'  BY <1>0, <3>1 DEF Told, Concerns
    <3> QED  BY <1>0, <2>2, <2>4, <3>2, WriteKeeps
  <2>6. CASE ~(j = k /\ Changed(j, todo[o][j]))
    <3>1. slot'[k] = slot[k]  BY <2>1, <2>2, <2>6 DEF Put, Changed
    <3> QED  BY <1>0, <2>2, <2>4, <3>1, WriteKeeps DEF Visible, InStore, Swept
  <2> QED  BY <2>5, <2>6
<1>2. CASE Clear(o)
  <2>1. /\ tell' = [tell EXCEPT ![o] = {Null}]
        /\ UNCHANGED <<slot, storeClosed, hasSweeper, unheard>>
    BY <1>2 DEF Clear, storeVars, ghostVars
  <2>2. Told(k)'  BY <1>0, <2>1 DEF Told, Concerns
  <2> QED  BY <1>0, <2>1, <2>2, WriteKeeps
<1>3. CASE ApplyKey(o)
  <2>1. PICK j \in Touched(o) :
           /\ Put(j, todo[o][j], "never")
           /\ tell' = IF collect[o] /\ Null \notin tell[o] /\ Changed(j, todo[o][j])
                      THEN [tell EXCEPT ![o] = @ \cup {j}] ELSE tell
           /\ NobodyHears(IF collect[o] \/ Null \in tell[o] THEN {} ELSE {j})
    BY <1>3 DEF ApplyKey
  <2>2. UNCHANGED <<storeClosed, hasSweeper>> /\ j \in Keys  BY <1>3, <2>1 DEF ApplyKey, Touched
  <2>3. /\ \A p \in Threads : tell[p] \subseteq tell'[p]
        /\ k \notin unheard[s]
        /\ j = k => collect[o] \/ Null \in tell[o]
    BY <2>1, <2>2 DEF NobodyHears
  <2>4. Told(k) => Told(k)'  BY <2>3 DEF Told
  <2>5. CASE j = k /\ Changed(j, todo[o][j])
    <3>1. k \in tell'[o] \/ Null \in tell'[o]  BY <1>0, <2>1, <2>3, <2>5
    <3>2. Told(k)'  BY <1>0, <3>1 DEF Told, Concerns
    <3> QED  BY <1>0, <2>3, <2>4, <3>2, WriteKeeps
  <2>6. CASE ~(j = k /\ Changed(j, todo[o][j]))
    <3>1. slot'[k] = slot[k]  BY <2>1, <2>2, <2>6 DEF Put, Changed
    <3> QED  BY <1>0, <2>2, <2>3, <2>4, <3>1, WriteKeeps DEF Visible, InStore, Swept
  <2> QED  BY <2>5, <2>6
<1>4. CASE RemoveOne(o)
  <2>1. PICK j \in Touched(o) :
           /\ Put(j, Missing, "never")
           /\ tell' = IF Changed(j, Missing) THEN [tell EXCEPT ![o] = @ \cup {j}] ELSE tell
    BY <1>4 DEF RemoveOne
  <2>2. unheard' = unheard /\ UNCHANGED <<storeClosed, hasSweeper>> /\ j \in Keys
    BY <1>4, <2>1 DEF RemoveOne, Touched, ghostVars
  <2>3. \A p \in Threads : tell[p] \subseteq tell'[p]  BY <2>1, <2>2
  <2>4. Told(k) => Told(k)'  BY <2>3 DEF Told
  <2>5. CASE j = k /\ Changed(j, Missing)
    <3>1. k \in tell'[o]  BY <1>0, <2>1, <2>5
    <3>2. Told(k)'  BY <1>0, <3>1 DEF Told, Concerns
    <3> QED  BY <1>0, <2>2, <2>4, <3>2, WriteKeeps
  <2>6. CASE ~(j = k /\ Changed(j, Missing))
    <3>1. slot'[k] = slot[k]  BY <2>1, <2>2, <2>6 DEF Put, Changed
    <3> QED  BY <1>0, <2>2, <2>4, <3>1, WriteKeeps DEF Visible, InStore, Swept
  <2> QED  BY <2>5, <2>6
<1>5. CASE CloseStore(o)
  <2>1. /\ NobodyHears({j \in Keys : slot[j].expires = "past"})
        /\ UNCHANGED <<slot, tell>>
    BY <1>5 DEF CloseStore, noteVars
  <2>2. k \notin unheard[s] /\ ~InStore(k)  BY <2>1 DEF NobodyHears, InStore, Swept
  <2>3. Told(k) => Told(k)'  BY <2>1 DEF Told
  <2> QED  BY <1>0, <2>1, <2>2, <2>3, WriteKeeps DEF Visible
<1> QED  BY <1>1, <1>2, <1>3, <1>4, <1>5

LEMMA ClockKeeps ==
    ASSUME Typed, NEW s \in Subs, NEW k \in Watched(s), k \in Keys,
           Listening(s), k \notin unheard[s] => Kept(s, k), k \notin unheard'[s],
           NEW j \in Keys, Expire(j) \/ Sweep(j)
    PROVE  Kept(s, k)'
<1> USE DEF Typed, TypeOK, TypeOfStore, TypeOfNotes, TypeOfGhosts
<1>0. UNCHANGED <<visit, pending, frame, shown, storeClosed, hasSweeper>>
  BY DEF Expire, Sweep, noteVars, boxVars, subVars, jsVars
<1>1. CASE Expire(j)
  <2>1. /\ slot' = [slot EXCEPT ![j].expires = "past"]
        /\ NobodyHears(IF Swept THEN {} ELSE {j}) /\ tell' = tell
    BY <1>1 DEF Expire, noteVars
  <2>2. k \notin unheard[s] /\ (j = k => Swept)  BY <2>1 DEF NobodyHears
  <2>3. Told(k) => Told(k)'  BY <2>1 DEF Told
  <2>4. CASE j = k
    <3>1. InStore(k)'  BY <1>0, <2>1, <2>2, <2>4 DEF InStore, Swept, Slots
    <3> QED  BY <3>1 DEF Kept, OnItsWay
  <2>5. CASE j # k
    <3>1. slot'[k] = slot[k]  BY <2>1, <2>5
    <3> QED  BY <1>0, <2>2, <2>3, <3>1, WriteKeeps DEF Visible, InStore, Swept
  <2> QED  BY <2>4, <2>5
<1>2. CASE Sweep(j)
  <2>1. /\ slot' = [slot EXCEPT ![j] = Absent]
        /\ tell' = [tell EXCEPT ![Sweeper] = @ \cup {j}]
        /\ unheard' = unheard
    BY <1>2 DEF Sweep, ghostVars
  <2>2. Sweeper \in Threads  BY DEF Threads
  <2>3. \A p \in Threads : tell[p] \subseteq tell'[p]  BY <2>1, <2>2
  <2>4. Told(k) => Told(k)'  BY <2>3 DEF Told
  <2>5. CASE j = k
    <3>1. k \in tell'[Sweeper]  BY <2>1, <2>2, <2>5
    <3>2. Told(k)'  BY <2>2, <3>1 DEF Told, Concerns
    <3> QED  BY <1>0, <2>1, <2>4, <3>2, WriteKeeps
  <2>6. CASE j # k
    <3>1. slot'[k] = slot[k]  BY <2>1, <2>6
    <3> QED  BY <1>0, <2>1, <2>4, <3>1, WriteKeeps DEF Visible, InStore, Swept
  <2> QED  BY <2>5, <2>6
<1> QED  BY <1>1, <1>2

\* The steps of subscribers: of s itself, or of others.
LEMMA AttachKeeps ==
    ASSUME Typed, NEW s \in Subs, NEW k \in Watched(s), k \in Keys, phase'[s] = "on",
           k \notin unheard'[s], phase[s] = "on" /\ k \notin unheard[s] => Kept(s, k),
           NEW o \in Calls, Attach(o), phase[plan[o].sub] # "on"
    PROVE  Kept(s, k)'
<1> USE DEF Typed, TypeOK, TypeOfSubs, TypeOfNotes, TypeOfGhosts, TypeOfJs
<1> DEFINE S == plan[o].sub
<1>0. /\ S \in Subs /\ SubView[S] \in Views /\ SubView[s] \in Views
      /\ SubView[s] # Nobody
  BY SubTyped, KVClientAssumption DEF KVClientAssumption
<1>1. /\ UNCHANGED <<slot, storeClosed, hasSweeper, tell, pending>>
      /\ \/ phase' = [phase EXCEPT ![S] = "attached"] /\ SubKind[S] \in {"hook", "observer"}
         \/ phase' = [phase EXCEPT ![S] = "on"] /\ SubKind[S] \notin {"hook", "observer"}
  BY DEF Attach, storeVars
<1>2. CASE s = S
  <2>1. SubKind[s] \in {"atom", "listener"}
    BY <1>0, <1>1, <1>2, KVClientAssumption DEF KVClientAssumption, SubKinds
  <2>2. CASE SubKind[s] = "atom"
    <3>1. shown' = shown /\ unheard' = [unheard EXCEPT ![s] =
                {j \in Watched(s) : shown[s][j] # Visible(j)}]
      BY <1>2, <2>2 DEF Attach
    <3>2. shown[s][k] = Visible(k)  BY <3>1
    <3> QED  BY <1>1, <3>1, <3>2 DEF Kept, Visible
  <2>3. CASE SubKind[s] = "listener"
    <3>1. Show(s, Watched(s))  BY <1>2, <2>3 DEF Attach
    <3>2. shown'[s][k] = Visible(k)  BY <3>1, ShowShows
    <3> QED  BY <1>1, <3>2 DEF Kept, Visible
  <2> QED  BY <2>1, <2>2, <2>3
<1>3. CASE s # S
  <2>1. phase[s] = "on"  BY <1>0, <1>1, <1>3
  <2>2. shown'[s] = shown[s] /\ unheard'[s] = unheard[s]
    BY <1>0, <1>3 DEF Attach, Show
  <2>3. \A p \in Threads : visit[p] \subseteq visit'[p]  BY DEF Attach
  <2>4. Visiting(k, SubView[s]) => Visiting(k, SubView[s])'  BY <2>3 DEF Visiting
  <2>5. Queued(k, SubView[s]) => Queued(k, SubView[s])'  BY <1>1 DEF Queued
  <2>6. /\ frame'.view = frame.view /\ frame'.rest = frame.rest
        /\ s \in frame'.called <=> s \in frame.called
    BY <1>3 DEF Attach
  <2>7. InFrame(k, s) => InFrame(k, s)'  BY <2>6 DEF InFrame
  <2> QED  BY <1>1, <2>1, <2>2, <2>4, <2>5, <2>7, ReadKeeps
<1> QED  BY <1>2, <1>3

LEMMA DropKeeps ==
    ASSUME Typed, NEW s \in Subs, NEW k \in Keys, Kept(s, k), NEW vs, SubView[s] \notin vs,
           DropNative(vs), UNCHANGED <<slot, storeClosed, hasSweeper, tell, frame>>,
           shown'[s] = shown[s]
    PROVE  Kept(s, k)'
<1> USE DEF Typed, TypeOK, TypeOfNotes, TypeOfBoxes
<1>0. SubView[s] \in Views  BY KVClientAssumption DEF KVClientAssumption
<1>1. pending'[SubView[s]] = pending[SubView[s]]  BY <1>0 DEF DropNative
<1>2. \A p \in Threads : \A c : <<c, SubView[s]>> \in visit[p] => <<c, SubView[s]>> \in visit'[p]
  BY DEF DropNative
<1>3. Visiting(k, SubView[s]) => Visiting(k, SubView[s])'  BY <1>2 DEF Visiting
<1>4. Queued(k, SubView[s]) => Queued(k, SubView[s])'  BY <1>1 DEF Queued
<1>5. InFrame(k, s) => InFrame(k, s)'  BY DEF InFrame
<1> QED  BY <1>3, <1>4, <1>5, ReadKeeps

LEMMA SubscriberKeeps ==
    ASSUME Typed, Held, NEW s \in Subs, NEW k \in Watched(s), k \in Keys, phase'[s] = "on",
           k \notin unheard'[s], phase[s] = "on" /\ k \notin unheard[s] => Kept(s, k),
           NEW o \in Calls,
           \/ ReadFirst(o) \/ Settle(o) \/ AttachClosed(o) \/ Detach(o) \/ Invalidate(o)
           \/ Release(o)
    PROVE  Kept(s, k)'
<1> USE DEF Typed, TypeOK, TypeOfSubs, TypeOfNotes, TypeOfBoxes, TypeOfGhosts
<1> DEFINE S == plan[o].sub
<1>0. /\ S \in Subs /\ SubView[S] \in Views /\ SubView[s] \in Views
  BY SubTyped, KVClientAssumption DEF KVClientAssumption
<1>1. UNCHANGED <<slot, storeClosed, hasSweeper, tell, frame>>
  BY DEF ReadFirst, Settle, AttachClosed, Detach, Invalidate, Release, storeVars, noteVars, jsVars
<1>2. ASSUME shown'[s][k] = Visible(k) PROVE Kept(s, k)'
  BY <1>1, <1>2 DEF Kept, Visible
<1>3. ASSUME Kept(s, k), shown'[s][k] = shown[s][k], visit' = visit, pending' = pending
      PROVE  Kept(s, k)'
  BY <1>1, <1>3, ReadKeeps DEF Visiting, Queued, InFrame
<1>4. CASE ReadFirst(o) \/ AttachClosed(o)
  <2>1. s # S /\ phase' = [phase EXCEPT ![S] = phase'[S]]
    BY <1>0, <1>4 DEF ReadFirst, AttachClosed
  <2>2. phase[s] = "on" /\ shown'[s] = shown[s] /\ UNCHANGED <<visit, pending, unheard>>
    BY <1>0, <1>4, <2>1 DEF ReadFirst, AttachClosed, noteVars, boxVars, ghostVars
  <2> QED  BY <1>3, <2>2
<1>5. CASE Settle(o)
  <2>1. /\ Show(S, Watched(S)) /\ phase' = [phase EXCEPT ![S] = "on"]
        /\ UNCHANGED <<visit, pending>>
    BY <1>5 DEF Settle, noteVars, boxVars
  <2>2. CASE s = S  BY <1>0, <1>2, <2>1, <2>2, ShowShows
  <2>3. CASE s # S
    <3>1. phase[s] = "on"  BY <1>0, <2>1, <2>3
    <3>2. shown'[s][k] = shown[s][k] /\ k \notin unheard[s]
      BY <1>0, <2>1, <2>3, ShowShows
    <3> QED  BY <1>3, <2>1, <3>1, <3>2
  <2> QED  BY <2>2, <2>3
<1>6. CASE Invalidate(o)
  <2>1. UNCHANGED <<visit, pending, phase>>  BY <1>6 DEF Invalidate, noteVars, boxVars
  <2>2. CASE phase[S] = "on"
    <3>1. Show(S, Watched(S))  BY <1>6, <2>2 DEF Invalidate
    <3>2. CASE s = S  BY <1>0, <1>2, <3>1, <3>2, ShowShows
    <3>3. CASE s # S
      <4>1. shown'[s][k] = shown[s][k] /\ k \notin unheard[s]
        BY <1>0, <3>1, <3>3, ShowShows
      <4> QED  BY <1>3, <2>1, <4>1
    <3> QED  BY <3>2, <3>3
  <2>3. CASE phase[S] # "on"
    BY <1>3, <1>6, <2>1, <2>3 DEF Invalidate
  <2> QED  BY <2>2, <2>3
<1>7. CASE Detach(o)
  <2>1. CASE ~Listening(S)
    BY <1>3, <1>7, <2>1 DEF Detach
  <2>2. CASE Listening(S)
    <3> DEFINE vs == IF Entries(SubView[S]) = {S} THEN {SubView[S]} ELSE {}
    <3>1. /\ phase' = [phase EXCEPT ![S] = "off"]
          /\ shown' = [shown EXCEPT ![S] = Blank]
          /\ unheard' = [unheard EXCEPT ![S] = {}]
          /\ DropNative(vs)
      BY <1>7, <2>2 DEF Detach
    <3>2. s # S  BY <1>0, <3>1
    <3>3. phase[s] = "on" /\ k \notin unheard[s] /\ shown'[s] = shown[s]
      BY <1>0, <3>1, <3>2
    <3>4. SubView[s] \notin vs
      <4>1. s \in Entries(SubView[s])  BY <3>3 DEF Entries, Listening
      <4> QED  BY <3>2, <4>1
    <3> HIDE DEF vs
    <3> QED  BY <1>1, <3>1, <3>3, <3>4, DropKeeps
  <2> QED  BY <2>1, <2>2
<1>8. CASE Release(o)
  <2>1. CASE plan[o].view # Root \/ closed
    BY <1>3, <1>8, <2>1 DEF Release
  <2>2. CASE ~(plan[o].view # Root \/ closed)
    <3>1. /\ DropNative({Root})
          /\ phase' = [x \in Subs |-> IF x \in Entries(Root) THEN "off" ELSE phase[x]]
          /\ shown' = [x \in Subs |-> IF x \in Entries(Root) THEN Blank ELSE shown[x]]
          /\ unheard' = [x \in Subs |-> IF x \in Entries(Root) THEN {} ELSE unheard[x]]
      BY <1>8, <2>2 DEF Release
    <3>2. s \notin Entries(Root) /\ phase[s] = "on"  BY <3>1
    <3>3. SubView[s] \notin {Root}  BY <3>2 DEF Entries, Listening
    <3>4. k \notin unheard[s] /\ shown'[s] = shown[s]  BY <3>1, <3>2
    <3> QED  BY <1>1, <3>1, <3>2, <3>3, <3>4, DropKeeps
  <2> QED  BY <2>1, <2>2
<1> QED  BY <1>4, <1>5, <1>6, <1>7, <1>8

LEMMA StepNoChangeLost ==
    Typed /\ Held /\ Linked /\ TellEmpty /\ NoChangeLost /\ [Next]_vars => NoChangeLost'
<1> SUFFICES ASSUME Typed, Held, Linked, TellEmpty, NoChangeLost, [Next]_vars,
                    NEW s \in Subs, phase'[s] = "on",
                    NEW k \in Watched(s), k \notin unheard'[s]
             PROVE  Kept(s, k)'
  BY DEF NoChangeLost, Kept, Watched
<1>0. TypeOK /\ k \in Keys /\ SubView[s] \in Views
  BY WatchedKeys, KVClientAssumption DEF KVClientAssumption, Typed
<1>1. phase[s] = "on" /\ k \notin unheard[s] => Kept(s, k)
  BY DEF NoChangeLost, Kept
<1>2. phase[s] = "on" => native[SubView[s]]
  BY <1>0 DEF Linked, NativeWhileNeeded, Entries, Listening
<1>3. phase[s] = "on" => Listening(s)  BY DEF Listening
<1>4. ASSUME UNCHANGED <<slot, storeClosed, hasSweeper, tell, visit, pending, frame, shown,
                         phase, unheard>>
      PROVE  Kept(s, k)'
  BY <1>1, <1>4
  DEF Kept, Visible, OnItsWay, InStore, Swept, Told, Visiting, Queued, InFrame
<1>5. ASSUME NEW o \in Calls, Issue(o) PROVE Kept(s, k)'
  BY <1>4, <1>5 DEF Issue, storeVars, noteVars, boxVars, subVars
<1>6. ASSUME NEW o \in Calls, Step(o) PROVE Kept(s, k)'
  <2>1. CASE \/ Refuse(o) \/ Stage(o) \/ Abandon(o) \/ Sample(o) \/ Admit(o) \/ Applied(o)
             \/ ListKeys(o) \/ ResumeClear(o) \/ Removed(o) \/ Finish(o)
    <3>1. UNCHANGED <<slot, storeClosed, hasSweeper, tell, visit, pending, frame, shown, phase,
                      unheard>>
      BY <2>1
      DEF Refuse, Stage, Abandon, Sample, Admit, Applied, ListKeys, ResumeClear, Removed, Finish,
          storeVars, noteVars, boxVars, subVars, jsVars, ghostVars
    <3> QED  BY <3>1, <1>4
  <2>2. CASE SetKey(o) \/ Clear(o) \/ ApplyKey(o) \/ RemoveOne(o) \/ CloseStore(o)
    <3>1. phase' = phase
      BY <2>2 DEF SetKey, Clear, ApplyKey, RemoveOne, CloseStore, subVars
    <3> QED  BY <1>0, <1>1, <1>3, <2>2, <3>1, WriterKeeps
  <2>3. CASE Attach(o)
    <3>1. phase[plan[o].sub] # "on"  BY <2>3 DEF Attach, Held, PhaseAt
    <3> QED  BY <1>0, <1>1, <2>3, <3>1, AttachKeeps
  <2>4. CASE \/ ReadFirst(o) \/ Settle(o) \/ AttachClosed(o) \/ Detach(o) \/ Invalidate(o)
             \/ Release(o)
    BY <1>0, <1>1, <2>4, SubscriberKeeps
  <2> QED  BY <1>6, <2>1, <2>2, <2>3, <2>4 DEF Step
<1>7. ASSUME NEW p \in Threads, Telling(p) PROVE Kept(s, k)'
  <2>1. phase' = phase /\ unheard' = unheard
    BY <1>7 DEF Telling, Notify, Visit, subVars, ghostVars
  <2> QED  BY <1>0, <1>1, <1>2, <1>7, <2>1, NotifyKeeps, VisitKeeps DEF Telling
<1>8. CASE Delivery
  <2>1. phase' = phase
    BY <1>8 DEF Delivery, Deliver, CallListener, NextChange, subVars
  <2>2. ASSUME NEW v \in Views, Deliver(v) PROVE Kept(s, k)'
    BY <1>0, <1>1, <1>2, <2>1, <2>2, DeliverKeeps DEF Deliver, ghostVars
  <2>3. ASSUME NEW other \in Subs, CallListener(other) PROVE Kept(s, k)'
    BY <1>0, <1>1, <2>1, <2>3, CallListenerKeeps
  <2>4. ASSUME NextChange PROVE Kept(s, k)'
    BY <1>0, <1>1, <2>1, <2>4, NextChangeKeeps DEF NextChange, ghostVars
  <2> QED  BY <1>8, <2>2, <2>3, <2>4 DEF Delivery
<1>9. ASSUME NEW j \in Keys, Expire(j) \/ Sweep(j) PROVE Kept(s, k)'
  <2>1. phase' = phase  BY <1>9 DEF Expire, Sweep, subVars
  <2> QED  BY <1>0, <1>1, <1>3, <1>9, <2>1, ClockKeeps
<1>10. CASE Done \/ UNCHANGED vars
  BY <1>4, <1>10 DEF Done, vars, storeVars, noteVars, boxVars, subVars, jsVars, ghostVars
<1> QED  BY <1>5, <1>6, <1>7, <1>8, <1>9, <1>10 DEF Next

-----------------------------------------------------------------------------
(***************************************************************************)
(* clearAllAsync of a namespace: the keys it has found are gone, to be     *)
(* removed by it, or written since it was called.                          *)
(***************************************************************************)
ClearPath ==
    \A o \in Calls : plan[o].kind = "clearPrefixAsync" =>
        pc[o] \in {"planned", "list", "listed", "removing", "notify", "done", "failed"}

Cleared(o, k) == Visible(k) = Missing \/ k \in rewritten[o]

ClearCovers ==
    \A o \in Calls : plan[o].kind = "clearPrefixAsync" =>
        \A k \in Scope(plan[o].view) :
            /\ pc[o] \in {"listed", "removing"} => k \in Touched(o) \/ Cleared(o, k)
            /\ pc[o] = "notify" => Cleared(o, k)

Clearing == ClearPath /\ ClearCovers

LEMMA StepClearPath == Typed /\ ClearPath /\ [Next]_vars => ClearPath'
<1> SUFFICES ASSUME Typed, ClearPath, [Next]_vars, NEW c \in Calls,
                    plan[c].kind = "clearPrefixAsync"
             PROVE  pc'[c] \in {"planned", "list", "listed", "removing", "notify", "done", "failed"}
  BY PlanKept DEF ClearPath
<1>0. /\ pc \in [Calls -> PCs]
      /\ pc[c] \in {"planned", "list", "listed", "removing", "notify", "done", "failed"}
      /\ Begin(c) = "list"
  BY DEF ClearPath, Typed, TypeOK, TypeOfCalls, Begin
<1>1. ASSUME NEW o \in Calls, Issue(o)
      PROVE  pc'[c] \in {"planned", "list", "listed", "removing", "notify", "done", "failed"}
  <2>1. pc' = [pc EXCEPT ![o] = Begin(o)]  BY <1>1 DEF Issue
  <2> HIDE DEF Begin
  <2> QED  BY <1>0, <2>1
<1>2. ASSUME NEW o \in Calls, Step(o)
      PROVE  pc'[c] \in {"planned", "list", "listed", "removing", "notify", "done", "failed"}
  <2>1. CASE o # c
    <3>1. pc'[c] = pc[c]
      BY <1>0, <1>2, <2>1
      DEF Step, Return, Refuse, SetKey, Stage, Abandon, Sample, Admit, Clear, ApplyKey, Applied,
          ListKeys, ResumeClear, RemoveOne, Removed, Finish, ReadFirst, Attach, Settle,
          AttachClosed, Detach, Invalidate, Release, CloseStore
    <3> QED  BY <1>0, <3>1
  <2>2. CASE o = c
    <3>1. Refuse(c) \/ ListKeys(c) \/ ResumeClear(c) \/ RemoveOne(c) \/ Removed(c) \/ Finish(c)
      BY <1>0, <1>2, <2>2
      DEF Step, SetKey, Stage, Abandon, Sample, Admit, Clear, ApplyKey, Applied, ReadFirst, Attach,
          Settle, AttachClosed, Detach, Invalidate, Release, CloseStore
    <3> QED
      BY <1>0, <3>1
      DEF Refuse, ListKeys, ResumeClear, RemoveOne, Removed, Finish, Return
  <2> QED  BY <2>1, <2>2
<1>3. ASSUME \/ \E p \in Threads : Telling(p)
             \/ Delivery
             \/ \E k \in Keys : Expire(k) \/ Sweep(k)
             \/ Done \/ UNCHANGED vars
      PROVE  pc' = pc
  BY <1>3
  DEF Telling, Delivery, Done, vars, callVars, Notify, Visit, Deliver, CallListener, NextChange,
      Expire, Sweep
<1> QED  BY <1>0, <1>1, <1>2, <1>3 DEF Next

\* What is gone or was written stays so, whoever steps.
LEMMA StaysCleared ==
    ASSUME Typed, [Next]_vars, NEW c \in Calls, pc[c] # "planned", NEW k \in Keys, Cleared(c, k)
    PROVE  Cleared(c, k)'
<1> USE DEF Typed, TypeOK, TypeOfStore, TypeOfCalls, TypeOfGhosts
<1>0. ASSUME slot' = slot, rewritten' = rewritten PROVE Cleared(c, k)'
  BY <1>0 DEF Cleared, Visible
<1>1. ASSUME NEW o \in Calls, Issue(o) PROVE Cleared(c, k)'
  <2>1. slot' = slot /\ rewritten' = [rewritten EXCEPT ![o] = {}] /\ o # c
    BY <1>1 DEF Issue, storeVars
  <2> QED  BY <2>1 DEF Cleared, Visible
<1>2. ASSUME NEW j \in Keys, NEW value \in Values \cup {Missing}, NEW expires,
             Put(j, value, expires), Rewrite(j, value)
      PROVE  Cleared(c, k)'
  <2>1. CASE value = Missing
    <3>1. Visible(k) = Missing => Visible(k)' = Missing
      BY <1>2, <2>1 DEF Put, Absent, Visible
    <3>2. rewritten' = rewritten  BY <1>2, <2>1 DEF Rewrite
    <3> QED  BY <3>1, <3>2 DEF Cleared
  <2>2. CASE value # Missing
    <3>1. rewritten[c] \subseteq rewritten'[c] /\ j \in rewritten'[c]
      BY <1>2, <2>2 DEF Rewrite
    <3>2. k # j => slot'[k] = slot[k]  BY <1>2, <2>2 DEF Put
    <3> QED  BY <3>1, <3>2 DEF Cleared, Visible
  <2> QED  BY <2>1, <2>2
<1>3. ASSUME NEW o \in Calls, SetKey(o) \/ ApplyKey(o) PROVE Cleared(c, k)'
  <2>1. PICK j \in Touched(o) : /\ \E expires : Put(j, todo[o][j], expires)
                                /\ Rewrite(j, todo[o][j])
    BY <1>3 DEF SetKey, ApplyKey
  <2>2. j \in Keys /\ todo[o][j] \in Values \cup {Missing}  BY <2>1 DEF Touched, Writes
  <2> QED  BY <1>2, <2>1, <2>2
<1>4. ASSUME NEW o \in Calls, RemoveOne(o) PROVE Cleared(c, k)'
  <2>1. PICK j \in Touched(o) : Put(j, Missing, "never")  BY <1>4 DEF RemoveOne
  <2>2. Visible(k) = Missing => Visible(k)' = Missing  BY <2>1 DEF Touched, Put, Absent, Visible
  <2>3. rewritten' = rewritten  BY <1>4 DEF RemoveOne, ghostVars
  <2> QED  BY <2>2, <2>3 DEF Cleared
<1>5. ASSUME NEW o \in Calls, Step(o) PROVE Cleared(c, k)'
  <2>1. CASE SetKey(o) \/ ApplyKey(o) \/ RemoveOne(o)  BY <1>3, <1>4, <2>1
  <2>2. CASE ~(SetKey(o) \/ ApplyKey(o) \/ RemoveOne(o))
    <3>1. slot' = slot /\ rewritten' = rewritten
      BY <1>5, <2>2
      DEF Step, Refuse, Stage, Abandon, Sample, Admit, Clear, Applied, ListKeys, ResumeClear,
          Removed, Finish, ReadFirst, Attach, Settle, AttachClosed, Detach, Invalidate, Release,
          CloseStore, storeVars, ghostVars
    <3> QED  BY <1>0, <3>1
  <2> QED  BY <2>1, <2>2
<1>6. ASSUME NEW j \in Keys, Expire(j) \/ Sweep(j) PROVE Cleared(c, k)'
  <2>1. /\ \/ slot' = [slot EXCEPT ![j].expires = "past"]
           \/ slot' = [slot EXCEPT ![j] = Absent]
        /\ rewritten' = rewritten
    BY <1>6 DEF Expire, Sweep, ghostVars
  <2>2. Visible(k) = Missing => Visible(k)' = Missing  BY <2>1 DEF Visible, Absent, Slots
  <2> QED  BY <2>1, <2>2 DEF Cleared
<1>7. CASE \/ \E p \in Threads : Telling(p)
           \/ Delivery
           \/ Done \/ UNCHANGED vars
  <2>1. slot' = slot /\ rewritten' = rewritten
    BY <1>7
    DEF Telling, Delivery, Done, vars, storeVars, ghostVars, Notify, Visit, Deliver, CallListener,
        NextChange
  <2> QED  BY <1>0, <2>1
<1> QED  BY <1>1, <1>5, <1>6, <1>7 DEF Next

LEMMA StepClearCovers == Typed /\ Clearing /\ [Next]_vars => ClearCovers'
<1> SUFFICES ASSUME Typed, Clearing, [Next]_vars, NEW c \in Calls,
                    plan[c].kind = "clearPrefixAsync", NEW k \in Scope(plan[c].view)
             PROVE  /\ pc'[c] \in {"listed", "removing"} => k \in Touched(c)' \/ Cleared(c, k)'
                    /\ pc'[c] = "notify" => Cleared(c, k)'
  BY PlanKept DEF ClearCovers, Scope
<1> USE DEF Typed, TypeOK, TypeOfStore, TypeOfCalls
<1>0. /\ pc[c] \in {"planned", "list", "listed", "removing", "notify", "done", "failed"}
      /\ pc[c] \in {"listed", "removing"} => k \in Touched(c) \/ Cleared(c, k)
      /\ pc[c] = "notify" => Cleared(c, k)
      /\ k \in Keys
  <2>1. plan[c].view \in Views  BY PlanWellFormed DEF WellFormed
  <2> QED  BY <2>1, KVClientAssumption DEF KVClientAssumption, Clearing, ClearPath, ClearCovers
<1>1. pc[c] # "planned" /\ Cleared(c, k) => Cleared(c, k)'  BY <1>0, StaysCleared
<1>2. ASSUME pc'[c] = pc[c], todo'[c] = todo[c]
      PROVE  /\ pc'[c] \in {"listed", "removing"} => k \in Touched(c)' \/ Cleared(c, k)'
             /\ pc'[c] = "notify" => Cleared(c, k)'
  BY <1>0, <1>1, <1>2 DEF Touched
<1>3. ASSUME NEW o \in Calls, Issue(o)
      PROVE  /\ pc'[c] \in {"listed", "removing"} => k \in Touched(c)' \/ Cleared(c, k)'
             /\ pc'[c] = "notify" => Cleared(c, k)'
  <2>1. CASE o # c  BY <1>2, <1>3, <2>1 DEF Issue
  <2>2. CASE o = c
    <3>1. pc'[c] = "list"  BY <1>3, <2>2 DEF Issue, Begin
    <3> QED  BY <3>1
  <2> QED  BY <2>1, <2>2
<1>4. ASSUME NEW o \in Calls, Step(o)
      PROVE  /\ pc'[c] \in {"listed", "removing"} => k \in Touched(c)' \/ Cleared(c, k)'
             /\ pc'[c] = "notify" => Cleared(c, k)'
  <2>1. CASE o # c
    <3>1. pc'[c] = pc[c] /\ todo'[c] = todo[c]
      BY <1>4, <2>1
      DEF Step, Return, Refuse, SetKey, Stage, Abandon, Sample, Admit, Clear, ApplyKey, Applied,
          ListKeys, ResumeClear, RemoveOne, Removed, Finish, ReadFirst, Attach, Settle,
          AttachClosed, Detach, Invalidate, Release, CloseStore
    <3> QED  BY <1>2, <3>1
  <2>2. CASE o = c
    <3>1. Refuse(c) \/ ListKeys(c) \/ ResumeClear(c) \/ RemoveOne(c) \/ Removed(c) \/ Finish(c)
      BY <1>0, <1>4, <2>2
      DEF Step, SetKey, Stage, Abandon, Sample, Admit, Clear, ApplyKey, Applied, ReadFirst, Attach,
          Settle, AttachClosed, Detach, Invalidate, Release, CloseStore
    <3>2. CASE Refuse(c) \/ Finish(c)
      <4>1. pc'[c] \in {"failed", "done", "invalidate"}  BY <3>2 DEF Refuse, Finish, Return
      <4> QED  BY <4>1
    <3>3. CASE ListKeys(c)
      <4> DEFINE found == Listed \cap Scope(plan[c].view)
      <4>1. todo' = [todo EXCEPT ![c] = Removals(found)] /\ slot' = slot
        BY <3>3 DEF ListKeys, storeVars
      <4>2. CASE k \in found
        <5>1. todo'[c] = Removals(found)  BY <4>1
        <5>2. Removals(found)[k] = Missing  BY <1>0, <4>2 DEF Removals
        <5>3. k \in Touched(c)'  BY <1>0, <5>1, <5>2 DEF Touched, Missing, Untouched
        <5>4. pc'[c] # "notify"  BY <3>3 DEF ListKeys, Return
        <5> QED  BY <5>3, <5>4
      <4>3. CASE k \notin found
        <5>1. Visible(k)' = Missing  BY <1>0, <4>1, <4>3 DEF Listed, Visible
        <5> QED  BY <5>1 DEF Cleared
      <4> QED  BY <4>2, <4>3
    <3>4. CASE ResumeClear(c)
      BY <1>0, <1>1, <3>4 DEF ResumeClear, Touched
    <3>5. CASE RemoveOne(c)
      <4>1. PICK j \in Touched(c) : /\ Put(j, Missing, "never")
                                    /\ todo' = [todo EXCEPT ![c][j] = Untouched]
        BY <3>5 DEF RemoveOne
      <4>2. pc[c] = "removing" /\ pc' = pc  BY <3>5 DEF RemoveOne
      <4>3. CASE j = k
        <5>1. Visible(k)' = Missing  BY <1>0, <4>1, <4>3 DEF Put, Absent, Visible
        <5> QED  BY <5>1 DEF Cleared
      <4>4. CASE j # k
        <5>1. k \in Touched(c) => k \in Touched(c)'
          BY <1>0, <4>1, <4>4 DEF Touched, Writes
        <5> QED  BY <1>0, <1>1, <4>2, <5>1
      <4> QED  BY <4>3, <4>4
    <3>6. CASE Removed(c)
      <4>1. Cleared(c, k)  BY <1>0, <3>6 DEF Removed
      <4> QED  BY <1>0, <1>1, <3>6, <4>1 DEF Removed
    <3> QED  BY <3>1, <3>2, <3>3, <3>4, <3>5, <3>6
  <2> QED  BY <2>1, <2>2
<1>5. ASSUME \/ \E p \in Threads : Telling(p)
             \/ Delivery
             \/ \E j \in Keys : Expire(j) \/ Sweep(j)
             \/ Done \/ UNCHANGED vars
      PROVE  pc' = pc /\ todo' = todo
  BY <1>5
  DEF Telling, Delivery, Done, vars, callVars, Notify, Visit, Deliver, CallListener, NextChange,
      Expire, Sweep
<1> QED  BY <1>2, <1>3, <1>4, <1>5 DEF Next

LEMMA StepAsyncClear ==
    Typed /\ Clearing /\ [Next]_vars =>
        \A o \in Calls :
            plan[o].kind = "clearPrefixAsync" /\ pc[o] # "done" /\ pc'[o] = "done" =>
                \A k \in Scope(plan[o].view) : Visible(k)' = Missing \/ k \in rewritten[o]
<1> SUFFICES ASSUME Typed, Clearing, [Next]_vars, NEW c \in Calls,
                    plan[c].kind = "clearPrefixAsync", pc[c] # "done", pc'[c] = "done",
                    NEW k \in Scope(plan[c].view)
             PROVE  Visible(k)' = Missing \/ k \in rewritten[c]
  OBVIOUS
<1> USE DEF Typed, TypeOK, TypeOfStore, TypeOfCalls
<1>0. /\ pc[c] \in {"planned", "list", "listed", "removing", "notify", "failed"}
      /\ pc[c] = "notify" => Cleared(c, k)
      /\ k \in Keys /\ Begin(c) = "list"
  <2>1. plan[c].view \in Views  BY PlanWellFormed DEF WellFormed
  <2> QED
    BY <2>1, KVClientAssumption
    DEF KVClientAssumption, Clearing, ClearPath, ClearCovers, Begin
<1>1. ASSUME NEW o \in Calls, Issue(o) PROVE FALSE
  <2>1. pc' = [pc EXCEPT ![o] = Begin(o)]  BY <1>1 DEF Issue
  <2> HIDE DEF Begin
  <2> QED  BY <1>0, <2>1
<1>2. ASSUME NEW o \in Calls, Step(o) PROVE Visible(k)' = Missing \/ k \in rewritten[c]
  <2>1. o = c
    BY <1>0, <1>2
    DEF Step, Return, Refuse, SetKey, Stage, Abandon, Sample, Admit, Clear, ApplyKey, Applied,
        ListKeys, ResumeClear, RemoveOne, Removed, Finish, ReadFirst, Attach, Settle,
        AttachClosed, Detach, Invalidate, Release, CloseStore
  <2>2. ListKeys(c) \/ Finish(c)
    BY <1>0, <1>2, <2>1
    DEF Step, Return, Refuse, SetKey, Stage, Abandon, Sample, Admit, Clear, ApplyKey, Applied,
        ResumeClear, RemoveOne, Removed, ReadFirst, Attach, Settle, AttachClosed, Detach,
        Invalidate, Release, CloseStore
  <2>3. CASE ListKeys(c)
    <3>1. Listed \cap Scope(plan[c].view) = {} /\ slot' = slot
      BY <1>0, <2>3 DEF ListKeys, storeVars
    <3> QED  BY <1>0, <3>1 DEF Listed, Visible
  <2>4. CASE Finish(c)
    <3>1. pc[c] = "notify" /\ slot' = slot  BY <2>4 DEF Finish, storeVars
    <3> QED  BY <1>0, <3>1 DEF Cleared, Visible
  <2> QED  BY <2>2, <2>3, <2>4
<1>3. ASSUME \/ \E p \in Threads : Telling(p)
             \/ Delivery
             \/ \E j \in Keys : Expire(j) \/ Sweep(j)
             \/ Done \/ UNCHANGED vars
      PROVE  pc' = pc
  BY <1>3
  DEF Telling, Delivery, Done, vars, callVars, Notify, Visit, Deliver, CallListener, NextChange,
      Expire, Sweep
<1> QED  BY <1>1, <1>2, <1>3 DEF Next

-----------------------------------------------------------------------------
(***************************************************************************)
(* The inductive invariant, and what follows from it.                      *)
(***************************************************************************)
IInv == Typed /\ Held /\ Linked /\ Staged /\ Clearing /\ NoChangeLost

LEMMA InitIInv == Init => IInv
<1> SUFFICES ASSUME Init PROVE IInv  OBVIOUS
<1>1. Typed  BY InitTyped
<1> USE DEF Init
<1>2. Held  BY DEF Held, JsHolds, PhaseAt
<1>3. Linked
  <2>1. NativeWhileNeeded  BY DEF NativeWhileNeeded, Entries, Listening
  <2> QED  BY <2>1 DEF Linked, VisitsNative, BurstScheduled
<1>4. Staged
  <2>1. TellEmpty  BY DEF TellEmpty, Threads
  <2>2. TodoScoped  BY DEF TodoScoped, Nothing
  <2>3. OnlyRemovals  BY DEF OnlyRemovals
  <2> QED  BY <2>1, <2>2, <2>3 DEF Staged
<1>5. Clearing  BY DEF Clearing, ClearPath, ClearCovers
<1>6. NoChangeLost  BY DEF NoChangeLost
<1> QED  BY <1>1, <1>2, <1>3, <1>4, <1>5, <1>6 DEF IInv

LEMMA StepIInv == IInv /\ [Next]_vars => IInv'
BY StepTyped, StepHeld, StepLinked, StepScoped, StepTellEmpty, StepOnlyRemovals, StepClearPath,
   StepClearCovers, StepNoChangeLost
DEF IInv, Staged, Clearing

LEMMA Invariance == Spec => []IInv
BY InitIInv, StepIInv, PTL DEF Spec

(***************************************************************************)
(* The variables of the TypeScript layer keep their types.                 *)
(***************************************************************************)
THEOREM TypeCorrect == Spec => []TypeOK
<1>1. IInv => TypeOK  BY DEF IInv, Typed
<1> QED  BY <1>1, Invariance, PTL

(***************************************************************************)
(* A view has a native subscription exactly while somebody listens to it,  *)
(* however subscriptions, removals and a close interleave.                 *)
(***************************************************************************)
THEOREM SubscriptionsNeeded == Spec => []NativeWhileNeeded
<1>1. IInv => NativeWhileNeeded  BY DEF IInv, Linked
<1> QED  BY <1>1, Invariance, PTL

(***************************************************************************)
(* Changes wait in a box only if a call of onChange is on its way to take  *)
(* them, whichever threads queue and whenever the box is emptied.          *)
(***************************************************************************)
THEOREM BurstsScheduled == Spec => []BurstScheduled
<1>1. IInv => BurstScheduled  BY DEF IInv, Linked
<1> QED  BY <1>1, Invariance, PTL

(***************************************************************************)
(* A subscriber shows what is stored or the change is on its way to it:    *)
(* between the thread that writes, the boxes, the batch that was taken and *)
(* a hook's second reading no change falls through.                        *)
(***************************************************************************)
THEOREM ChangesArrive == Spec => []NoChangeLost
<1>1. IInv => NoChangeLost  BY DEF IInv
<1> QED  BY <1>1, Invariance, PTL

(***************************************************************************)
(* Nobody is called after remove() or close(), even in the middle of a     *)
(* batch that was taken before.                                            *)
(***************************************************************************)
THEOREM OffIsQuiet == Spec => NoCallWhenOff
<1> DEFINE Quiet == \A s \in Subs : phase[s] = "off" /\ phase'[s] = "off" => shown'[s] = shown[s]
<1>1. IInv /\ [Next]_vars => Quiet
  <2> SUFFICES ASSUME IInv, [Next]_vars, NEW s \in Subs, phase[s] = "off", phase'[s] = "off"
               PROVE  shown'[s] = shown[s]
    OBVIOUS
  <2> USE DEF TypeOK, TypeOfSubs
  <2>0. TypeOK /\ PhaseAt  BY DEF IInv, Typed, Held
  <2>1. ASSUME NEW o \in Calls, Step(o) PROVE shown'[s] = shown[s]
    <3>1. CASE ReadFirst(o) \/ Attach(o) \/ Settle(o) \/ AttachClosed(o)
      <4>1. plan[o].sub # s  BY <2>0, <3>1 DEF ReadFirst, Attach, Settle, AttachClosed, PhaseAt
      <4>2. \A ks : Show(plan[o].sub, ks) => shown'[s] = shown[s]  BY <2>0, <4>1 DEF Show
      <4> QED  BY <2>0, <3>1, <4>1, <4>2 DEF ReadFirst, Attach, Settle, AttachClosed
    <3>2. CASE Detach(o)  BY <2>0, <3>2 DEF Detach, Listening
    <3>3. CASE Invalidate(o)  BY <2>0, <3>3 DEF Invalidate, Show
    <3>4. CASE Release(o)  BY <2>0, <3>4 DEF Release, Entries, Listening
    <3>5. CASE ~(\/ ReadFirst(o) \/ Attach(o) \/ Settle(o) \/ AttachClosed(o)
                \/ Detach(o) \/ Invalidate(o) \/ Release(o))
      BY <2>1, <3>5
      DEF Step, Refuse, SetKey, Stage, Abandon, Sample, Admit, Clear, ApplyKey, Applied, ListKeys,
          ResumeClear, RemoveOne, Removed, Finish, CloseStore, subVars
    <3> QED  BY <3>1, <3>2, <3>3, <3>4, <3>5
  <2>2. ASSUME NEW other \in Subs, CallListener(other) PROVE shown'[s] = shown[s]
    <3>1. other # s  BY <2>0, <2>2 DEF CallListener, ToCall, Entries, Listening
    <3> QED  BY <2>0, <2>2, <3>1 DEF CallListener, Show
  <2>3. CASE \/ \E o \in Calls : Issue(o)
             \/ \E p \in Threads : Telling(p)
             \/ \E v \in Views : Deliver(v)
             \/ NextChange
             \/ \E k \in Keys : Expire(k) \/ Sweep(k)
             \/ Done \/ UNCHANGED vars
    <3>1. shown' = shown
      BY <2>3
      DEF Issue, Telling, Notify, Visit, Deliver, NextChange, Expire, Sweep, Done, vars, subVars
    <3> QED  BY <3>1
  <2> QED  BY <2>1, <2>2, <2>3 DEF Next, Delivery
<1> QED  BY <1>1, Invariance, PTL DEF Spec, NoCallWhenOff

(***************************************************************************)
(* A write to a key puts there what the call that makes this very step was *)
(* given for it, and reports the key.                                      *)
(***************************************************************************)
LEMMA WritesMeant ==
    ASSUME IInv, NEW o \in Calls, SetKey(o) \/ ApplyKey(o) \/ RemoveOne(o)
    PROVE  \E j \in Keys : /\ Wrote(o, j)
                           /\ \A k \in Keys \ {j} : slot'[k] = slot[k]
                           /\ tell'[o] \subseteq tell[o] \cup {j}
                           /\ \A c \in Calls \ {o} : tell'[c] = tell[c]
<1>0. TypeOK /\ TodoScoped /\ TellEmpty /\ OnlyRemovals /\ Calls \subseteq Threads
  BY DEF IInv, Typed, Staged, Threads
<1> USE DEF TypeOK, TypeOfStore, TypeOfCalls, TypeOfNotes
<1>1. PICK j \in Touched(o) :
         /\ \E expires : Put(j, todo[o][j], expires)
         /\ \/ todo' = [todo EXCEPT ![o] = Nothing]
            \/ todo' = [todo EXCEPT ![o][j] = Untouched]
         /\ \/ tell' = tell
            \/ tell' = [tell EXCEPT ![o] = tell[o] \cup {j}]
            \/ tell' = [tell EXCEPT ![o] = {}]
            \/ tell' = [tell EXCEPT ![o] = {j}]
  <2>1. CASE SetKey(o)  BY <2>1 DEF SetKey
  <2>2. CASE ApplyKey(o)  BY <2>2 DEF ApplyKey
  <2>3. CASE RemoveOne(o)
    <3>1. PICK k \in Touched(o) : /\ Put(k, Missing, "never")
                                  /\ todo' = [todo EXCEPT ![o][k] = Untouched]
                                  /\ tell' = IF Changed(k, Missing)
                                             THEN [tell EXCEPT ![o] = @ \cup {k}] ELSE tell
      BY <2>3 DEF RemoveOne
    <3>2. todo[o][k] = Missing  BY <1>0, <2>3 DEF RemoveOne, OnlyRemovals, Touched
    <3> QED  BY <3>1, <3>2
  <2> QED  BY <2>1, <2>2, <2>3
<1>2. j \in Keys /\ todo[o][j] # Untouched  BY DEF Touched
<1>3. todo'[o][j] = Untouched  BY <1>0, <1>1, <1>2 DEF Nothing, Writes
<1>4. slot'[j].value = todo[o][j]  BY <1>0, <1>1, <1>2 DEF Put, Absent
<1>5. \A k \in Keys \ {j} : slot'[k] = slot[k]  BY <1>0, <1>1 DEF Put
<1>6. Wrote(o, j)  BY <1>0, <1>2, <1>3, <1>4 DEF Wrote, TodoScoped, InScope
<1>7. /\ tell'[o] \subseteq tell[o] \cup {j}
      /\ \A c \in Calls \ {o} : tell'[c] = tell[c]
  BY <1>0, <1>1
<1> QED  BY <1>2, <1>5, <1>6, <1>7

\* The clock and the sweeper: nothing else happens to a key, and no call reports it.
LEMMA Ages ==
    ASSUME TypeOK, NEW j \in Keys, Expire(j) \/ Sweep(j)
    PROVE  /\ Aged(j) /\ \A k \in Keys \ {j} : slot'[k] = slot[k]
           /\ \A c \in Calls : tell'[c] = tell[c]
<1> USE DEF TypeOK, TypeOfStore, TypeOfNotes
<1>1. CASE Expire(j)
  <2>1. /\ slot[j].expires = "later" /\ slot' = [slot EXCEPT ![j].expires = "past"]
        /\ UNCHANGED <<todo, tell>>
    BY <1>1 DEF Expire, callVars, noteVars
  <2>2. slot'[j] = [slot[j] EXCEPT !.expires = "past"]  BY <2>1
  <2> QED  BY <2>1, <2>2 DEF Aged
<1>2. CASE Sweep(j)
  <2>1. /\ slot[j].expires = "past" /\ slot' = [slot EXCEPT ![j] = Absent]
        /\ tell' = [tell EXCEPT ![Sweeper] = @ \cup {j}] /\ UNCHANGED todo
    BY <1>2 DEF Sweep, callVars
  <2>2. Sweeper \in Threads /\ Sweeper \notin Calls
    BY KVClientAssumption DEF KVClientAssumption, Threads
  <2>3. slot'[j] = Absent /\ j \in tell'[Sweeper]  BY <2>1, <2>2
  <2>4. \A c \in Calls : tell'[c] = tell[c]  BY <2>1, <2>2 DEF Threads
  <2> QED  BY <2>1, <2>3, <2>4 DEF Aged
<1> QED  BY <1>1, <1>2

\* Whoever is called subscribed to the key of the change, or everybody is.
LEMMA CalledWatch ==
    ASSUME TypeOK, FrameOK, PhaseAt, [Next]_vars, NEW s \in Subs, Listening(s),
           s \in frame'.called \ frame.called
    PROVE  Head(frame.rest) \in Watched(s) \cup {Null}
<1> USE DEF TypeOK, TypeOfJs
<1>1. ASSUME NEW other \in Subs, CallListener(other)
      PROVE  Head(frame.rest) \in Watched(s) \cup {Null}
  <2>1. other = s /\ s \in ToCall  BY <1>1 DEF CallListener
  <2>2. Hears(s, Head(frame.rest))  BY <2>1 DEF ToCall
  <2>3. SubView[s] \in Views /\ AllKeys \notin DOMAIN Full[SubView[s]]
    BY KVClientAssumption DEF KVClientAssumption
  <2> QED  BY <2>2, <2>3 DEF Hears, Watched, Scope
<1>2. ASSUME NEW o \in Calls, Attach(o) PROVE FALSE
  <2>1. plan[o].sub = s  BY <1>2 DEF Attach
  <2>2. phase[s] = "reading"  BY <1>2, <2>1 DEF Attach, PhaseAt
  <2> QED  BY <2>2 DEF Listening
<1>3. ASSUME NEW v \in Views, Deliver(v) PROVE FALSE
  BY <1>3 DEF Deliver, NoFrame
<1>4. ASSUME NextChange PROVE FALSE
  <2>1. frame'.called = {}  BY <1>4 DEF NextChange, NoFrame
  <2> QED  BY <2>1
<1>5. ASSUME \/ \E o \in Calls : Issue(o)
             \/ \E p \in Threads : Telling(p)
             \/ \E k \in Keys : Expire(k) \/ Sweep(k)
             \/ Done \/ UNCHANGED vars
      PROVE  FALSE
  <2>1. frame' = frame
    BY <1>5 DEF Issue, Telling, Notify, Visit, Expire, Sweep, Done, vars, jsVars
  <2> QED  BY <2>1
<1>6. ASSUME NEW o \in Calls, Step(o), ~Attach(o) PROVE FALSE
  <2>1. frame' = frame
    BY <1>6
    DEF Step, Refuse, SetKey, Stage, Abandon, Sample, Admit, Clear, ApplyKey, Applied, ListKeys,
        ResumeClear, RemoveOne, Removed, Finish, ReadFirst, Settle, AttachClosed, Detach,
        Invalidate, Release, CloseStore, jsVars
  <2> QED  BY <2>1
<1> QED  BY <1>1, <1>2, <1>3, <1>4, <1>5, <1>6 DEF Next, Delivery

(***************************************************************************)
(* A namespace touches and tells only its own keys.  A step that changes a *)
(* key is the clock's, the sweeper's, or the write that one call had yet   *)
(* to do of that key: in the scope of its view, and of the value that the  *)
(* call is meant to store there.  A call reports what it has just written, *)
(* null only if it clears the store, and a subscriber is called only for   *)
(* what it watches.                                                        *)
(***************************************************************************)
THEOREM StaysInScope == Spec => Scoped
<1>1. IInv /\ [Next]_vars => WritesScoped /\ TellsScoped /\ CallsScoped
  <2> SUFFICES ASSUME IInv, [Next]_vars PROVE WritesScoped /\ TellsScoped /\ CallsScoped
    OBVIOUS
  <2>0. TypeOK /\ FrameOK /\ BegunOK /\ PhaseAt /\ Calls \subseteq Threads
    BY DEF IInv, Typed, Held, Threads
  <2>1. CallsScoped  BY <2>0, CalledWatch DEF CallsScoped
  <2>2. ASSUME UNCHANGED slot, \A c \in Calls : tell'[c] \subseteq tell[c]
        PROVE  WritesScoped /\ TellsScoped
    BY <2>2 DEF WritesScoped, TellsScoped
  <2>3. ASSUME NEW o \in Calls, SetKey(o) \/ ApplyKey(o) \/ RemoveOne(o)
        PROVE  WritesScoped /\ TellsScoped
    <3>1. PICK j \in Keys : /\ Wrote(o, j)
                            /\ \A k \in Keys \ {j} : slot'[k] = slot[k]
                            /\ tell'[o] \subseteq tell[o] \cup {j}
                            /\ \A c \in Calls \ {o} : tell'[c] = tell[c]
      BY <2>3, WritesMeant
    <3>2. j # Null  BY KVClientAssumption DEF KVClientAssumption
    <3>3. WritesScoped  BY <3>1 DEF WritesScoped
    <3>4. TellsScoped  BY <3>1, <3>2 DEF TellsScoped
    <3> QED  BY <3>3, <3>4
  <2>4. ASSUME NEW o \in Calls, Clear(o) PROVE WritesScoped /\ TellsScoped
    <3>1. slot' = slot /\ tell' = [tell EXCEPT ![o] = {Null}]  BY <2>4 DEF Clear, storeVars
    <3>2. plan[o].kind = "clear"  BY <2>0, <2>4, BegunKind DEF Clear
    <3>3. tell'[o] = {Null} /\ \A c \in Calls \ {o} : tell'[c] = tell[c]
      BY <2>0, <3>1 DEF TypeOK, TypeOfNotes
    <3> QED  BY <3>1, <3>2, <3>3 DEF WritesScoped, TellsScoped
  <2>5. ASSUME NEW o \in Calls, Step(o),
               ~(SetKey(o) \/ ApplyKey(o) \/ RemoveOne(o) \/ Clear(o))
        PROVE  WritesScoped /\ TellsScoped
    <3>1. slot' = slot /\ tell' = tell
      BY <2>5
      DEF Step, Refuse, Stage, Abandon, Sample, Admit, Applied, ListKeys, ResumeClear, Removed,
          Finish, ReadFirst, Attach, Settle, AttachClosed, Detach, Invalidate, Release,
          CloseStore, storeVars, noteVars
    <3> QED  BY <2>2, <3>1
  <2>6. ASSUME NEW p \in Threads, Notify(p) PROVE WritesScoped /\ TellsScoped
    <3>1. slot' = slot /\ \E c \in tell[p] : tell' = [tell EXCEPT ![p] = @ \ {c}]
      BY <2>6 DEF Notify, storeVars
    <3>2. \A c \in Calls : tell'[c] \subseteq tell[c]
      BY <2>0, <3>1 DEF TypeOK, TypeOfNotes
    <3> QED  BY <2>2, <3>1, <3>2
  <2>7. ASSUME NEW j \in Keys, Expire(j) \/ Sweep(j) PROVE WritesScoped /\ TellsScoped
    <3>1. /\ Aged(j) /\ \A k \in Keys \ {j} : slot'[k] = slot[k]
          /\ \A c \in Calls : tell'[c] = tell[c]
      BY <2>0, <2>7, Ages
    <3> QED  BY <3>1 DEF WritesScoped, TellsScoped
  <2>8. ASSUME \/ \E o \in Calls : Issue(o)
               \/ \E p \in Threads : Visit(p)
               \/ Delivery
               \/ Done \/ UNCHANGED vars
        PROVE  WritesScoped /\ TellsScoped
    <3>1. slot' = slot /\ tell' = tell
      BY <2>8
      DEF Issue, Visit, Delivery, Deliver, CallListener, NextChange, Done, vars, storeVars,
          noteVars
    <3> QED  BY <2>2, <3>1
  <2>9. WritesScoped /\ TellsScoped
    BY <2>3, <2>4, <2>5, <2>6, <2>7, <2>8 DEF Next, Telling
  <2> QED  BY <2>1, <2>9
<1> QED  BY <1>1, Invariance, PTL DEF Spec, Scoped

(***************************************************************************)
(* When the promise of clearAllAsync resolves, what was in the namespace   *)
(* is gone, but for keys that somebody wrote in the meantime.              *)
(***************************************************************************)
THEOREM ClearedAsync == Spec => AsyncClearClears
<1>1. IInv => Typed /\ Clearing  BY DEF IInv
<1> QED  BY <1>1, Invariance, StepAsyncClear, PTL DEF Spec, AsyncClearClears

-----------------------------------------------------------------------------
(***************************************************************************)
(* Every step is a step of KVMirror, or changes nothing that it sees.      *)
(***************************************************************************)
OnShown == [s \in Subs |-> IF s \in On THEN shown[s] ELSE Blank]
Deaf    == [s \in Subs |-> IF s \in On THEN unheard[s] ELSE {}]

LEMMA IsChange ==
    ASSUME On' = On, OnShown' = OnShown, \A s \in Subs : Deaf[s] \subseteq Deaf'[s]
    PROVE  Mirror!Next
BY DEF Mirror!Next, Mirror!Change, OnShown, Deaf

\* Nobody who is on, before or after, is concerned; those who are may miss something more.
LEMMA IsQuiet ==
    ASSUME \A s \in Subs : phase'[s] = "on" <=> phase[s] = "on",
           \A s \in Subs : phase[s] = "on" => /\ shown'[s] = shown[s]
                                             /\ unheard[s] \subseteq unheard'[s]
    PROVE  Mirror!Next
<1>1. On' = On  BY DEF On
<1>2. OnShown' = OnShown  BY <1>1 DEF OnShown, On
<1>3. \A s \in Subs : Deaf[s] \subseteq Deaf'[s]  BY <1>1 DEF Deaf, On
<1> QED  BY <1>1, <1>2, <1>3, IsChange

LEMMA IsRefresh ==
    ASSUME Typed, NEW s \in Subs, phase[s] = "on", phase' = phase, slot' = slot,
           NEW ks \in SUBSET Watched(s), Show(s, ks)
    PROVE  Mirror!Next
<1> USE DEF Typed, TypeOK, TypeOfSubs, TypeOfGhosts
<1>1. On' = On /\ s \in On  BY DEF On
<1>2. shown' = [shown EXCEPT ![s] = Reread(s, ks)] /\ unheard' = [unheard EXCEPT ![s] = @ \ ks]
  BY DEF Show
<1>3. CASE ks = {}
  <2>1. shown'[s] = shown[s]  BY <1>2, <1>3 DEF Reread
  <2>2. \A other \in Subs : shown'[other] = shown[other] /\ unheard'[other] = unheard[other]
    BY <1>2, <1>3, <2>1
  <2> QED  BY <2>2, IsQuiet
<1>4. CASE ks # {}
  <2>1. OnShown' = [OnShown EXCEPT ![s] =
            [k \in Keys |-> IF k \in ks THEN Visible(k) ELSE @[k]]]
    <3>1. OnShown'[s] = Reread(s, ks) /\ OnShown[s] = shown[s]  BY <1>1, <1>2 DEF OnShown
    <3>2. \A other \in Subs \ {s} : OnShown'[other] = OnShown[other]
      BY <1>1, <1>2 DEF OnShown
    <3>3. Reread(s, ks) = [k \in Keys |-> IF k \in ks THEN Visible(k) ELSE OnShown[s][k]]
      BY <3>1 DEF Reread
    <3>4. DOMAIN OnShown = Subs /\ DOMAIN OnShown' = Subs  BY DEF OnShown
    <3> QED  BY <3>1, <3>2, <3>3, <3>4 DEF OnShown
  <2>2. Deaf' = [Deaf EXCEPT ![s] = @ \ ks]  BY <1>1, <1>2 DEF Deaf
  <2>3. [k \in Keys |-> Visible(k)]' = [k \in Keys |-> Visible(k)]  BY DEF Visible
  <2>4. Mirror!Refresh(s, ks)
    <3>1. \A k \in Keys : [j \in Keys |-> Visible(j)][k] = Visible(k)  OBVIOUS
    <3> QED  BY <1>1, <1>4, <2>1, <2>2, <2>3, <3>1 DEF Mirror!Refresh, OnShown, Deaf
  <2> QED  BY <2>4 DEF Mirror!Next
<1> QED  BY <1>3, <1>4

LEMMA IsStart ==
    ASSUME Typed, NEW s \in Subs, phase[s] # "on", phase' = [phase EXCEPT ![s] = "on"],
           slot' = slot,
           \A k \in Watched(s) : shown'[s][k] = Visible(k) \/ k \in unheard'[s],
           \A other \in Subs \ {s} : shown'[other] = shown[other] /\ unheard'[other] =
              unheard[other]
    PROVE  Mirror!Next
<1> USE DEF Typed, TypeOK, TypeOfSubs, TypeOfGhosts
<1>1. On' = On \cup {s} /\ s \notin On  BY DEF On
<1>2. OnShown'[s] = shown'[s] /\ Deaf'[s] = unheard'[s]  BY <1>1 DEF OnShown, Deaf
<1>3. \A other \in Subs \ {s} : OnShown'[other] = OnShown[other] /\ Deaf'[other] = Deaf[other]
  BY <1>1 DEF OnShown, Deaf
<1>4. [k \in Keys |-> Visible(k)]' = [k \in Keys |-> Visible(k)]  BY DEF Visible
<1>5. \A k \in Watched(s) : OnShown'[s][k] = [j \in Keys |-> Visible(j)][k] \/ k \in Deaf'[s]
  BY <1>2, WatchedKeys
<1>6. Mirror!Start(s)
  BY <1>1, <1>3, <1>4, <1>5 DEF Mirror!Start, OnShown, Deaf
<1> QED  BY <1>6 DEF Mirror!Next

LEMMA IsStop ==
    ASSUME Typed, NEW ws \in SUBSET On, ws # {}, slot' = slot, On' = On \ ws,
           \A s \in On \ ws : shown'[s] = shown[s] /\ unheard'[s] = unheard[s]
    PROVE  Mirror!Next
<1> USE DEF Typed, TypeOK, TypeOfSubs, TypeOfGhosts
<1>1. OnShown' = [s \in Subs |-> IF s \in ws THEN Blank ELSE OnShown[s]]
  BY DEF OnShown, Blank
<1>2. Deaf' = [s \in Subs |-> IF s \in ws THEN {} ELSE Deaf[s]]  BY DEF Deaf
<1>3. [k \in Keys |-> Visible(k)]' = [k \in Keys |-> Visible(k)]  BY DEF Visible
<1>4. Mirror!Stop  BY <1>1, <1>2, <1>3 DEF Mirror!Stop, OnShown, Deaf, Mirror!Blank, Blank
<1> QED  BY <1>4 DEF Mirror!Next

LEMMA AttachMirrors ==
    ASSUME Typed, Held, NEW o \in Calls, Attach(o)
    PROVE  Mirror!Next
<1> USE DEF Typed, TypeOK, TypeOfSubs, TypeOfGhosts
<1> DEFINE S == plan[o].sub
<1>0. S \in Subs /\ phase[S] = "reading" /\ slot' = slot
  BY SubTyped DEF Attach, Held, PhaseAt, storeVars
<1>1. CASE SubKind[S] \in {"hook", "observer"}
  <2>1. phase' = [phase EXCEPT ![S] = "attached"] /\ shown' = shown /\ unheard' = unheard
    BY <1>1 DEF Attach
  <2> QED  BY <1>0, <2>1, IsQuiet
<1>2. CASE SubKind[S] = "atom"
  <2>1. /\ phase' = [phase EXCEPT ![S] = "on"] /\ shown' = shown
        /\ unheard' = [unheard EXCEPT ![S] = {k \in Watched(S) : shown[S][k] # Visible(k)}]
    BY <1>2 DEF Attach
  <2>2. \A k \in Watched(S) : shown'[S][k] = Visible(k) \/ k \in unheard'[S]
    BY <1>0, <2>1
  <2>3. \A other \in Subs \ {S} : shown'[other] = shown[other] /\ unheard'[other] = unheard[other]
    BY <1>0, <2>1
  <2> HIDE DEF S
  <2> QED  BY <1>0, <2>1, <2>2, <2>3, IsStart
<1>3. CASE SubKind[S] = "listener"
  <2>1. phase' = [phase EXCEPT ![S] = "on"] /\ Show(S, Watched(S))  BY <1>3 DEF Attach
  <2>2. \A k \in Watched(S) : shown'[S][k] = Visible(k)
    BY <1>0, <2>1, ShowShows, WatchedKeys
  <2>3. \A other \in Subs \ {S} : shown'[other] = shown[other] /\ unheard'[other] = unheard[other]
    BY <1>0, <2>1 DEF Show
  <2> HIDE DEF S
  <2> QED  BY <1>0, <2>1, <2>2, <2>3, IsStart
<1> QED
  BY <1>0, <1>1, <1>2, <1>3, KVClientAssumption DEF KVClientAssumption, SubKinds

LEMMA StepMirrors == IInv /\ [Next]_vars => [Mirror!Next]_(Mirror!vars)
<1> SUFFICES ASSUME IInv, Next PROVE Mirror!Next
  <2>1. UNCHANGED vars => UNCHANGED Mirror!vars
    BY DEF vars, Mirror!vars, storeVars, subVars, ghostVars, Visible, On
  <2> QED  BY <2>1
<1>0. Typed /\ Held /\ TypeOK /\ PhaseAt  BY DEF IInv, Typed, Held
<1> USE DEF TypeOK, TypeOfSubs, TypeOfGhosts
<1>1. ASSUME NEW o \in Calls, Issue(o) PROVE Mirror!Next
  <2>1. phase' = phase /\ shown' = shown /\ unheard' = unheard  BY <1>1 DEF Issue, subVars
  <2> QED  BY <2>1, IsQuiet
<1>2. ASSUME NEW o \in Calls, Step(o) PROVE Mirror!Next
  <2> DEFINE S == plan[o].sub
  <2>0. S \in Subs  BY <1>0, SubTyped
  <2>1. CASE \/ Refuse(o) \/ Stage(o) \/ Abandon(o) \/ Sample(o) \/ Admit(o) \/ Applied(o)
             \/ ListKeys(o) \/ ResumeClear(o) \/ Removed(o) \/ Finish(o) \/ SetKey(o)
             \/ Clear(o) \/ RemoveOne(o)
    <3>1. phase' = phase /\ shown' = shown /\ unheard' = unheard
      BY <2>1
      DEF Refuse, Stage, Abandon, Sample, Admit, Applied, ListKeys, ResumeClear, Removed, Finish,
          SetKey, Clear, RemoveOne, subVars, ghostVars
    <3> QED  BY <3>1, IsQuiet
  <2>2. CASE ApplyKey(o) \/ CloseStore(o)
    <3>1. phase' = phase /\ shown' = shown
      BY <2>2 DEF ApplyKey, CloseStore, subVars
    <3>2. \A s \in Subs : unheard[s] \subseteq unheard'[s]
      BY <2>2 DEF ApplyKey, CloseStore, NobodyHears
    <3> QED  BY <3>1, <3>2, IsQuiet
  <2>3. CASE ReadFirst(o) \/ AttachClosed(o)
    <3>1. /\ phase[S] # "on" /\ phase'[S] # "on" /\ unheard' = unheard
          /\ \A other \in Subs \ {S} : phase'[other] = phase[other] /\ shown'[other] = shown[other]
      BY <1>0, <2>0, <2>3 DEF ReadFirst, AttachClosed, PhaseAt, ghostVars
    <3> QED  BY <3>1, IsQuiet
  <2>4. CASE Attach(o)  BY <1>0, <2>4, AttachMirrors
  <2>5. CASE Settle(o)
    <3>1. /\ phase[S] = "attached" /\ phase' = [phase EXCEPT ![S] = "on"]
          /\ Show(S, Watched(S)) /\ slot' = slot
      BY <1>0, <2>5 DEF Settle, PhaseAt, storeVars
    <3>2. \A k \in Watched(S) : shown'[S][k] = Visible(k)
      BY <1>0, <2>0, <3>1, ShowShows, WatchedKeys
    <3>3. \A x \in Subs \ {S} : shown'[x] = shown[x] /\ unheard'[x] = unheard[x]
      BY <1>0, <2>0, <3>1 DEF Show
    <3> HIDE DEF S
    <3> QED  BY <1>0, <2>0, <3>1, <3>2, <3>3, IsStart
  <2>6. CASE Invalidate(o)
    <3>1. phase' = phase /\ slot' = slot  BY <2>6 DEF Invalidate, storeVars
    <3>2. CASE phase[S] = "on"
      <4>1. Show(S, Watched(S))  BY <2>6, <3>2 DEF Invalidate
      <4> HIDE DEF S
      <4> QED  BY <1>0, <2>0, <3>1, <3>2, <4>1, IsRefresh
    <3>3. CASE phase[S] # "on"
      <4>1. shown' = shown /\ unheard' = unheard  BY <2>6, <3>3 DEF Invalidate
      <4> QED  BY <3>1, <4>1, IsQuiet
    <3> QED  BY <3>2, <3>3
  <2>7. CASE Detach(o)
    <3>1. slot' = slot  BY <2>7 DEF Detach, storeVars
    <3>2. CASE phase[S] = "on"
      <4>1. /\ phase' = [phase EXCEPT ![S] = "off"]
            /\ shown' = [shown EXCEPT ![S] = Blank] /\ unheard' = [unheard EXCEPT ![S] = {}]
        BY <2>7, <3>2 DEF Detach, Listening
      <4>2. S \in On /\ On' = On \ {S}  BY <1>0, <2>0, <3>2, <4>1 DEF On
      <4>3. \A s \in On \ {S} : shown'[s] = shown[s] /\ unheard'[s] = unheard[s]
        BY <1>0, <4>1 DEF On
      <4> DEFINE ws == {S}
      <4>4. ws \in SUBSET On /\ ws # {} /\ On' = On \ ws  BY <4>2
      <4>5. \A s \in On \ ws : shown'[s] = shown[s] /\ unheard'[s] = unheard[s]  BY <4>3
      <4> HIDE DEF ws
      <4> QED  BY <1>0, <3>1, <4>4, <4>5, IsStop
    <3>3. CASE ~Listening(S)
      <4>1. phase' = phase /\ shown' = shown /\ unheard' = unheard
        BY <2>7, <3>3 DEF Detach
      <4> QED  BY <4>1, IsQuiet
    <3>4. CASE phase[S] = "attached"
      <4>1. /\ phase' = [phase EXCEPT ![S] = "off"]
            /\ shown' = [shown EXCEPT ![S] = Blank] /\ unheard' = [unheard EXCEPT ![S] = {}]
        BY <2>7, <3>4 DEF Detach, Listening
      <4>2. \A s \in Subs : phase'[s] = "on" <=> phase[s] = "on"  BY <1>0, <2>0, <3>4, <4>1
      <4>3. \A s \in Subs : phase[s] = "on" => shown'[s] = shown[s] /\ unheard'[s] = unheard[s]
        BY <1>0, <3>4, <4>1
      <4> QED  BY <4>2, <4>3, IsQuiet
    <3> QED  BY <3>2, <3>3, <3>4 DEF Listening
  <2>8. CASE Release(o)
    <3>1. slot' = slot  BY <2>8 DEF Release, storeVars
    <3>2. CASE plan[o].view # Root \/ closed
      <4>1. phase' = phase /\ shown' = shown /\ unheard' = unheard
        BY <2>8, <3>2 DEF Release
      <4> QED  BY <4>1, IsQuiet
    <3>3. CASE ~(plan[o].view # Root \/ closed)
      <4> DEFINE gone == Entries(Root)
                 ws   == On \cap gone
      <4>1. /\ phase' = [s \in Subs |-> IF s \in gone THEN "off" ELSE phase[s]]
            /\ shown' = [s \in Subs |-> IF s \in gone THEN Blank ELSE shown[s]]
            /\ unheard' = [s \in Subs |-> IF s \in gone THEN {} ELSE unheard[s]]
        BY <2>8, <3>3 DEF Release
      <4> HIDE DEF gone
      <4>2. On' = On \ ws  BY <4>1 DEF On
      <4>3. \A s \in On \ ws : shown'[s] = shown[s] /\ unheard'[s] = unheard[s]
        BY <4>1 DEF On
      <4>4. CASE ws # {}
        <5>1. ws \in SUBSET On  OBVIOUS
        <5> HIDE DEF ws
        <5> QED  BY <1>0, <3>1, <4>2, <4>3, <4>4, <5>1, IsStop
      <4>5. CASE ws = {}
        <5>1. \A s \in Subs : phase[s] = "on" => s \notin gone  BY <4>5 DEF On
        <5> QED  BY <4>1, <5>1, IsQuiet
      <4> QED  BY <4>4, <4>5
    <3> QED  BY <3>2, <3>3
  <2> QED  BY <1>2, <2>1, <2>2, <2>3, <2>4, <2>5, <2>6, <2>7, <2>8 DEF Step
<1>3. ASSUME NEW s \in Subs, CallListener(s) PROVE Mirror!Next
  <2> DEFINE ks == IF Head(frame.rest) = Null THEN Watched(s)
                   ELSE Watched(s) \cap {Head(frame.rest)}
  <2>1. Show(s, ks) /\ phase' = phase /\ slot' = slot  BY <1>3 DEF CallListener, storeVars
  <2>2. ks \in SUBSET Watched(s)  OBVIOUS
  <2> HIDE DEF ks
  <2>3. CASE phase[s] = "on"  BY <1>0, <2>1, <2>2, <2>3, IsRefresh
  <2>4. CASE phase[s] # "on"
    <3>1. \A x \in Subs \ {s} : shown'[x] = shown[x] /\ unheard'[x] = unheard[x]
      BY <1>0, <2>1 DEF Show
    <3> QED  BY <2>1, <2>4, <3>1, IsQuiet
  <2> QED  BY <2>3, <2>4
<1>4. CASE \/ \E p \in Threads : Telling(p)
           \/ \E v \in Views : Deliver(v)
           \/ NextChange \/ Done
           \/ \E k \in Keys : Sweep(k)
  <2>1. phase' = phase /\ shown' = shown /\ unheard' = unheard
    BY <1>4
    DEF Telling, Notify, Visit, Deliver, NextChange, Done, Sweep, vars, subVars, ghostVars
  <2> QED  BY <2>1, IsQuiet
<1>5. ASSUME NEW k \in Keys, Expire(k) PROVE Mirror!Next
  <2>1. phase' = phase /\ shown' = shown  BY <1>5 DEF Expire, subVars
  <2>2. \A s \in Subs : unheard[s] \subseteq unheard'[s]  BY <1>5 DEF Expire, NobodyHears
  <2> QED  BY <2>1, <2>2, IsQuiet
<1> QED  BY <1>1, <1>2, <1>3, <1>4, <1>5 DEF Next, Delivery

(***************************************************************************)
(* The safety part of the refinement, for any keys, views, subscribers and *)
(* calls: what a subscriber shows is only ever taken from the store, and   *)
(* what it misses it misses by the ways KVMirror names.  That it catches   *)
(* up (the fairness of MirrorsStore) is left to the run.                   *)
(***************************************************************************)
THEOREM FollowsMirror == Spec => Mirror!Init /\ [][Mirror!Next]_(Mirror!vars)
<1>1. Init => Mirror!Init
  BY DEF Init, Mirror!Init, Mirror!Blank, Blank, On, Visible, Absent
<1> QED  BY <1>1, StepMirrors, Invariance, PTL DEF Spec
=============================================================================
