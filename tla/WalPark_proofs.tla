--------------------------- MODULE WalPark_proofs ---------------------------
(***************************************************************************)
(* The safety theorems of WalPark, for any set of clients and any bound.   *)
(***************************************************************************)
EXTENDS WalPark, TLAPS

\* TypeOK holds in every reachable state of the writer and its clients.
THEOREM TypeCorrect == Spec => []TypeOK
<1>1. Init => TypeOK
  <2> SUFFICES ASSUME Init PROVE TypeOK
    OBVIOUS
  <2>1. /\ cpc \in [Clients -> {"idle", "load", "swap", "unpark", "flush", "join"}]
        /\ crossed \in [Clients -> BOOLEAN]
        /\ after \in [Clients -> {"idle", "flush", "join"}]
    BY DEF Init
  <2> QED
    BY <2>1 DEF Init, TypeOK
<1>2. TypeOK /\ [Next]_vars => TypeOK'
  <2> SUFFICES ASSUME TypeOK, [Next]_vars PROVE TypeOK'
    OBVIOUS
  <2> USE DEF TypeOK
  <2>1. CASE \E c \in Clients : ClientCall(c) \/ ClientStep(c)
    <3> PICK c \in Clients : ClientCall(c) \/ ClientStep(c)
      BY <2>1
    <3>1. CASE ClientCall(c)
      <4>1. CASE Append(c)
        <5>1. (log < GroupLen /\ log + 1 >= GroupLen) \in BOOLEAN
          OBVIOUS
        <5>2. crossed' \in [Clients -> BOOLEAN]
          BY <4>1, <5>1 DEF Append
        <5> QED
          BY <4>1, <5>2 DEF Append, writerVars, wakeVars
      <4>2. CASE Flush(c)
        BY <4>2 DEF Flush, writerVars, wakeVars
      <4>3. CASE Close(c)
        BY <4>3 DEF Close, writerVars, wakeVars
      <4> QED
        BY <3>1, <4>1, <4>2, <4>3 DEF ClientCall
    <3>2. CASE ClientStep(c)
      <4>1. CASE LoadArmed(c)
        BY <4>1 DEF LoadArmed, writerVars, wakeVars, logVars
      <4>2. CASE SwapArmed(c)
        BY <4>2 DEF SwapArmed, writerVars, logVars
      <4>3. CASE Unpark(c)
        BY <4>3 DEF Unpark, writerVars, logVars
      <4>4. CASE Joined(c)
        BY <4>4 DEF Joined, writerVars, wakeVars, logVars
      <4> QED
        BY <3>2, <4>1, <4>2, <4>3, <4>4 DEF ClientStep
    <3> QED
      BY <3>1, <3>2
  <2>2. CASE Collect \/ Write \/ HoldWrite \/ AnswersDone
    BY <2>2 DEF Collect, Write, HoldWrite, AnswersDone, clientVars, wakeVars, logVars
  <2>3. CASE Answers
    BY <2>3 DEF Answers, Answer, AnswerEarly, Answered, wakeVars, logVars
  <2>4. CASE Compact \/ Sweep \/ Maintained
    BY <2>4 DEF Compact, Sweep, Maintained, clientVars, wakeVars, logVars
  <2>5. CASE Disarm \/ NoDisarm \/ LastLook \/ Deadline
    BY <2>5 DEF Disarm, NoDisarm, LastLook, Deadline, clientVars, wakeVars, logVars
  <2>6. CASE Unparked \/ WindowOver \/ LateWake
    BY <2>6 DEF Unparked, WindowOver, LateWake, Wake, clientVars, wakeVars, logVars
  <2>7. CASE UNCHANGED vars
    BY <2>7 DEF vars, logVars, wakeVars, clientVars, writerVars
  <2> QED
    BY <2>1, <2>2, <2>3, <2>4, <2>5, <2>6, <2>7 DEF Next, WriterStep
<1> QED
  BY <1>1, <1>2, PTL DEF Spec

(***************************************************************************)
(* take_logged loses and doubles nothing, whichever of collect, compact    *)
(* and the sweep calls it.                                                 *)
(***************************************************************************)
THEOREM RecordsKept == Spec => []NothingLost
<1>1. Init => NothingLost
  BY DEF Init, NothingLost
<1>2. TypeOK /\ NothingLost /\ [Next]_vars => NothingLost'
  <2> SUFFICES ASSUME TypeOK, NothingLost, [Next]_vars PROVE NothingLost'
    OBVIOUS
  <2> USE DEF NothingLost
  <2>1. appended \in Nat /\ written \in Nat /\ pending \in Nat /\ log \in Nat
    BY DEF TypeOK
  <2>2. CASE \E c \in Clients : ClientCall(c) \/ ClientStep(c)
    BY <2>1, <2>2 DEF ClientCall, Append, Flush, Close, ClientStep, LoadArmed, SwapArmed,
                      Unpark, Joined, writerVars, wakeVars, logVars
  <2>3. CASE Collect \/ Write \/ HoldWrite \/ AnswersDone
    BY <2>1, <2>3 DEF Collect, Write, HoldWrite, AnswersDone, logVars
  <2>4. CASE Answers
    BY <2>4 DEF Answers, Answer, AnswerEarly, logVars
  <2>5. CASE Compact \/ Sweep \/ Maintained
    BY <2>1, <2>5 DEF Compact, Sweep, Maintained, logVars
  <2>6. CASE Disarm \/ NoDisarm \/ LastLook \/ Deadline
    BY <2>6 DEF Disarm, NoDisarm, LastLook, Deadline, logVars
  <2>7. CASE Unparked \/ WindowOver \/ LateWake
    BY <2>7 DEF Unparked, WindowOver, LateWake, Wake, logVars
  <2>8. CASE UNCHANGED vars
    BY <2>8 DEF vars, logVars, writerVars
  <2> QED
    BY <2>2, <2>3, <2>4, <2>5, <2>6, <2>7, <2>8 DEF Next, WriterStep
<1> QED
  BY <1>1, <1>2, TypeCorrect, PTL DEF Spec

-----------------------------------------------------------------------------
(***************************************************************************)
(* Why no wake-up is lost.  A disarmed writer that has looked at the log   *)
(* owes nothing to it but what comes with a token or a client about to     *)
(* unpark (Promised): an append that finds the flag clear sets it and      *)
(* unparks.  Between Disarm and LastLook this may fail, which is what the  *)
(* last look is for.  And a writer parked until a distant deadline saw the *)
(* flag clear, so who set it since is about to unpark, or has (Rearmed).   *)
(***************************************************************************)
Coming   == token \/ \E c \in Clients : WillUnpark(c)
Arriving == token \/ \E c \in Clients : cpc[c] = "unpark"

Looked   == wpc \notin {"collect", "check", "done"}

Promised == Looked /\ ~armed /\ Work /\ ~closing => Coming
Rearmed  == wpc = "parked" /\ ~soon /\ armed => Arriving
Ends     == closing => wpc \in {"write", "answer", "done"}

WakeInv == Promised /\ Rearmed /\ Ends

\* The client's side: an operation on the log is followed by the wake-up it needs.
LEMMA WakeClient ==
  ASSUME TypeOK, WakeInv, NEW c \in Clients, ClientCall(c) \/ ClientStep(c)
  PROVE  WakeInv'
<1> USE DEF TypeOK, WakeInv
<1>1. Ends'
  BY DEF Ends, ClientCall, Append, Flush, Close, ClientStep, LoadArmed, SwapArmed, Unpark,
         Joined, writerVars
<1>2. CASE Append(c)
  <2>1. cpc'[c] = "load" /\ (\A d \in Clients : cpc[d] = "unpark" => cpc'[d] = "unpark")
    BY <1>2 DEF Append
  <2>2. armed' = armed /\ token' = token /\ wpc' = wpc /\ soon' = soon /\ closing' = closing
    BY <1>2 DEF Append, wakeVars, writerVars
  <2> QED
    BY <1>1, <2>1, <2>2 DEF Promised, Rearmed, Coming, Arriving, WillUnpark, Looked
<1>3. CASE Flush(c) \/ Close(c)
  <2>1. cpc'[c] = "unpark"
    BY <1>3 DEF Flush, Close
  <2> QED
    BY <1>1, <2>1 DEF Promised, Rearmed, Coming, Arriving, WillUnpark
<1>4. CASE LoadArmed(c)
  <2>1. /\ UNCHANGED <<log, flushes, closed, armed, token, wpc, soon, closing>>
        /\ \A d \in Clients : d # c => cpc'[d] = cpc[d]
        /\ cpc[c] = "load" /\ (~armed => cpc'[c] = "swap")
    BY <1>4 DEF LoadArmed, logVars, wakeVars, writerVars
  <2>2. \A d \in Clients : WillUnpark(d) => WillUnpark(d)'
    BY <2>1 DEF WillUnpark
  <2>3. \A d \in Clients : cpc[d] = "unpark" => cpc'[d] = "unpark"
    BY <2>1
  <2> QED
    BY <1>1, <2>1, <2>2, <2>3 DEF Promised, Rearmed, Coming, Arriving, Looked, Work
<1>5. CASE SwapArmed(c)
  <2>1. /\ UNCHANGED <<token, wpc, soon, closing>> /\ armed' = TRUE
        /\ \A d \in Clients : d # c => cpc'[d] = cpc[d]
        /\ cpc[c] = "swap" /\ (~armed => cpc'[c] = "unpark")
    BY <1>5 DEF SwapArmed, wakeVars, writerVars
  <2>2. \A d \in Clients : cpc[d] = "unpark" => cpc'[d] = "unpark"
    BY <2>1
  <2> QED
    BY <1>1, <2>1, <2>2 DEF Promised, Rearmed, Arriving
<1>6. CASE Unpark(c)
  BY <1>1, <1>6 DEF Unpark, Promised, Rearmed, Coming, Arriving
<1>7. CASE Joined(c)
  <2>1. UNCHANGED wpc /\ wpc = "done"
    BY <1>7 DEF Joined, writerVars
  <2> QED
    BY <1>1, <2>1 DEF Promised, Rearmed, Looked
<1> QED
  BY <1>2, <1>3, <1>4, <1>5, <1>6, <1>7 DEF ClientCall, ClientStep

\* The writer's side: it forgets a promise only on its way to collect.
LEMMA WakeWriter ==
  ASSUME TypeOK, WakeInv, WriterStep \/ LateWake
  PROVE  WakeInv'
<1> USE DEF TypeOK, WakeInv
<1> DEFINE Kept == UNCHANGED <<flushes, closed, armed, token, cpc, closing>>
<1>1. CASE Collect
  BY <1>1 DEF Collect, Promised, Rearmed, Ends, Work, wakeVars, clientVars
<1>2. CASE Write \/ HoldWrite \/ AnswersDone
  BY <1>2 DEF Write, HoldWrite, AnswersDone, Promised, Rearmed, Ends, Coming, WillUnpark,
              Work, Looked, logVars, wakeVars, clientVars
<1>3. CASE Answers
  <2>1. PICK c \in Clients : Answer(c) \/ AnswerEarly(c)
    BY <1>3 DEF Answers
  <2>2. \A d \in Clients : WillUnpark(d) => WillUnpark(d)'
    BY <2>1 DEF Answer, AnswerEarly, Answered, WillUnpark, wakeVars
  <2> QED
    BY <2>1, <2>2 DEF Answer, AnswerEarly, Promised, Rearmed, Ends, Coming, Work, Looked,
                      logVars, wakeVars
<1>4. CASE Compact \/ Sweep \/ Maintained
  BY <1>4 DEF Compact, Sweep, Maintained, Promised, Rearmed, Ends, Coming, WillUnpark,
              Work, Looked, logVars, wakeVars, clientVars
<1>5. CASE Disarm \/ NoDisarm \/ LastLook
  BY <1>5 DEF Disarm, NoDisarm, LastLook, Promised, Rearmed, Ends, Coming, WillUnpark,
              Work, Looked, logVars, wakeVars, clientVars
<1>6. CASE Deadline
  BY <1>6 DEF Deadline, Promised, Rearmed, Ends, Coming, WillUnpark, Work, Looked,
              logVars, wakeVars, clientVars
<1>7. CASE Unparked \/ WindowOver \/ LateWake
  BY <1>7 DEF Unparked, WindowOver, LateWake, Wake, Promised, Rearmed, Ends, Looked
<1> QED
  BY <1>1, <1>2, <1>3, <1>4, <1>5, <1>6, <1>7 DEF WriterStep

(***************************************************************************)
(* No interleaving of appends, flushes, closes and the writer's going to   *)
(* sleep leaves the writer parked until a distant deadline with something  *)
(* to do and nobody about to unpark it.                                    *)
(***************************************************************************)
THEOREM WakeupsKept == Spec => []NoLostWakeup
<1>1. Init => WakeInv
  BY DEF Init, WakeInv, Promised, Rearmed, Ends, Looked
<1>2. TypeOK /\ WakeInv /\ [Next]_vars => WakeInv'
  <2> SUFFICES ASSUME TypeOK, WakeInv, [Next]_vars PROVE WakeInv'
    OBVIOUS
  <2>1. CASE \E c \in Clients : ClientCall(c) \/ ClientStep(c)
    BY <2>1, WakeClient
  <2>2. CASE WriterStep \/ LateWake
    BY <2>2, WakeWriter
  <2>3. CASE UNCHANGED vars
    BY <2>3 DEF vars, logVars, wakeVars, clientVars, writerVars, WakeInv, Promised, Rearmed,
                Ends, Looked, Work, Coming, Arriving, WillUnpark
  <2> QED
    BY <2>1, <2>2, <2>3 DEF Next
<1>3. TypeOK /\ WakeInv => NoLostWakeup
  BY DEF TypeOK, WakeInv, NoLostWakeup, Promised, Rearmed, Ends, Looked, Coming, Arriving,
         WillUnpark
<1> QED
  BY <1>1, <1>2, <1>3, TypeCorrect, PTL DEF Spec
=============================================================================
