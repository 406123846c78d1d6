------------------------------ MODULE WalPark ------------------------------
(***************************************************************************)
(* How a client thread wakes the WAL writer and how the writer goes to     *)
(* sleep: the `armed` flag, the unpark token and the writer's last look at *)
(* the log (wal.rs, wal/writer.rs).                                        *)
(*                                                                         *)
(* WalStore takes it for granted that the writer runs.  Here records are   *)
(* only counted and the files are left out; what is modelled is every      *)
(* access to the flag and the token, each in a step of its own.  A timer   *)
(* of the group window fires sooner or later; the ones of the sweep and of *)
(* the fsync interval, thirty seconds and one second, may as well never.   *)
(***************************************************************************)
EXTENDS Integers

CONSTANTS
    Clients,     \* threads that append, flush and close
    GroupLen,    \* records at which a group is written without waiting for its window
    MaxAppended  \* bound on the records of a behaviour

ASSUME WalParkAssumption == GroupLen \in Nat \ {0} /\ MaxAppended \in Nat

VARIABLES
    log,      \* records in Log.bytes
    flushes,  \* Log.flushes: clients whose ack channel is queued
    closed,   \* Log.closed
    armed,    \* Shared.armed: the writer polls anyway, appends need not wake it
    token,    \* the writer thread's unpark token
    cpc,      \* where each client is
    crossed,  \* whether its append took the log over the size of a group
    after,    \* what it waits for once it has unparked the writer
    wpc,      \* where Writer::run is
    pending,  \* records in Writer.pending
    taken,    \* flushes taken and not answered yet
    closing,  \* the value of Log.closed collect saw
    soon,     \* the deadline of the current park is within the group window
    appended, \* records logged so far
    written   \* records written to the WAL so far

logVars    == <<log, flushes, closed, appended>>
wakeVars   == <<armed, token>>
clientVars == <<cpc, crossed, after>>
writerVars == <<wpc, pending, taken, closing, soon, written>>
vars == <<logVars, wakeVars, clientVars, writerVars>>

Init ==
    /\ log = 0 /\ flushes = {} /\ closed = FALSE /\ appended = 0
    /\ armed = FALSE /\ token = FALSE
    /\ cpc = [c \in Clients |-> "idle"]
    /\ crossed = [c \in Clients |-> FALSE]
    /\ after = [c \in Clients |-> "idle"]
    /\ wpc = "collect" /\ pending = 0 /\ taken = {} /\ closing = FALSE
    /\ soon = FALSE /\ written = 0

-----------------------------------------------------------------------------
(***************************************************************************)
(* Client threads.  The log lock covers the append or the push, never the  *)
(* wake-up that follows it.                                                *)
(***************************************************************************)
Append(c) ==
    /\ cpc[c] = "idle" /\ ~closed /\ appended < MaxAppended
    /\ log' = log + 1 /\ appended' = appended + 1
    /\ crossed' = [crossed EXCEPT ![c] = log < GroupLen /\ log + 1 >= GroupLen]
    /\ after' = [after EXCEPT ![c] = "idle"]
    /\ cpc' = [cpc EXCEPT ![c] = "load"]
    /\ UNCHANGED <<flushes, closed, wakeVars, writerVars>>

\* notify_writer loads the flag, and swaps it only if it was clear.
LoadArmed(c) ==
    /\ cpc[c] = "load"
    /\ cpc' = [cpc EXCEPT ![c] = IF ~armed THEN "swap"
                                 ELSE IF crossed[c] THEN "unpark" ELSE "idle"]
    /\ UNCHANGED <<logVars, wakeVars, crossed, after, writerVars>>

SwapArmed(c) ==
    /\ cpc[c] = "swap"
    /\ armed' = TRUE
    /\ cpc' = [cpc EXCEPT ![c] = IF ~armed \/ crossed[c] THEN "unpark" ELSE "idle"]
    /\ UNCHANGED <<logVars, token, crossed, after, writerVars>>

\* Mutant: a flush relies on the next append to wake the writer.
FlushQuietly(c) ==
    /\ cpc[c] = "idle" /\ ~closed
    /\ flushes' = flushes \cup {c}
    /\ cpc' = [cpc EXCEPT ![c] = "flush"]
    /\ UNCHANGED <<log, closed, appended, wakeVars, crossed, after, writerVars>>

Flush(c) ==
    /\ cpc[c] = "idle" /\ ~closed
    /\ flushes' = flushes \cup {c}
    /\ after' = [after EXCEPT ![c] = "flush"]
    /\ cpc' = [cpc EXCEPT ![c] = "unpark"]
    /\ UNCHANGED <<log, closed, appended, wakeVars, crossed, writerVars>>

\* Mutant: close marks the log and joins without waking the writer.
CloseQuietly(c) ==
    /\ cpc[c] = "idle"
    /\ closed' = TRUE
    /\ cpc' = [cpc EXCEPT ![c] = "join"]
    /\ UNCHANGED <<log, flushes, appended, wakeVars, crossed, after, writerVars>>

Close(c) ==
    /\ cpc[c] = "idle"
    /\ closed' = TRUE
    /\ after' = [after EXCEPT ![c] = "join"]
    /\ cpc' = [cpc EXCEPT ![c] = "unpark"]
    /\ UNCHANGED <<log, flushes, appended, wakeVars, crossed, writerVars>>

\* A flush whose ack came before its own unpark does not wait.
Unpark(c) ==
    /\ cpc[c] = "unpark"
    /\ token' = TRUE
    /\ cpc' = [cpc EXCEPT ![c] = after[c]]
    /\ UNCHANGED <<logVars, armed, crossed, after, writerVars>>

Joined(c) ==
    /\ cpc[c] = "join" /\ wpc = "done"
    /\ cpc' = [cpc EXCEPT ![c] = "idle"]
    /\ UNCHANGED <<logVars, wakeVars, crossed, after, writerVars>>

ClientCall(c) == Append(c) \/ Flush(c) \/ Close(c)
ClientStep(c) == LoadArmed(c) \/ SwapArmed(c) \/ Unpark(c) \/ Joined(c)

-----------------------------------------------------------------------------
(***************************************************************************)
(* The writer thread, one turn of its loop.                                *)
(***************************************************************************)
Collect ==
    /\ wpc = "collect" /\ wpc' = "write"
    /\ pending' = pending + log /\ log' = 0
    /\ taken' = flushes /\ flushes' = {}
    /\ closing' = closed
    /\ UNCHANGED <<closed, appended, wakeVars, clientVars, soon, written>>

Write ==
    /\ wpc = "write" /\ wpc' = "answer"
    /\ pending > 0
    /\ written' = written + pending /\ pending' = 0
    /\ UNCHANGED <<logVars, wakeVars, clientVars, taken, closing, soon>>

\* There is nothing to write, or nothing urgent and the window has not elapsed.
HoldWrite ==
    /\ wpc = "write" /\ wpc' = "answer"
    /\ pending = 0 \/ (~closing /\ taken = {} /\ pending < GroupLen)
    /\ UNCHANGED <<logVars, wakeVars, clientVars, pending, taken, closing, soon, written>>

Answered(c) == [cpc EXCEPT ![c] = "idle"]

\* The ack waits in its channel for a client that has yet to call recv.
Answer(c) ==
    /\ wpc = "answer" /\ c \in taken /\ cpc[c] = "flush"
    /\ taken' = taken \ {c}
    /\ cpc' = Answered(c)
    /\ UNCHANGED <<logVars, wakeVars, crossed, after, wpc, pending, closing, soon, written>>

AnswerEarly(c) ==
    /\ wpc = "answer" /\ c \in taken /\ cpc[c] = "unpark"
    /\ taken' = taken \ {c}
    /\ after' = [after EXCEPT ![c] = "idle"]
    /\ UNCHANGED <<logVars, wakeVars, cpc, crossed, wpc, pending, closing, soon, written>>

Answers == \E c \in Clients : Answer(c) \/ AnswerEarly(c)

AnswersDone ==
    /\ wpc = "answer" /\ taken = {}
    /\ wpc' = IF closing THEN "done" ELSE "maintain"
    /\ UNCHANGED <<logVars, wakeVars, clientVars, pending, taken, closing, soon, written>>

\* A compaction writes what is queued.
Compact ==
    /\ wpc = "maintain" /\ wpc' = "sweep"
    /\ written' = written + pending + log /\ pending' = 0 /\ log' = 0
    /\ UNCHANGED <<flushes, closed, appended, wakeVars, clientVars, taken, closing, soon>>

\* A sweep queues a delete of its own and takes the queue; nobody arms the writer for it.
Sweep ==
    /\ wpc \in {"maintain", "sweep"} /\ wpc' = "park"
    /\ ~closed /\ appended < MaxAppended
    /\ pending' = pending + log + 1 /\ log' = 0 /\ appended' = appended + 1
    /\ UNCHANGED <<flushes, closed, wakeVars, clientVars, taken, closing, soon, written>>

Maintained ==
    /\ wpc \in {"maintain", "sweep"} /\ wpc' = "park"
    /\ UNCHANGED <<logVars, wakeVars, clientVars, pending, taken, closing, soon, written>>

\* Nothing came for the length of the linger: disarm before the last look.
Disarm ==
    /\ wpc = "park" /\ wpc' = "check"
    /\ pending = 0 /\ armed
    /\ armed' = FALSE
    /\ UNCHANGED <<logVars, token, clientVars, pending, taken, closing, soon, written>>

\* Disarmed already, something pending, or within the linger.
NoDisarm ==
    /\ wpc = "park" /\ wpc' = "deadline"
    /\ UNCHANGED <<logVars, wakeVars, clientVars, pending, taken, closing, soon, written>>

\* Mutant: there is no last look at the log.
NoLastLook ==
    /\ wpc = "check" /\ wpc' = "deadline"
    /\ UNCHANGED <<logVars, wakeVars, clientVars, pending, taken, closing, soon, written>>

LastLook ==
    /\ wpc = "check"
    /\ wpc' = IF log > 0 \/ flushes # {} \/ closed THEN "collect" ELSE "deadline"
    /\ UNCHANGED <<logVars, wakeVars, clientVars, pending, taken, closing, soon, written>>

\* Mutant: the deadline does not look at the armed flag.
DeadlineIgnoresArmed ==
    /\ wpc = "deadline" /\ wpc' = "parked"
    /\ soon' = (pending > 0)
    /\ UNCHANGED <<logVars, wakeVars, clientVars, pending, taken, closing, written>>

\* next_timeout: the group window counts while something is pending or the writer is armed.
Deadline ==
    /\ wpc = "deadline" /\ wpc' = "parked"
    /\ soon' = (pending > 0 \/ armed)
    /\ UNCHANGED <<logVars, wakeVars, clientVars, pending, taken, closing, written>>

Wake ==
    /\ wpc = "parked" /\ wpc' = "collect"
    /\ UNCHANGED <<logVars, clientVars, pending, taken, closing, soon, written>>

Unparked   == token /\ Wake /\ token' = FALSE /\ UNCHANGED armed
WindowOver == soon /\ Wake /\ UNCHANGED wakeVars
\* The deadline of the sweep or of the fsync, or a park that returns for no reason.
LateWake   == Wake /\ UNCHANGED wakeVars

\* What the writer does without waiting for a distant deadline.
WriterStep ==
    \/ Collect \/ Write \/ HoldWrite \/ Answers \/ AnswersDone
    \/ Compact \/ Sweep \/ Maintained \/ Disarm \/ NoDisarm \/ LastLook \/ Deadline
    \/ Unparked \/ WindowOver

Next ==
    \/ \E c \in Clients : ClientCall(c) \/ ClientStep(c)
    \/ WriterStep \/ LateWake

Spec == Init /\ [][Next]_vars

(***************************************************************************)
(* Threads inside the store keep running, a park with a near deadline      *)
(* returns, and the group window elapses in the end: the writer cannot     *)
(* hold a group in every turn.  Nothing is asked of LateWake.              *)
(***************************************************************************)
Fairness ==
    /\ WF_vars(WriterStep)
    /\ SF_vars(Write)
    /\ \A c \in Clients : WF_vars(ClientStep(c))

FairSpec == Spec /\ Fairness
-----------------------------------------------------------------------------
(***************************************************************************)
(* Properties.                                                             *)
(***************************************************************************)
TypeOK ==
    /\ log \in Nat /\ flushes \subseteq Clients /\ closed \in BOOLEAN /\ appended \in Nat
    /\ armed \in BOOLEAN /\ token \in BOOLEAN
    /\ cpc \in [Clients -> {"idle", "load", "swap", "unpark", "flush", "join"}]
    /\ crossed \in [Clients -> BOOLEAN]
    /\ after \in [Clients -> {"idle", "flush", "join"}]
    /\ wpc \in {"collect", "write", "answer", "maintain", "sweep", "park", "check",
                "deadline", "parked", "done"}
    /\ pending \in Nat /\ taken \subseteq Clients /\ closing \in BOOLEAN
    /\ soon \in BOOLEAN /\ written \in Nat

Work == log > 0 \/ flushes # {} \/ closed

\* A client that will unpark the writer whatever the others do first.
WillUnpark(c) == cpc[c] = "unpark" \/ (cpc[c] \in {"load", "swap"} /\ ~armed)

(***************************************************************************)
(* No lost wake-up ("a later append sees it through the mutex and wakes    *)
(* us"): while the writer is parked until a distant deadline, anything     *)
(* left for it in the log comes with a token or with a client about to     *)
(* unpark it.                                                              *)
(***************************************************************************)
NoLostWakeup ==
    (wpc = "parked" /\ ~soon /\ Work) => (token \/ \E c \in Clients : WillUnpark(c))

\* Every record is in the file, in the writer's buffer or in the log, and in one of them only.
NothingLost == appended = written + pending + log

\* Every record logged is written to the WAL, without help from the sweep's timer.
RecordsWritten == \A n \in 1..MaxAppended : (appended >= n) ~> (written >= n)

\* Every flush is answered, every close finds the writer gone.
FlushAnswered == \A c \in Clients : (cpc[c] = "flush") ~> (cpc[c] # "flush")
CloseJoins    == \A c \in Clients : (cpc[c] = "join") ~> (cpc[c] # "join")
=============================================================================
