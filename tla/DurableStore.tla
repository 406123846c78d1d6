---------------------------- MODULE DurableStore ----------------------------
(***************************************************************************)
(* What a persistent store promises its callers (README.md, "Durability"   *)
(* and "Transactions"), whatever threads and files it is made of.  The map *)
(* goes through a sequence of states; a flush or a close that answered Ok  *)
(* moves the durable point; a store that is opened again finds every key   *)
(* as it was at some moment since that point, and every batch whole.       *)
(*                                                                         *)
(* The value a write leaves is the number of the state it made, so that a  *)
(* value tells which write it came from.                                   *)
(***************************************************************************)
EXTENDS Integers, Sequences

CONSTANTS Keys, Clients

VARIABLES
    past,     \* the states of the map, in order
    durable,  \* no key is found older than this state
    batches,  \* the state each batch made, and its keys
    waiting,  \* the state each client's flush has to save, or 0
    mode,     \* "open", "closed" or "down"
    broken    \* an I/O error is recorded, until the store is opened again

vars == <<past, durable, batches, waiting, mode, broken>>

Missing == 0
Nobody  == [c \in Clients |-> 0]
Tip     == past[Len(past)]
Number  == Len(past) + 1   \* of the state the next write makes

Init ==
    /\ past = <<[k \in Keys |-> Missing]>>
    /\ durable = 1 /\ batches = {} /\ waiting = Nobody
    /\ mode = "open" /\ broken = FALSE

\* One key is set, deleted or evicted.
Write ==
    /\ mode = "open"
    /\ \E k \in Keys, v \in {Missing, Number} :
          past' = Append(past, [x \in Keys |-> IF x = k THEN v ELSE Tip[x]])
    /\ UNCHANGED <<durable, batches, waiting, mode, broken>>

Clear ==
    /\ mode = "open"
    /\ past' = Append(past, [k \in Keys |-> Missing])
    /\ UNCHANGED <<durable, batches, waiting, mode, broken>>

\* A transaction sets some keys and deletes others, at once.
Batch ==
    /\ mode = "open"
    /\ \E ks \in (SUBSET Keys) \ {{}} : \E sets \in SUBSET ks :
          /\ past' = Append(past, [k \in Keys |-> IF k \in sets THEN Number
                                                  ELSE IF k \in ks THEN Missing
                                                  ELSE Tip[k]])
          /\ batches' = batches \cup {[at |-> Number, keys |-> ks]}
    /\ UNCHANGED <<durable, waiting, mode, broken>>

\* flush() waits until all that was written before it is saved.
Flush(c) ==
    /\ mode = "open" /\ waiting[c] = 0
    /\ waiting' = [waiting EXCEPT ![c] = Len(past)]
    /\ UNCHANGED <<past, durable, batches, mode, broken>>

Answer(c) ==
    /\ waiting[c] # 0 /\ ~broken
    /\ durable' = IF waiting[c] > durable THEN waiting[c] ELSE durable
    /\ waiting' = [waiting EXCEPT ![c] = 0]
    /\ UNCHANGED <<past, batches, mode, broken>>

\* Only a store that has failed answers with an error.
Refuse(c) ==
    /\ waiting[c] # 0 /\ broken
    /\ waiting' = [waiting EXCEPT ![c] = 0]
    /\ UNCHANGED <<past, durable, batches, mode, broken>>

Fail ==
    /\ mode # "down" /\ broken' = TRUE
    /\ UNCHANGED <<past, durable, batches, waiting, mode>>

\* From now on nothing is written and no flush begins.
Close ==
    /\ mode = "open" /\ mode' = "closed"
    /\ UNCHANGED <<past, durable, batches, waiting, broken>>

\* A close without an error has answered every flush and saved everything.
Drained ==
    /\ mode = "closed" /\ ~broken /\ waiting = Nobody
    /\ durable' = Len(past)
    /\ UNCHANGED <<past, batches, waiting, mode, broken>>

Crash ==
    /\ mode' = "down" /\ broken' = FALSE /\ waiting' = Nobody
    /\ UNCHANGED <<past, durable, batches>>

\* Key k is found as it was at the moment at[k]; one key of a batch brings the others.
Recover ==
    /\ mode \in {"closed", "down"} /\ waiting = Nobody
    /\ mode' = "open" /\ broken' = FALSE
    /\ \E at \in [Keys -> durable..Len(past)] :
          LET found == [k \in Keys |-> past[at[k]][k]] IN
          /\ past' = Append(past, found)
          /\ \A b \in batches : (\E k \in b.keys : found[k] = b.at) =>
                                  \A k \in b.keys : at[k] >= b.at
    /\ UNCHANGED <<durable, batches, waiting>>

Next ==
    \/ Write \/ Clear \/ Batch \/ Fail \/ Close \/ Drained \/ Crash \/ Recover
    \/ \E c \in Clients : Flush(c) \/ Answer(c) \/ Refuse(c)

Spec == Init /\ [][Next]_vars
=============================================================================
