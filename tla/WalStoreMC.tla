---------------------------- MODULE WalStoreMC ----------------------------
(***************************************************************************)
(* Instances of WalStore for TLC.                                          *)
(***************************************************************************)
EXTENDS WalStore, TLC

\* Transactions on every key: all keys set, or all but one set and that one deleted.
WholeBatches ==
    {[k \in Keys |-> TRUE]} \cup {[k \in Keys |-> k # d] : d \in Keys}

\* Every key set: enough where what a batch writes does not matter.
SetBatches == {[k \in Keys |-> TRUE]}

\* One of each: every key set, and one chosen key deleted by a batch that sets the rest.
MixedBatches ==
    {[k \in Keys |-> TRUE], [k \in Keys |-> k # CHOOSE d \in Keys : TRUE]}

Symmetry == Permutations(Keys) \cup Permutations(Clients)
=============================================================================
