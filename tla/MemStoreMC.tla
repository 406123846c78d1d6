----------------------------- MODULE MemStoreMC -----------------------------
(***************************************************************************)
(* Instances of MemStore for TLC.                                          *)
(***************************************************************************)
EXTENDS MemStore, TLC

\* No max_entries, and a limit one key below what the store may hold.
SmallLimits == {NoLimit, 1}

\* A limit, for the property that is about eviction.
OneEntry == {1}

Symmetry == Permutations(Keys) \cup Permutations(Clients)
=============================================================================
