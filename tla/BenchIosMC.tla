----------------------------- MODULE BenchIosMC -----------------------------
(***************************************************************************)
(* An instance of BenchIos for TLC: two launches, two runs of each kind in *)
(* a process, and in a behaviour at most one deed of the user.             *)
(***************************************************************************)
EXTENDS BenchIos

SmallPhases == <<"throughput", "latency", "latency", "wrapper">>
Trials == {1, 2, 4}
OneDeed == {{"test"}, {"benchmark"}, {"refresh"}}
=============================================================================
