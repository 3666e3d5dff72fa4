---------------------------- MODULE MCParallelScan ----------------------------
(* Model values for the workers of ParallelScan. *)
EXTENDS ParallelScan
CONSTANTS s1, s2
TwoSubs == {s1, s2}
OneHides == {s2}
NoSubs == {}
=============================================================================
