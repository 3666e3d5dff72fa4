----------------------------- MODULE MCMergeJoin -----------------------------
(* MergeJoin over eight-bit keys of both signs.                            *)
EXTENDS MergeJoin

SignedKeys == {-1, 0, 1}
=============================================================================
