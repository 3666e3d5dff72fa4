-------------------------- MODULE MCPartitionClaims --------------------------
(* PartitionClaims with column names and partitions interchangeable.       *)
EXTENDS PartitionClaims, TLC

Symmetry == Permutations(ColumnNames) \cup Permutations(Partitions)
=============================================================================
