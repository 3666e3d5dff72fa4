-------------------------- MODULE MCParallelAggregate --------------------------
(* Inputs, key values and hash functions for ParallelAggregate. *)
EXTENDS ParallelAggregate
CONSTANTS a, b, nul, empty
MCKeys == {a, b, nul}
StringKeys == {a, empty, nul}
\* a hashes to worker 0; the others to worker 1.
MCHash == [k \in MCKeys \union {empty} |-> IF k = a THEN 0 ELSE 1]
StringHash == [k \in StringKeys |-> IF k = a THEN 0 ELSE 1]
\* Rows of one group in several batches, an empty batch, a null key, and
\* more batches for worker 1 than its inbox holds.
MCInputs == {<< <<a, b>>, <<>>, <<b, nul, b>>, <<b, a>> >>,
             << <<b>>, <<nul, b>>, <<b>>, <<a>> >>}
StringInputs == {<< <<a, nul>>, <<empty>> >>}
None == {}
Third == {3}
Fourth == {4}
=============================================================================
