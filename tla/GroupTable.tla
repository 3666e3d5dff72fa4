------------------------------ MODULE GroupTable ------------------------------
(***************************************************************************)
(* Which group a row belongs to, and the table of groups an aggregation    *)
(* builds.  A batch is the sequence of its rows' key values; a row is      *)
(* <<batch number, row number>>; a group is the sequence of its rows in    *)
(* arrival order, the input of every accumulator (first, last and mode     *)
(* depend on the order).                                                   *)
(***************************************************************************)
EXTENDS Naturals, Sequences

CONSTANTS Null,        \* the null key value
          EmptyString  \* the key value ""

ASSUME KeyAssumption == Null # EmptyString

KeyModes == {"composite", "string1", "int641"}

\* The group key of a row under a key mode, as a set of at most one key:
\* the single-string fast path reads a null slot as "", the single-integer
\* fast path skips null rows, and the composite encoding tags nulls.
KeyOf(mode, v) ==
    IF v # Null \/ mode = "composite" THEN {v}
    ELSE IF mode = "string1" THEN {EmptyString}
    ELSE {}

\* The rows of batch n that belong to group k, in row order.
RowsOf(mode, input, n, k) ==
    LET upTo[i \in 0..Len(input[n])] ==
            IF i = 0 THEN <<>>
            ELSE IF k \in KeyOf(mode, input[n][i]) THEN Append(upTo[i - 1], <<n, i>>)
            ELSE upTo[i - 1]
    IN  upTo[Len(input[n])]

\* The groups of a key set after each number of batches of an input: the
\* serial build takes the batches one after another.
SerialTables(mode, input, keys) ==
    LET upTo[n \in 0..Len(input)] ==
            IF n = 0 THEN [k \in keys |-> <<>>]
            ELSE [k \in keys |-> upTo[n - 1][k] \o RowsOf(mode, input, n, k)]
    IN  upTo

SerialTable(mode, input, keys) == SerialTables(mode, input, keys)[Len(input)]

=============================================================================
