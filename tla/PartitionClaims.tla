--------------------------- MODULE PartitionClaims ---------------------------
(***************************************************************************)
(* Partition claims (PartitionMetadata) as they travel through a plan.     *)
(*                                                                         *)
(* A source says of its rows: rows that agree on "columns" lie in one      *)
(* partition, and inside a partition the rows are in the order of          *)
(* "sortedBy" if that order is "enforced".  Every plan node derives the    *)
(* claim of its output from the claim of its input, without looking at     *)
(* the rows.  GroupBy and Over believe the claim of the frame they get:    *)
(* if it says that equal keys are neighbours they scan instead of hashing, *)
(* and a false claim gives wrong groups without any error.                 *)
(*                                                                         *)
(* The model carries the rows, with the partition each lies in, next to    *)
(* the claim.  A frame is a sequence of rows; an operator that selects or  *)
(* repeats rows is frame.take with the positions it keeps.                 *)
(*                                                                         *)
(* Two things the rules do not notice: an operator that computes anew a    *)
(* column the claim names, and a source read by two workers at once.  The  *)
(* model has both, and keeps a history of them, so that it can say what of *)
(* a claim is still true afterwards.                                       *)
(***************************************************************************)
EXTENDS Integers, Sequences, FiniteSets

CONSTANTS
  ColumnNames,       \* names a column can have
  Values,            \* values of a cell
  Partitions,        \* partitions (buckets, files) a source writes
  HashFns,           \* tags of hash functions
  ValuePartitioned,  \* the empty tag
  NoClaim,           \* the nil *PartitionMetadata
  MaxRows,           \* bound: rows of a frame
  MaxColumns,        \* bound: columns of a frame
  Directions         \* bound: directions of the sort keys of claims and sorts

ASSUME ValuesAssumption == Values \subseteq Int /\ Values # {}
ASSUME HashAssumption == ValuePartitioned \in HashFns
ASSUME BoundsAssumption ==
  MaxRows \in Nat /\ MaxColumns \in Nat /\ Directions \subseteq BOOLEAN

VARIABLES
  frame, schema, claim, scanned,
  recomputed,   \* history: columns of the claim computed anew since it was made
  interleaved   \* history: were the rows whose order it enforces read by two workers?
vars == <<frame, schema, claim, scanned, recomputed, interleaved>>

Row(S) == [partition : Partitions, cell : [S -> Values]]
SortKey == [column : ColumnNames, descending : BOOLEAN]
Claim == [columns : Seq(ColumnNames), hashFn : HashFns,
          sortedBy : Seq(SortKey), sortEnforced : BOOLEAN]

(***************************************************************************)
(* What the model checker enumerates: lists without repetition.            *)
(***************************************************************************)
Lists(S, n) == UNION {{s \in [1..k -> S] : \A i, j \in 1..k : s[i] = s[j] => i = j} : k \in 0..n}
KeyLists(S) == Lists(S, 2) \ {<<>>}
SortLists(S, directions) ==
  {sb \in Lists([column : S, descending : directions], 2) :
     \A i, j \in DOMAIN sb : sb[i].column = sb[j].column => i = j}
Claims(S) == [columns : Lists(S, 2), hashFn : HashFns, sortedBy : SortLists(S, Directions), sortEnforced : BOOLEAN]
Frames(S) == UNION {[1..n -> Row(S)] : n \in 0..MaxRows}
Schemas == {S \in SUBSET ColumnNames : S # {} /\ Cardinality(S) <= MaxColumns}

-----------------------------------------------------------------------------
(***************************************************************************)
(* What a claim means.                                                     *)
(***************************************************************************)
SameCells(r, s, cols) == \A n \in DOMAIN cols : r.cell[cols[n]] = s.cell[cols[n]]

\* r may stand before s in the order of the sort keys.
InOrder(r, s, keys) ==
  \A p \in DOMAIN keys :
    (\A q \in 1..(p - 1) : r.cell[keys[q].column] = s.cell[keys[q].column])
      => IF keys[p].descending
         THEN r.cell[keys[p].column] >= s.cell[keys[p].column]
         ELSE r.cell[keys[p].column] <= s.cell[keys[p].column]

ColumnsOf(cols) == {cols[n] : n \in DOMAIN cols}
KeysOf(sortedBy) == {sortedBy[n].column : n \in DOMAIN sortedBy}
Names(c) == ColumnsOf(c.columns) \cup KeysOf(c.sortedBy)

Colocated(f, c) ==
  c.columns # <<>> =>
    \A i, j \in DOMAIN f : SameCells(f[i], f[j], c.columns) => f[i].partition = f[j].partition

Contiguous(f) ==
  \A i, k, j \in DOMAIN f :
    i < k /\ k < j /\ f[i].partition = f[j].partition => f[k].partition = f[i].partition

SortedWithin(f, keys) ==
  \A i, j \in DOMAIN f : i < j /\ f[i].partition = f[j].partition => InOrder(f[i], f[j], keys)

Prefix(s, n) == [i \in 1..n |-> s[i]]

\* Lengths of the prefixes of the sort keys that no stale column is in.
FreshLengths(keys, stale) == {n \in 0..Len(keys) : \A i \in 1..n : keys[i].column \notin stale}

\* The claim c is true of the frame f of columns S, as far as it does not rest
\* on stale columns, nor on an order of rows that are mixed.
Sound(f, S, c, stale, mixed) ==
  /\ Names(c) \subseteq S
  /\ (\A n \in DOMAIN c.columns : c.columns[n] \notin stale) => Colocated(f, c)
  /\ c.sortEnforced /\ ~mixed =>
       /\ Contiguous(f)
       /\ \A n \in FreshLengths(c.sortedBy, stale) : SortedWithin(f, Prefix(c.sortedBy, n))

-----------------------------------------------------------------------------
(***************************************************************************)
(* The rules of partition.go and plan.go.                                  *)
(***************************************************************************)
IsSortedByPrefix(candidate, full) ==
  Len(candidate) <= Len(full) /\ \A i \in DOMAIN candidate : candidate[i] = full[i]

\* The check as it would be if a sort hint could be upgraded.
ValidateAssertionUpgrades(src, assertion) ==
  src # NoClaim =>
    /\ src.columns = assertion.columns
    /\ src.hashFn = assertion.hashFn
    /\ IsSortedByPrefix(assertion.sortedBy, src.sortedBy)

ValidateAssertion(src, assertion) ==
  src # NoClaim =>
    /\ src.columns = assertion.columns
    /\ src.hashFn = assertion.hashFn
    /\ IsSortedByPrefix(assertion.sortedBy, src.sortedBy)
    /\ assertion.sortEnforced => src.sortEnforced

\* Lengths of the prefix of the sort keys that a projection onto S keeps: one length.
KeptLengths(keys, S) ==
  {n \in 0..Len(keys) : /\ \A i \in 1..n : keys[i].column \in S
                        /\ n < Len(keys) => keys[n + 1].column \notin S}

\* The claim after a projection onto S that keeps n sort keys.
PropagateProjection(in, S, n) ==
  IF in = NoClaim THEN NoClaim
  ELSE IF \E i \in DOMAIN in.columns : in.columns[i] \notin S THEN NoClaim
  ELSE [in EXCEPT !.sortedBy = Prefix(@, n), !.sortEnforced = @ /\ n > 0]

PropagateLimit(in) ==
  IF in = NoClaim \/ in.sortedBy = <<>> THEN in
  ELSE IF in.sortEnforced THEN in
  ELSE [in EXCEPT !.sortedBy = <<>>, !.sortEnforced = FALSE]

Unsorted(in) == IF in = NoClaim THEN NoClaim ELSE [in EXCEPT !.sortedBy = <<>>, !.sortEnforced = FALSE]

RenamedTo(c, old, new) == IF c = old THEN new ELSE c
RenamedClaim(in, old, new) ==
  [columns |-> [n \in DOMAIN in.columns |-> RenamedTo(in.columns[n], old, new)],
   hashFn |-> in.hashFn,
   sortedBy |-> [n \in DOMAIN in.sortedBy |->
                   [column |-> RenamedTo(in.sortedBy[n].column, old, new),
                    descending |-> in.sortedBy[n].descending]],
   sortEnforced |-> in.sortEnforced]

-----------------------------------------------------------------------------
(***************************************************************************)
(* Operators.  Maps(n, m): ways to take n rows from m in stream order,     *)
(* with repetitions; a map is strict when no row is repeated.              *)
(***************************************************************************)
Maps(n, m) == {p \in [1..n -> 1..m] : \A i, j \in 1..n : i < j => p[i] <= p[j]}
StrictMaps(n, m) == {p \in [1..n -> 1..m] : \A i, j \in 1..n : i < j => p[i] < p[j]}

Take(f, p) == [i \in DOMAIN p |-> f[p[i]]]
Restricted(f, S) == [i \in DOMAIN f |-> [f[i] EXCEPT !.cell = [c \in S |-> f[i].cell[c]]]]
\* f with column c holding v (a value per row), appended or replaced.
WithCells(f, S, c, v) ==
  [i \in DOMAIN f |-> [f[i] EXCEPT !.cell = [d \in S \cup {c} |-> IF d = c THEN v[i] ELSE f[i].cell[d]]]]

\* The columns a claim promises anything of: the keys of a hint, or of an order
\* that is lost, are none.
Promised(c, mixed) ==
  ColumnsOf(c.columns) \cup IF c.sortEnforced /\ ~mixed THEN KeysOf(c.sortedBy) ELSE {}

\* The history after a step that computes the columns cs.  A new claim starts
\* with none, an old one forgets what it no longer speaks of.
History(cs) ==
  LET kept == claim # NoClaim /\ claim' # NoClaim IN
  /\ interleaved' = (interleaved /\ kept /\ claim'.sortEnforced)
  /\ recomputed' = IF kept THEN (recomputed \cup cs) \cap Promised(claim', interleaved) ELSE {}

Init ==
  /\ scanned = FALSE /\ recomputed = {} /\ interleaved = FALSE
  /\ schema \in Schemas
  /\ frame \in Frames(schema)
  /\ claim \in {c \in Claims(schema) : Sound(frame, schema, c, {}, FALSE)} \cup {NoClaim}

\* Reading the source: in order, or by two workers that each read one half
\* of it and whose batches (rows, here) arrive interleaved.
Scan ==
  /\ ~scanned
  /\ scanned' = TRUE
  /\ \/ UNCHANGED <<frame, interleaved>>
     \/ /\ interleaved' = (claim # NoClaim /\ claim.sortEnforced)
        /\ \E half \in 0..Len(frame), p \in [1..Len(frame) -> 1..Len(frame)] :
             /\ \A i, j \in 1..Len(frame) :
                  i < j => p[i] # p[j] /\ ((p[i] <= half <=> p[j] <= half) => p[i] < p[j])
             /\ frame' = Take(frame, p)
  /\ UNCHANGED <<schema, claim, recomputed>>

Filter ==
  /\ scanned
  /\ \E n \in 0..Len(frame) : \E p \in StrictMaps(n, Len(frame)) : frame' = Take(frame, p)
  /\ UNCHANGED <<schema, claim, scanned, recomputed, interleaved>>

\* Select: columns referred to by name, and at most one computed column.
Project ==
  /\ scanned
  /\ \E S \in Schemas, computed \in {{}} \cup {{c} : c \in ColumnNames} :
       /\ computed \subseteq S /\ S \ computed \subseteq schema
       /\ schema' = S
       /\ \E n \in IF claim = NoClaim THEN {0} ELSE KeptLengths(claim.sortedBy, S) :
            claim' = PropagateProjection(claim, S, n)
       /\ History(computed)
       /\ \E v \in [computed -> [DOMAIN frame -> Values]] :
            frame' = [i \in DOMAIN frame |->
              [frame[i] EXCEPT !.cell = [d \in S |-> IF d \in computed THEN v[d][i] ELSE frame[i].cell[d]]]]
  /\ UNCHANGED scanned

WithColumn ==
  /\ scanned
  /\ \E c \in ColumnNames :
       /\ schema \cup {c} \in Schemas
       /\ schema' = schema \cup {c}
       /\ claim' = claim
       /\ History({c})
       /\ \E v \in [DOMAIN frame -> Values] : frame' = WithCells(frame, schema, c, v)
  /\ UNCHANGED scanned

FirstRows ==
  /\ scanned
  /\ \E n \in 0..Len(frame) : frame' = SubSeq(frame, 1, n)
  /\ claim' = PropagateLimit(claim)
  /\ History({})
  /\ UNCHANGED <<schema, scanned>>

LastRows ==
  /\ scanned
  /\ \E n \in 0..Len(frame) : frame' = SubSeq(frame, Len(frame) - n + 1, Len(frame))
  /\ claim' = PropagateLimit(claim)
  /\ History({})
  /\ UNCHANGED <<schema, scanned>>

\* A global, stable sort: the output is one partition.
Sort ==
  /\ scanned
  /\ \E p \in [1..Len(frame) -> 1..Len(frame)], keys \in SortLists(schema, Directions) \ {<<>>} :
       /\ \A i, j \in 1..Len(frame) : i < j => p[i] # p[j] /\ InOrder(frame[p[i]], frame[p[j]], keys)
       /\ \A i, j \in 1..Len(frame) : i < j /\ p[i] > p[j] => ~InOrder(frame[p[j]], frame[p[i]], keys)
       /\ frame' = [i \in 1..Len(frame) |-> [frame[p[i]] EXCEPT !.partition = frame[1].partition]]
       /\ claim' = [columns |-> <<>>, hashFn |-> ValuePartitioned, sortedBy |-> keys, sortEnforced |-> TRUE]
  /\ recomputed' = {} /\ interleaved' = FALSE
  /\ UNCHANGED <<schema, scanned>>

\* One row per group, in any order, with one aggregated column.  No two rows
\* agree on the keys any more, so that a claim of them is true again.
Aggregate ==
  /\ scanned
  /\ \E keys \in KeyLists(schema), c \in ColumnNames, n \in 0..Len(frame) :
     \E p \in [1..n -> DOMAIN frame] :
       LET K == {keys[i] : i \in DOMAIN keys} IN
       /\ c \notin K /\ K \cup {c} \in Schemas
       /\ \A i, j \in 1..n : SameCells(frame[p[i]], frame[p[j]], keys) => i = j
       /\ \A j \in DOMAIN frame : \E i \in 1..n : SameCells(frame[p[i]], frame[j], keys)
       /\ schema' = K \cup {c}
       /\ \E v \in [1..n -> Values] : frame' = WithCells(Restricted(Take(frame, p), K), K, c, v)
       /\ claim' = IF claim = NoClaim THEN NoClaim
                   ELSE IF claim.columns # keys THEN NoClaim
                   ELSE Unsorted(claim)
  /\ recomputed' = {} /\ interleaved' = FALSE
  /\ UNCHANGED scanned

\* A hash join, with at most one column of the right side.  Left-driven (inner,
\* left, semi, anti): left rows kept, repeated or dropped in stream order; driven
\* by the right side (right, full): left rows in any order, and no claim.
Join ==
  /\ scanned
  /\ \E leftDriven \in BOOLEAN, n \in 0..MaxRows : \E p \in [1..n -> 1..Len(frame)] :
       /\ leftDriven => p \in Maps(n, Len(frame))
       /\ claim' = IF leftDriven THEN Unsorted(claim) ELSE NoClaim
       /\ \/ frame' = Take(frame, p) /\ schema' = schema
          \/ \E c \in ColumnNames \ schema, v \in [1..n -> Values] :
               /\ schema \cup {c} \in Schemas
               /\ schema' = schema \cup {c}
               /\ frame' = WithCells(Take(frame, p), schema, c, v)
       /\ History({})
  /\ UNCHANGED scanned

Drop ==
  /\ scanned
  /\ \E c \in schema :
       /\ schema \ {c} \in Schemas
       /\ schema' = schema \ {c}
       /\ frame' = Restricted(frame, schema \ {c})
       /\ \E n \in IF claim = NoClaim THEN {0} ELSE KeptLengths(claim.sortedBy, schema \ {c}) :
            claim' = PropagateProjection(claim, schema \ {c}, n)
       /\ History({})
  /\ UNCHANGED scanned

Rename ==
  /\ scanned
  /\ \E old \in schema, new \in ColumnNames \ schema :
       /\ schema' = (schema \ {old}) \cup {new}
       /\ frame' = [i \in DOMAIN frame |->
                      [frame[i] EXCEPT !.cell = [d \in (schema \ {old}) \cup {new} |->
                                                   frame[i].cell[IF d = new THEN old ELSE d]]]]
       /\ claim' = IF claim = NoClaim THEN NoClaim ELSE RenamedClaim(claim, old, new)
       /\ recomputed' = {RenamedTo(c, old, new) : c \in recomputed}
  /\ UNCHANGED <<scanned, interleaved>>

\* Each row becomes none or more rows, which differ in the exploded column.
Explode ==
  /\ scanned
  /\ \E c \in schema :
       /\ claim' = IF claim # NoClaim /\ \E i \in DOMAIN claim.columns : claim.columns[i] = c
                   THEN NoClaim ELSE Unsorted(claim)
       /\ History({})
       /\ \E n \in 0..MaxRows : \E p \in Maps(n, Len(frame)), v \in [1..n -> Values] :
            frame' = WithCells(Take(frame, p), schema, c, v)
  /\ UNCHANGED <<schema, scanned>>

\* WithPartitionAssertion.  Where the source makes no claim the user owns the
\* whole claim, and is taken to tell the truth.
AssertClaim ==
  /\ scanned
  /\ \/ claim' = NoClaim
     \/ \E a \in Claims(schema) :
          /\ ValidateAssertion(claim, a)
          /\ claim = NoClaim => Sound(frame, schema, a, {}, FALSE)
          /\ claim' = a
  /\ History({})
  /\ UNCHANGED <<frame, schema, scanned>>

Next ==
  \/ Scan \/ Filter \/ Project \/ WithColumn \/ FirstRows \/ LastRows \/ Sort
  \/ Aggregate \/ Join \/ Drop \/ Rename \/ Explode \/ AssertClaim

Spec == Init /\ [][Next]_vars

-----------------------------------------------------------------------------
(***************************************************************************)
(* The consumers: the fast paths of GroupBy and Over.                      *)
(***************************************************************************)
Aligned(c, cols) == c # NoClaim /\ c.columns = cols /\ cols # <<>>

\* The test as it would be if a sort hint were enough.
FastPathTrustsHints(c, cols) ==
  /\ Aligned(c, cols)
  /\ Len(c.sortedBy) >= Len(cols)
  /\ \A i \in DOMAIN cols : c.sortedBy[i].column = cols[i]

FastPathApplicable(c, cols) ==
  /\ Aligned(c, cols)
  /\ c.sortEnforced
  /\ Len(c.sortedBy) >= Len(cols)
  /\ \A i \in DOMAIN cols : c.sortedBy[i].column = cols[i]

\* The test as it would be if it compared names and not directions.
ShapeFastPathIgnoresDirection(c, cols, orderBy) ==
  /\ FastPathApplicable(c, cols)
  /\ Len(c.sortedBy) >= Len(cols) + Len(orderBy)
  /\ \A i \in DOMAIN orderBy : c.sortedBy[Len(cols) + i].column = orderBy[i].column

ShapeFastPathApplicable(c, cols, orderBy) ==
  /\ FastPathApplicable(c, cols)
  /\ Len(c.sortedBy) >= Len(cols) + Len(orderBy)
  /\ \A i \in DOMAIN orderBy : c.sortedBy[Len(cols) + i] = orderBy[i]

\* The groups of the hash path, and of the linear scan: runs of equal keys.
HashGroups(f, cols) ==
  {{j \in DOMAIN f : SameCells(f[i], f[j], cols)} : i \in DOMAIN f}
LinearGroups(f, cols) ==
  {{j \in DOMAIN f : \A k \in (i..j) \cup (j..i) : SameCells(f[i], f[k], cols)} : i \in DOMAIN f}

-----------------------------------------------------------------------------
TypeOK ==
  /\ schema \in SUBSET ColumnNames
  /\ frame \in Seq(Row(schema))
  /\ claim \in Claim \cup {NoClaim}
  /\ scanned \in BOOLEAN
  /\ recomputed \in SUBSET ColumnNames
  /\ interleaved \in BOOLEAN

(***************************************************************************)
(* Every claim a plan derives, whatever operators lie between the source   *)
(* and here, is true of its rows, but for what rests on a column computed  *)
(* anew in place of one it names (plan.go:215, partition.go:194), from the *)
(* first such sort key on, and for the order of rows that two workers read *)
(* (exec_scan_parallel.go:16).  No other rule of plan.go keeps or makes a  *)
(* claim that its operator breaks, also of what was recomputed before.     *)
(***************************************************************************)
ClaimSound == claim # NoClaim => Sound(frame, schema, claim, recomputed, interleaved)

Fresh(cs) == cs \cap recomputed = {}

SameGroups(cols) == FastPathApplicable(claim, cols) => LinearGroups(frame, cols) = HashGroups(frame, cols)

(***************************************************************************)
(* Whenever GroupBy or Over(cols) takes the linear scan (groupby_aligned.go*)
(* and expr_over.go), it finds the groups the hash path would find, unless *)
(* one of cols was computed anew or two workers read the rows: any other   *)
(* column of the claim may have been, a later sort key among them.         *)
(***************************************************************************)
FastPathGroups ==
  scanned /\ ~interleaved =>
    \A cols \in KeyLists(schema) : Fresh(ColumnsOf(cols)) => SameGroups(cols)

\* What groupby_aligned.go:30 takes for granted, of every plan: refuted by
\* each of the two exceptions alone.
FastPathExact == scanned => \A cols \in KeyLists(schema) : SameGroups(cols)

(***************************************************************************)
(* Whenever the shape-preserving Over(cols).OrderBy(orderBy) slices the    *)
(* frame in place instead of sorting each partition, the rows of a group   *)
(* are already in that order, with the same two exceptions, here of cols   *)
(* and of the columns of orderBy.                                          *)
(***************************************************************************)
WindowOrder ==
  scanned /\ ~interleaved => \A cols \in KeyLists(schema), orderBy \in SortLists(schema, BOOLEAN) :
    ShapeFastPathApplicable(claim, cols, orderBy) /\ Fresh(ColumnsOf(cols) \cup KeysOf(orderBy)) =>
      \A i, j \in DOMAIN frame :
        i < j /\ SameCells(frame[i], frame[j], cols) => InOrder(frame[i], frame[j], orderBy)
=============================================================================
