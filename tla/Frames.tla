------------------------------- MODULE Frames -------------------------------
(***************************************************************************)
(* The eager engine: what the methods of Frame return.                     *)
(*                                                                         *)
(* A frame is a sequence of column names and, next to it, the sequence of  *)
(* its columns, each a sequence of cells.  A cell is an integer, a truth   *)
(* value (Yes or No), a list of cells or NULL; arrow's types are not told  *)
(* apart, every frame and every expression used here is well typed.  A     *)
(* method that returns an error returns Failed.                            *)
(***************************************************************************)
EXTENDS Integers, Sequences, SequencesExt, TLC

CONSTANT NULL   \* the null cell

No == 0
Yes == 1
Truth(b) == IF b THEN Yes ELSE No

Failed == [failed |-> TRUE, names |-> <<>>, cols |-> <<>>]
NewFrame(names, cols) == [failed |-> FALSE, names |-> names, cols |-> cols]

NumRows(f) == IF f.cols = <<>> THEN 0 ELSE Len(f.cols[1])
RowsOf(f) == [i \in 1..NumRows(f) |-> i]

\* The position of the first column with that name, 0 if there is none.
Position(names, name) == SelectInSeq(names, LAMBDA n : n = name)
Has(f, name) == Position(f.names, name) # 0
Column(f, name) == f.cols[Position(f.names, name)]

\* The cells at the positions idx; position 0 stands for a null.
TakeCells(col, idx) == [i \in DOMAIN idx |-> IF idx[i] = 0 THEN NULL ELSE col[idx[i]]]
TakeRows(f, idx) == [f EXCEPT !.cols = [c \in DOMAIN @ |-> TakeCells(@[c], idx)]]

\* Filter: a null in the mask counts as false.
KeepRows(f, mask) == TakeRows(f, SelectSeq(RowsOf(f), LAMBDA i : mask[i] = Yes))

\* Head and Tail take 5 rows when asked for none.
DefaultRows == 5
Smaller(i, j) == IF i < j THEN i ELSE j
FirstRows(f, n) ==
  TakeRows(f, SubSeq(RowsOf(f), 1, Smaller(IF n <= 0 THEN DefaultRows ELSE n, NumRows(f))))
LastRows(f, n) ==
  LET k == Smaller(IF n <= 0 THEN DefaultRows ELSE n, NumRows(f))
  IN TakeRows(f, SubSeq(RowsOf(f), NumRows(f) - k + 1, NumRows(f)))

WithColumnLast(f, name, col) ==
  LET rest == SelectSeq([c \in DOMAIN f.cols |-> c], LAMBDA c : f.names[c] # name)
  IN NewFrame(Append([c \in DOMAIN rest |-> f.names[rest[c]]], name),
              Append([c \in DOMAIN rest |-> f.cols[rest[c]]], col))

WithColumn(f, name, col) ==
  LET at == Position(f.names, name)
  IN IF at # 0 THEN [f EXCEPT !.cols[at] = col]
     ELSE NewFrame(Append(f.names, name), Append(f.cols, col))

DropColumn(f, name) ==
  LET at == Position(f.names, name)
  IN IF at = 0 THEN Failed ELSE NewFrame(RemoveAt(f.names, at), RemoveAt(f.cols, at))

Rename(f, old, new) ==
  LET at == Position(f.names, old)
  IN IF old = new THEN f
     ELSE IF at = 0 THEN Failed
     ELSE [f EXCEPT !.names[at] = new]

SelectCols(f, names) ==
  IF \A i \in DOMAIN names : Has(f, names[i])
  THEN NewFrame(names, [i \in DOMAIN names |-> Column(f, names[i])])
  ELSE Failed

\* Sorting: nulls last whatever the direction, rows that compare equal
\* stay in the order they had.
Compare(col, descending, i, j) ==
  LET sign(x, y) == IF x < y THEN -1 ELSE IF x > y THEN 1 ELSE 0
  IN IF col[i] = NULL \/ col[j] = NULL
     THEN sign(Truth(col[i] = NULL), Truth(col[j] = NULL))
     ELSE IF descending THEN sign(col[j], col[i]) ELSE sign(col[i], col[j])

RowBefore(f, keys, i, j) ==
  LET c == [k \in DOMAIN keys |->
              Compare(Column(f, keys[k].column), keys[k].descending, i, j)]
      differs == SelectInSeq(c, LAMBDA x : x # 0)
  IN IF differs = 0 THEN i < j ELSE c[differs] < 0

SortBy(f, keys) ==
  IF keys # <<>> /\ \A k \in DOMAIN keys : Has(f, keys[k].column)
  THEN TakeRows(f, SortSeq(RowsOf(f), LAMBDA i, j : RowBefore(f, keys, i, j)))
  ELSE Failed

\* The rows of each key, rows in their order and keys in that of their
\* encoded form, where a null comes first, or of their values, where it is last.
KeyAt(f, keys, i) == [k \in DOMAIN keys |-> Column(f, keys[k])[i]]
Groups(f, keys, nullsLast) ==
  LET first == SelectSeq(RowsOf(f), LAMBDA i :
                 \A j \in 1..i-1 : KeyAt(f, keys, j) # KeyAt(f, keys, i))
      below(x, y) == x # y /\ IF NULL \in {x, y} THEN (x = NULL) # nullsLast ELSE x < y
      before(i, j) == \E k \in DOMAIN keys :
                        /\ below(KeyAt(f, keys, i)[k], KeyAt(f, keys, j)[k])
                        /\ \A m \in 1..k-1 : KeyAt(f, keys, i)[m] = KeyAt(f, keys, j)[m]
      order == SortSeq(first, before)
  IN [g \in DOMAIN order |->
        SelectSeq(RowsOf(f), LAMBDA i : KeyAt(f, keys, i) = KeyAt(f, keys, order[g]))]

\* One aggregate over the given rows: the sum or the last of the cells that
\* are not null, null when there is none.
Reduce(kind, col, rows) ==
  LET cells == SelectSeq(TakeCells(col, rows), LAMBDA c : c # NULL)
  IN IF cells = <<>> THEN NULL
     ELSE IF kind = "last" THEN cells[Len(cells)]
     ELSE FoldLeft(+, 0, cells)

\* The fast path: one key, and only aggregates without filters that do not
\* depend on the order of the rows.
Fast(keys, aggs) ==
  Len(keys) = 1 /\ \A a \in DOMAIN aggs : aggs[a].agg # "last" /\ aggs[a].where = <<>>

\* GroupBy(keys).Agg(aggs); mask[a] says which rows take part in the a-th
\* aggregate.
AggregateGroups(f, keys, aggs, mask, groups) ==
  LET keyCol(k) == [g \in DOMAIN groups |-> Column(f, keys[k])[groups[g][1]]]
      aggCol(a) == [g \in DOMAIN groups |->
                      Reduce(aggs[a].agg, Column(f, aggs[a].column),
                             SelectSeq(groups[g], LAMBDA i : mask[a][i] = Yes))]
  IN NewFrame(keys \o [a \in DOMAIN aggs |-> aggs[a].name],
              [k \in DOMAIN keys |-> keyCol(k)] \o [a \in DOMAIN aggs |-> aggCol(a)])
Aggregate(f, keys, aggs, mask) ==
  IF /\ keys # <<>>
     /\ \A k \in DOMAIN keys : Has(f, keys[k])
     /\ \A a \in DOMAIN aggs : Has(f, aggs[a].column)
  THEN AggregateGroups(f, keys, aggs, mask, Groups(f, keys, Fast(keys, aggs)))
  ELSE Failed

\* Explode: a row per element of its list, one row with a null for a null
\* or an empty list.
Explode(f, name) ==
  LET lists == [i \in 1..NumRows(f) |->
                  IF Column(f, name)[i] \in {NULL, <<>>} THEN <<NULL>>
                  ELSE Column(f, name)[i]]
      parent == FlattenSeq([i \in DOMAIN lists |-> [e \in DOMAIN lists[i] |-> i]])
  IN IF Has(f, name)
     THEN [TakeRows(f, parent) EXCEPT !.cols[Position(f.names, name)] = FlattenSeq(lists)]
     ELSE Failed

-----------------------------------------------------------------------------
(* Joins, by the positions of the two rows of a result; 0 is no row.       *)

\* The names of a join: the right key is left out, a right column whose name
\* the left side has gets a suffix.
JoinNames(left, right, rightKey, kind) ==
  IF kind \in {"semi", "anti"} THEN left
  ELSE LET rest == SelectSeq(right, LAMBDA n : n # rightKey)
       IN left \o [i \in DOMAIN rest |->
                     IF Contains(left, rest[i]) THEN rest[i] \o "_right" ELSE rest[i]]

\* For each row of the outer side its matches in the inner one, in order; a
\* null matches nothing.
MatchesOf(outer, inner) ==
  [i \in DOMAIN outer |->
     SelectSeq([j \in DOMAIN inner |-> j],
               LAMBDA j : outer[i] # NULL /\ inner[j] = outer[i])]

\* The pairs of an outer walk: unmatched rows are paired with 0 if they are
\* to be kept.
Walk(matches, keep) ==
  FlattenSeq([i \in DOMAIN matches |->
    IF matches[i] = <<>> THEN (IF keep THEN << <<i, 0>> >> ELSE <<>>)
    ELSE [m \in DOMAIN matches[i] |-> <<i, matches[i][m]>>]])

PairsOf(matches, swapped, kind) ==
  LET lefts == [i \in DOMAIN matches |-> i]
      lonely == SelectSeq([j \in DOMAIN swapped |-> j], LAMBDA j : swapped[j] = <<>>)
      only(rows) == [n \in DOMAIN rows |-> <<rows[n], 0>>]
  IN CASE kind = "inner" -> Walk(matches, FALSE)
       [] kind = "left"  -> Walk(matches, TRUE)
       [] kind = "full"  -> Walk(matches, TRUE) \o [n \in DOMAIN lonely |-> <<0, lonely[n]>>]
       [] kind = "right" -> LET walk == Walk(swapped, TRUE)
                            IN [n \in DOMAIN walk |-> <<walk[n][2], walk[n][1]>>]
       [] kind = "semi"  -> only(SelectSeq(lefts, LAMBDA i : matches[i] # <<>>))
       [] kind = "anti"  -> only(SelectSeq(lefts, LAMBDA i : matches[i] = <<>>))
JoinPairs(lKey, rKey, kind) == PairsOf(MatchesOf(lKey, rKey), MatchesOf(rKey, lKey), kind)

LeftRows(pairs) == [n \in DOMAIN pairs |-> pairs[n][1]]
RightRows(pairs) == [n \in DOMAIN pairs |-> pairs[n][2]]

\* The left key of a row without a left side is the right one.
LeftSide(f, leftKey, rKey, pairs) ==
  LET keyAt(n) == IF pairs[n][1] # 0 THEN Column(f, leftKey)[pairs[n][1]] ELSE rKey[pairs[n][2]]
  IN [c \in DOMAIN f.cols |->
        IF f.names[c] = leftKey THEN [n \in DOMAIN pairs |-> keyAt(n)]
        ELSE TakeCells(f.cols[c], LeftRows(pairs))]
RightSide(right, rightKey, pairs) ==
  LET rest == SelectSeq([c \in DOMAIN right.cols |-> c], LAMBDA c : right.names[c] # rightKey)
  IN [c \in DOMAIN rest |-> TakeCells(right.cols[rest[c]], RightRows(pairs))]
JoinOf(f, right, leftKey, rightKey, kind, pairs) ==
  NewFrame(JoinNames(f.names, right.names, rightKey, kind),
           LeftSide(f, leftKey, Column(right, rightKey), pairs)
             \o IF kind \in {"semi", "anti"} THEN <<>> ELSE RightSide(right, rightKey, pairs))
Join(f, right, leftKey, rightKey, kind) ==
  IF Has(f, leftKey) /\ Has(right, rightKey)
  THEN JoinOf(f, right, leftKey, rightKey, kind,
              JoinPairs(Column(f, leftKey), Column(right, rightKey), kind))
  ELSE Failed
=============================================================================
