------------------------------- MODULE OverExpr -------------------------------
(***************************************************************************)
(* Window expressions: an aggregate repeated on the rows of its partition, *)
(* or any other expression evaluated on each partition alone and put back  *)
(* where its rows were.  A frame whose claim says that the rows of a       *)
(* partition are neighbours is scanned instead of hashed.                  *)
(*                                                                         *)
(* An expression e is [op, col, n]: an aggregate of a column, the column   *)
(* shifted by n ("shift"), the difference with it shifted ("gap"), or a    *)
(* literal one ("lit").                                                    *)
(***************************************************************************)
EXTENDS FrameOps

ScalarAggs == {"count", "sum", "mean", "min", "max", "mode"}

-----------------------------------------------------------------------------
(* The accumulators over the rows of a partition. *)

\* The cell with the most frequent key, of several the one seen first.
MostSeen(type, cells) ==
    LET Key(i) == CellKey(type, cells[i])
        Times(i) == Cardinality({j \in DOMAIN cells : Key(j) = Key(i)})
    IN  cells[CHOOSE i \in DOMAIN cells : \A j \in DOMAIN cells :
                 Times(j) < Times(i) \/ (Times(j) = Times(i) /\ i <= j)]

Accumulated(kind, type, cells) ==
    LET present == Present(cells)
        numbers == [i \in DOMAIN present |-> ToFloat(type, present[i][1])]
        sum == FoldLeft(LAMBDA acc, v : ApplyF64("add", acc, v), 0, numbers)
    IN  CASE kind = "count" -> <<Len(present)>>
          [] present = <<>> -> Null
          [] kind = "sum" -> <<sum>>
          [] kind = "mean" -> <<ApplyF64("div", sum, Len(present) * Whole)>>
          [] kind = "min" -> <<Smallest(numbers)>>
          [] kind = "max" -> <<Largest(numbers)>>
          [] kind = "mode" -> MostSeen(type, present)

\* numericAt refuses a row whose type it does not know, null or not; the mode
\* asks for a key of the rows that are not null.
CannotAccumulate(kind, s) ==
    CASE kind = "count" -> FALSE
      [] kind = "mode" -> s.type \notin Hashable /\ Present(Cells(s)) # <<>>
      [] OTHER -> ~IsNumeric(s) /\ Length(s) > 0

\* The type an accumulator declares, and that of the column made of it.
AccType(kind) == IF kind = "count" THEN "int64" ELSE "float64"
AggColumnType(kind, s) == IF kind = "mode" THEN s.type ELSE AccType(kind)

-----------------------------------------------------------------------------
(* Partitions. *)

\* A nil *PartitionMetadata is aligned with no keys.
NoClaim == [columns |-> <<>>, sortedBy |-> <<>>, enforced |-> FALSE]

OverFastPathApplicable(claim, keys) ==
    /\ claim.enforced
    /\ claim.columns = keys /\ keys # <<>>
    /\ Len(claim.sortedBy) >= Len(keys)
    /\ \A i \in DOMAIN keys : claim.sortedBy[i].name = keys[i]

ShapeFastPath(claim, keys, order) ==
    /\ OverFastPathApplicable(claim, keys)
    /\ Len(claim.sortedBy) >= Len(keys) + Len(order)
    /\ \A i \in DOMAIN order : claim.sortedBy[Len(keys) + i] = order[i]

\* The key of a row cannot be encoded; the shape-preserving path reads on
\* with no bytes at all.
KeyFails(cols, i) ==
    \E k \in DOMAIN cols : cols[k].type \notin Hashable /\ Cells(cols[k])[i] # Null
PartitionKeys(cols, rows) ==
    [i \in 1..rows |-> IF KeyFails(cols, i) THEN <<>> ELSE RowKey(cols, i)]

AllRows(n) == [i \in 1..n |-> i]

\* The rows of each key, keys in the order they came.
HashedPartitions(keys) ==
    LET firsts == FirstRows(keys, Range(keys))
    IN  [g \in DOMAIN firsts |->
            SelectSeq(AllRows(Len(keys)), LAMBDA i : keys[i] = keys[firsts[g]])]

\* The runs of neighbours with one key.
ContiguousPartitions(keys) ==
    LET starts == SelectSeq(AllRows(Len(keys)), LAMBDA i : i = 1 \/ keys[i] # keys[i - 1])
        End(g) == IF g = Len(starts) THEN Len(keys) ELSE starts[g + 1] - 1
    IN  [g \in DOMAIN starts |-> [p \in 1..(End(g) - starts[g] + 1) |-> starts[g] + p - 1]]

\* The cell at a row of what was made for each of the parts.
Scattered(parts, results, rows) ==
    LET Part(i) == CHOOSE g \in DOMAIN parts : i \in Range(parts[g])
        Place(i) == CHOOSE p \in DOMAIN parts[Part(i)] : parts[Part(i)][p] = i
    IN  [i \in 1..rows |-> results[Part(i)][Place(i)]]

-----------------------------------------------------------------------------
(* An aggregate over a partition: reduce and repeat. *)

\* Every row of a part gets its aggregate; the builder is of the given type
\* and takes no value of another.
Repeated(kind, s, type, parts) ==
    LET Taken(g) == [p \in DOMAIN parts[g] |-> Cells(s)[parts[g][p]]]
        Same(g) == [p \in DOMAIN parts[g] |-> Accumulated(kind, s.type, Taken(g))]
        cells == Scattered(parts, [g \in DOMAIN parts |-> Same(g)], Length(s))
    IN  IF kind = "mode" /\ type # s.type /\ Present(cells) # <<>> THEN Failed
        ELSE Of(type, cells)

EvalScalarAgg(f, kind, s, keys, claim) ==
    LET cols == [k \in DOMAIN keys |-> ColumnOf(f, keys[k])]
        ids == PartitionKeys(cols, Rows(f))
    IN  IF keys = <<>>
        THEN Repeated(kind, s, AggColumnType(kind, s), HashedPartitions(ids))
        ELSE IF \E i \in 1..Rows(f) : KeyFails(cols, i) THEN Failed
        ELSE IF OverFastPathApplicable(claim, keys)
        THEN Repeated(kind, s, AccType(kind), ContiguousPartitions(ids))
        ELSE Repeated(kind, s, AggColumnType(kind, s), HashedPartitions(ids))

-----------------------------------------------------------------------------
(* Any other expression: a frame per partition. *)

\* The columns the expression names, if they are some and not all.
Projected(f, e) == IF e.op # "lit" /\ Len(f.names) > 1
                   THEN [names |-> <<e.col>>, cols |-> <<ColumnOf(f, e.col)>>] ELSE f

EvalInner(e, f) ==
    CASE e.op = "lit" -> Of("int64", [i \in 1..Rows(f) |-> <<1>>])
      [] e.op = "shift" -> Shift(ColumnOf(f, e.col), e.n)
      [] e.op = "gap" -> Arith("sub", ColumnOf(f, e.col), Shift(ColumnOf(f, e.col), e.n))
InnerType(e, type) == CASE e.op = "lit" -> "int64" [] e.op = "shift" -> type
                        [] e.op = "gap" -> TypeOfBinary("sub", type, type)

\* Frame.slice keeps the chunks.
SliceRows(f, from, to) ==
    LET Before(s, c) == Len(FlattenSeq(SubSeq(s.chunks, 1, c - 1)))
        Cut(s, c) == SubSeq(s.chunks[c], Max({1, from - Before(s, c)}), Min({Len(s.chunks[c]), to - Before(s, c)}))
        Sliced(s) == [s EXCEPT !.chunks = SelectSeq([c \in DOMAIN s.chunks |-> Cut(s, c)],
                                                    LAMBDA cells : cells # <<>>)]
    IN  [f EXCEPT !.cols = [c \in DOMAIN f.cols |-> Sliced(f.cols[c])]]

\* The rows of a partition in the order asked for.
SortedPart(f, part, order) ==
    LET Cell(k, i) == Cells(ColumnOf(f, order[k].name))[i]
        Before(i, j) ==
            \/ \E k \in DOMAIN order :
                  /\ CellBefore(Cell(k, i), Cell(k, j), order[k].descending)
                  /\ \A h \in 1..(k - 1) : Cell(h, i) = Cell(h, j)
            \/ i < j /\ \A k \in DOMAIN order : Cell(k, i) = Cell(k, j)
    IN  SortSeq(part, Before)

\* What each part makes, put back; a value must be readable and of the type
\* the expression promised.
PutBack(parts, results, type, rows) ==
    LET cells == Scattered(parts, [g \in DOMAIN results |-> Cells(results[g])], rows)
        wrong == \E g \in DOMAIN results : /\ results[g].type # type \/ type \notin Buildable
                                           /\ Present(Cells(results[g])) # <<>>
    IN  IF Failed \in Range(results) \/ wrong \/ (type \notin Buildable /\ ~IsList(type)) THEN Failed
        ELSE Of(type, cells)

EvalAligned(f, e, type, ids) ==
    LET parts == ContiguousPartitions(ids)
    IN  PutBack(parts, [g \in DOMAIN parts |->
                           EvalInner(e, SliceRows(Projected(f, e), parts[g][1], Last(parts[g])))],
                type, Len(ids))

EvalGeneral(f, e, type, ids, order) ==
    LET parts == [g \in DOMAIN HashedPartitions(ids) |-> SortedPart(f, HashedPartitions(ids)[g], order)]
        minis == [g \in DOMAIN parts |-> Take(Projected(f, e), parts[g])]
    IN  IF \/ \E o \in Range(order) : ~HasColumns(f, <<o.name>>) \/ ~Sortable(ColumnOf(f, o.name))
           \/ FailedFrame \in Range(minis) THEN Failed
        ELSE PutBack(parts, [g \in DOMAIN parts |-> EvalInner(e, minis[g])], type, Len(ids))

EvalShapePreserving(f, e, keys, order, claim) ==
    LET cols == [k \in DOMAIN keys |-> ColumnOf(f, keys[k])]
        ids == PartitionKeys(cols, Rows(f))
        type == InnerType(e, IF e.op = "lit" THEN "int64" ELSE ColumnOf(f, e.col).type)
    IN  IF keys = <<>> THEN EvalInner(e, f)
        ELSE IF type = "failed" THEN Failed
        ELSE IF ~ShapeFastPath(claim, keys, order) THEN EvalGeneral(f, e, type, ids, order)
        ELSE IF \E i \in 1..Rows(f) : KeyFails(cols, i) THEN Failed
        ELSE EvalAligned(f, e, type, ids)

\* overNode.Eval.
EvalOver(f, e, keys, order, claim) ==
    IF ~HasColumns(f, keys) THEN Failed
    ELSE IF e.op \notin ScalarAggs THEN EvalShapePreserving(f, e, keys, order, claim)
    ELSE IF CannotAccumulate(e.op, ColumnOf(f, e.col)) THEN Failed
    ELSE EvalScalarAgg(f, e.op, ColumnOf(f, e.col), keys, claim)

\* overNode.Type.
TypeOfOver(e, type) == CASE e.op = "mode" -> type
                         [] e.op \in ScalarAggs -> AccType(e.op)
                         [] OTHER -> InnerType(e, type)

=============================================================================
