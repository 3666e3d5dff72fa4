----------------------------- MODULE Expressions -----------------------------
(***************************************************************************)
(* The other expression nodes over series: casts, null checks, choices,    *)
(* shifts, timestamps and lists, and the reductions of a whole series.     *)
(***************************************************************************)
EXTENDS SeriesOps

-----------------------------------------------------------------------------
(* Casts, and timestamps as integers. *)

CastSources ==
    [float64 |-> {"float32", "int64", "int32", "uint64", "uint32", "time_s", "time_ns"},
     int64 |-> {"int32", "uint32", "float64", "float32", "time_s", "time_ns"},
     float32 |-> {"float64", "int64", "int32"},
     int32 |-> {"int64", "float64", "float32"},
     uint64 |-> {"uint32", "int64"},
     uint32 |-> {"uint64", "int64"}]

\* The Go conversion of one value.
Convert(from, to, v) ==
    LET bits == IF to \in {"int32", "uint32"} THEN HalfWord ELSE Word
    IN  CASE to \in {"float64", "float32"} -> <<ToFloat(from, v)>>
          [] to \in Signed /\ from \in {"float64", "float32"} -> ToInt(v, bits)
          [] to \in Signed -> <<Wrap(v, bits)>>
          [] OTHER -> <<v % 2 ^ bits>>

ConvertAll(s, to) == Of(to, [i \in 1..Length(s) |->
                               IF Cells(s)[i] = Null THEN Null
                               ELSE Convert(s.type, to, Cells(s)[i][1])])

Cast(s, to) == IF s.type = to THEN s
               ELSE IF to \notin DOMAIN CastSources THEN Failed
               ELSE IF s.chunks # <<>> /\ s.type \notin CastSources[to] THEN Failed
               ELSE ConvertAll(s, to)

\* The nanoseconds of a unit: ten to a second, so that Word bits hold some.
UnitToNanos == [time_s |-> 10, time_ns |-> 1]
UnixNano(s) == IF s.type \notin DOMAIN UnitToNanos THEN Failed
               ELSE Of("int64", Each(Cells(s), LAMBDA v : Wrap(v * UnitToNanos[s.type], Word)))

-----------------------------------------------------------------------------
(* Nulls, choices and shifts. *)

NullCheck(s, wantNull) ==
    Of("bool", [i \in 1..Length(s) |-> <<Bool((Cells(s)[i] = Null) = wantNull)>>])

\* builderForType, appendPrimitiveAt and readScalarAt know these.
Buildable == {"float64", "float32", "int64", "int32", "uint64", "uint32", "bool",
              "text", "time_s", "time_ns"}

SameTypes(seriesList) == \A i \in DOMAIN seriesList : seriesList[i].type = seriesList[1].type

\* The first operand that is not null, row by row; one operand is passed on.
Coalesce(operands, rows) ==
    LET FirstPresent(i) ==
            LET found == {k \in DOMAIN operands : Cells(operands[k])[i] # Null}
            IN  IF found = {} THEN Null
                ELSE Cells(operands[CHOOSE k \in found : \A j \in found : k <= j])[i]
    IN  IF Len(operands) = 1 THEN operands[1]
        ELSE IF (\E k \in DOMAIN operands : Length(operands[k]) # rows)
                \/ ~SameTypes(operands) THEN Failed
        ELSE Of(operands[1].type, [i \in 1..rows |-> FirstPresent(i)])

\* A null condition gives null.  A list cannot be read by readScalarAt.
If(cond, then, else, rows) ==
    LET Source(i) == IF Cells(cond)[i] = <<1>> THEN then ELSE else
        Chosen(i) == IF Cells(cond)[i] = Null THEN Null ELSE Cells(Source(i))[i]
        cells == [i \in 1..rows |-> Chosen(i)]
    IN  IF cond.type # "bool" \/ then.type # else.type
           \/ {Length(cond), Length(then), Length(else)} # {rows} THEN Failed
        ELSE IF IsList(then.type) /\ \E i \in 1..rows : cells[i] # Null THEN Failed
        ELSE Of(then.type, cells)

Shift(s, n) ==
    LET length == Length(s)
        cells == [i \in 1..length |-> IF i - n \in 1..length THEN Cells(s)[i - n] ELSE Null]
    IN  IF s.type = "date" \/ (s.type \notin Buildable /\ Range(cells) \ {Null} # {}) THEN Failed
        ELSE Of(s.type, cells)

Diff(s, n) == IF n <= 0 \/ ~IsNumeric(s) THEN Failed ELSE Arith("sub", s, Shift(s, n))

-----------------------------------------------------------------------------
(* Lists.  Positions in a list are counted from zero. *)

OnLists(s, type, F(_)) == IF ~IsList(s.type) THEN Failed
                          ELSE Of(type, Each(Cells(s), F))
FlatMap(s, type, F(_)) ==
    IF ~IsList(s.type) THEN Failed
    ELSE Of(type, [i \in 1..Length(s) |-> IF Cells(s)[i] = Null THEN Null
                                          ELSE F(Cells(s)[i][1])])

ListLen(s) == OnLists(s, "int64", Len)

ListGet(s, index) ==
    LET Get(list) == LET at == IF index < 0 THEN index + Len(list) ELSE index
                     IN  IF at < 0 \/ at >= Len(list) THEN Null ELSE list[at + 1]
    IN  IF ~IsList(s.type) THEN Failed ELSE FlatMap(s, ElemType[s.type], Get)

ClampSlice(start, stop, length) ==
    LET FromEnd(i) == IF i < 0 THEN i + length ELSE i
        lo == Max({FromEnd(start), 0})
        hi == Min({FromEnd(stop), length})
    IN  <<lo, Max({hi, lo})>>

ListSlice(s, start, stop) ==
    LET Slice(list) == LET bounds == ClampSlice(start, stop, Len(list))
                       IN  SubSeq(list, bounds[1] + 1, bounds[2])
    IN  OnLists(s, s.type, Slice)

\* arrayValueEquals: an element must be asked for in its own kind of type.
Accepts(elem, type) ==
    CASE elem \in Signed -> type \in Signed
      [] elem \in {"uint32", "uint64"} -> type \in {"uint32", "uint64"}
      [] elem = "float64" -> type \in NumericTypes
      [] OTHER -> type = elem

ListContains(s, type, v) ==
    LET Has(list) == Bool(\E i \in DOMAIN list : list[i] = <<v>>)
        asked == \E i \in 1..Length(s) :
                    Cells(s)[i] # Null /\ \E j \in DOMAIN Cells(s)[i][1] : Cells(s)[i][1][j] # Null
    IN  IF IsList(s.type) /\ asked /\ ~Accepts(ElemType[s.type], type) THEN Failed
        ELSE OnLists(s, "bool", Has)

Present(list) == SelectSeq(list, LAMBDA c : c # Null)
Total(values) == FoldLeft(LAMBDA acc, c : acc + c[1], 0, values)
Values(cells) == {c[1] : c \in Range(cells)}

\* Sums are of the widest type of the elements' kind, and wrap around there.
ListAggType(kind, elem) ==
    IF elem \notin NumericTypes THEN "failed"
    ELSE IF kind = "mean" \/ elem = "float64" THEN "float64"
    ELSE IF elem \in Signed THEN "int64" ELSE "uint64"

InType(type, v) == CASE type = "int64" -> Wrap(v, Word)
                     [] type = "uint64" -> v % 2 ^ Word
                     [] OTHER -> Rounded(v)

ReduceList(kind, elem, list) ==
    LET present == Present(list)
        type == ListAggType("sum", elem)
        sum == InType(type, Total(present))
    IN  IF present = <<>> THEN Null
        ELSE CASE kind = "sum" -> <<sum>>
               [] kind = "mean" -> <<ApplyF64("div", ToFloat(type, sum), Len(present) * Whole)>>
               [] kind = "min" -> <<Min(Values(present))>>
               [] kind = "max" -> <<Max(Values(present))>>

ListAgg(s, kind) ==
    IF ~IsList(s.type) THEN Failed
    ELSE LET elem == ElemType[s.type]
             type == ListAggType(kind, elem)
         IN  IF type = "failed" THEN Failed
             ELSE FlatMap(s, type, LAMBDA list : ReduceList(kind, elem, list))

\* First seen, first kept; a null list makes the row null, a null element none.
Dedup(list) == FoldLeft(LAMBDA acc, c : IF c = Null \/ c \in Range(acc) THEN acc
                                        ELSE Append(acc, c), <<>>, list)
ListUnion(a, b) ==
    IF ~IsList(a.type) \/ a.type # b.type \/ Length(a) # Length(b)
       \/ Len(a.chunks) # 1 \/ Len(b.chunks) # 1 THEN Failed
    ELSE Of(a.type, Pairwise(Cells(a), Cells(b), LAMBDA x, y : Dedup(x \o y)))

-----------------------------------------------------------------------------
(* A whole series to one float: NaN for no value. *)

Smallest(values) == FoldLeft(LAMBDA m, v : IF ApplyCmp("lt", v, m) THEN v ELSE m,
                             values[1], values)
Largest(values) == FoldLeft(LAMBDA m, v : IF ApplyCmp("gt", v, m) THEN v ELSE m,
                            values[1], values)

\* One chunk without nulls starts at its first value, which NaN keeps; any
\* other series starts at an infinity, which NaN does not replace.
Extreme(s, kind) ==
    LET present == Present(Numbers(s))
        values == [i \in DOMAIN present |-> present[i][1]]
        seeded == Len(s.chunks) = 1 /\ Len(values) = Length(s)
        start == IF kind = "min" THEN Infinity ELSE -Infinity
        from == IF seeded THEN values ELSE <<start>> \o values
    IN  IF values = <<>> THEN NaN
        ELSE IF kind = "min" THEN Smallest(from) ELSE Largest(from)

\* One chunk of int64 is summed in int64, every other series in float64.
SumOf(s) ==
    IF Single(s, "int64") THEN ToFloat("int64", Wrap(Total(Present(Cells(s))), Word))
    ELSE FoldLeft(LAMBDA acc, c : ApplyF64("add", acc, c[1]), 0, Present(Numbers(s)))

Count(s) == Len(Present(Cells(s)))

ReduceSeries(s, kind) ==
    IF kind = "count" THEN <<Count(s)>>
    ELSE IF ~IsNumeric(s) THEN Null
    ELSE CASE kind = "sum" -> <<SumOf(s)>>
           [] kind = "mean" -> <<IF Count(s) = 0 THEN NaN
                                 ELSE ApplyF64("div", SumOf(s), Count(s) * Whole)>>
           [] OTHER -> <<Extreme(s, kind)>>

-----------------------------------------------------------------------------
(* What a node promises before it runs: ExprNode.Type of its inputs. *)

TypeOfUnary(op, arg, type) ==
    CASE op = "cast" -> arg
      [] op \in {"is_null", "is_not_null"} -> "bool"
      [] op = "not" -> IF type = "bool" THEN "bool" ELSE "failed"
      [] op = "shift" -> type
      [] op = "unix_nano" -> IF type \in DOMAIN UnitToNanos THEN "int64" ELSE "failed"
      [] ~IsList(type) -> "failed"
      [] op = "list_len" -> "int64"
      [] op = "list_get" -> ElemType[type]
      [] op = "list_slice" -> type
      [] op = "list_contains" -> "bool"
      [] OTHER -> ListAggType(op, ElemType[type])

EvalUnary(op, arg, s) ==
    CASE op = "cast" -> Cast(s, arg)
      [] op = "is_null" -> NullCheck(s, TRUE)
      [] op = "is_not_null" -> NullCheck(s, FALSE)
      [] op = "not" -> BoolNot(s)
      [] op = "shift" -> Shift(s, arg)
      [] op = "unix_nano" -> UnixNano(s)
      [] op = "list_len" -> ListLen(s)
      [] op = "list_get" -> ListGet(s, arg)
      [] op = "list_slice" -> ListSlice(s, arg[1], arg[2])
      [] op = "list_contains" -> ListContains(s, arg[1], arg[2])
      [] OTHER -> ListAgg(s, op)

=============================================================================
