-------------------------------- MODULE Columns --------------------------------
(***************************************************************************)
(* The eager engine answering one request: an expression node over its     *)
(* inputs, a reduction, an operation on frames, or a window.  The answers  *)
(* are compared with what the operations are, however the columns are cut  *)
(* into chunks and whichever of the fast paths their types select.         *)
(***************************************************************************)
EXTENDS Windows, OverExpr

CONSTANT Tasks   \* the requests: sets of records with a family, an op and its operands

VARIABLES task, answer, done

vars == <<task, answer, done>>

Init == /\ \E k \in DOMAIN Tasks : task \in Tasks[k]
        /\ answer = Failed
        /\ done = FALSE

Reply(family, value) == /\ ~done /\ task.family = family
                        /\ answer' = value
                        /\ done' = TRUE
                        /\ UNCHANGED task

\* binOpNode: a column with a column or a literal.
Binary == Reply("binary", EvalBinary(task.op, task.left, task.right, Length(task.left.s)))

\* The nodes with one input.
Unary == Reply("unary", EvalUnary(task.op, task.arg, task.s))

\* The nodes with several: coalesce, if, diff and list union.
Several ==
    Reply("several",
          CASE task.op = "coalesce" -> Coalesce(task.inputs, task.rows)
            [] task.op = "if" -> If(task.inputs[1], task.inputs[2], task.inputs[3], task.rows)
            [] task.op = "diff" -> Diff(task.inputs[1], task.rows)
            [] task.op = "list_union" -> ListUnion(task.inputs[1], task.inputs[2]))

\* Sum, Mean, Min, Max and Count of a series.
Reduce == Reply("reduce", Of("cell", <<ReduceSeries(task.s, task.op)>>))

\* Operations of a series with another.
SeriesOp ==
    Reply("series",
          CASE task.op = "unique" -> UniqueSeries(task.s)
            [] task.op = "union" -> UnionSeries(task.s, task.t)
            [] task.op = "intersect" -> SeriesSetOp(task.s, task.t, TRUE)
            [] task.op = "difference" -> SeriesSetOp(task.s, task.t, FALSE)
            [] task.op = "n_unique" -> NUnique(task.s)
            [] task.op = "collect" -> Of("list_int64", <<CollectSet(task.s.chunks)>>))

\* Operations on frames.
FrameOp ==
    Reply("frame",
          CASE task.op = "unique" -> Unique(task.f, task.cols)
            [] task.op = "union" -> Union(task.f, task.g, task.cols)
            [] task.op = "intersect" -> SetOp(task.f, task.g, task.cols, TRUE)
            [] task.op = "difference" -> SetOp(task.f, task.g, task.cols, FALSE)
            [] task.op = "counts" -> ValueCounts(task.f, task.cols[1])
            [] task.op = "sort" -> SortBy(task.f, [k \in DOMAIN task.cols |->
                                      [name |-> task.cols[k], descending |-> task.flag]])
            [] task.op = "filter" -> Filter(task.f, ColumnOf(task.g, task.cols[1]))
            [] task.op = "explode" -> Explode(task.f, task.cols[1])
            [] OTHER -> Pivot(task.f, task.cols[1], task.cols[2], task.cols[3], task.op))

\* Windows over a series, and over a column beside a time column.
WindowOp ==
    Reply("window",
          CASE task.op = "rolling" -> Rolling(task.s, task.n, task.kind)
            [] task.op = "rolling_by" -> RollingBy(task.t, task.s, task.n, task.kind)
            [] task.op = "truncate" -> TruncateTo(task.t, task.n)
            [] task.op = "calendar" -> TruncateToCalendar(task.t, task.kind, task.zone)
            [] task.op = "extract" -> TimeExtract(task.t, task.kind, task.zone)
            [] task.op = "shift" -> ShiftDuration(WithTimezone(task.t), task.n)
            [] task.op = "diff" -> DiffDuration(task.t, task.s)
            [] task.op = "compare" -> CmpTime(task.kind, task.t, task.n))

\* A frame of time and value into buckets.
Bucket == Reply("bucket", Resample([names |-> <<"at", "v">>, cols |-> <<task.t, task.s>>],
                                   "at", task.n, "v", task.kind))

\* An expression over partitions of a frame.
OverOp == Reply("over", EvalOver(task.f, task.expr, task.keys, task.order, task.claim))

Next == Binary \/ Unary \/ Several \/ Reduce \/ SeriesOp \/ FrameOp \/ WindowOp \/ Bucket \/ OverOp

Spec == Init /\ [][Next]_vars

-----------------------------------------------------------------------------
(* Elements. *)

Answered == done /\ answer # Failed /\ answer # Panics

\* A number in quarters, and whether a float can be it.
Quarters(type, v) == IF type \in {"float64", "float32"} THEN v ELSE v * Whole
Exact(q) == q \notin {NaN, Infinity, -Infinity} /\ Nearest(q) = q

\* The operation's exact result, where there is one.
HasExact(op, x, y) ==
    /\ Exact(x) /\ Exact(y)
    /\ op = "mul" => (x * y) % Whole = 0
    /\ op = "div" => y # 0 /\ (x * Whole) % (IF y < 0 THEN -y ELSE y) = 0
ExactResult(op, x, y) ==
    CASE op = "add" -> x + y
      [] op = "sub" -> x - y
      [] op = "mul" -> (x * y) \div Whole
      [] op = "div" -> IF y > 0 THEN (x * Whole) \div y ELSE (-x * Whole) \div (-y)

\* An integer type keeps the low bits of a result, a float one that it can
\* hold; a division by zero is not a number, or infinite.
IsArithmetic(op, type, x, y, r) ==
    IF op = "div" /\ y = 0
    THEN r \in {NaN, Infinity, -Infinity} /\ (r = NaN <=> x \in {0, NaN})
    ELSE HasExact(op, x, y) =>
           LET e == ExactResult(op, x, y)
           IN  (Exact(e) /\ (type = "int64" => FitsIn(e \div Whole, Word)))
                  => Quarters(type, r) = e

Congruent(op, a, b, r) ==
    (r - CASE op = "add" -> a + b [] op = "sub" -> a - b [] op = "mul" -> a * b) % 2 ^ Word = 0

Bit(v, k) == (v \div 2 ^ k) % 2
IsBitwise(op, a, b, r) ==
    \A k \in 0..(Word - 1) :
        Bit(r, k) = CASE op = "bitand" -> Bit(a, k) * Bit(b, k)
                      [] op = "bitor" -> Bit(a, k) + Bit(b, k) - Bit(a, k) * Bit(b, k)
                      [] op = "bitxor" -> (Bit(a, k) + Bit(b, k)) % 2

IsComparison(op, x, y, r) ==
    (r = 1) = CASE op = "eq" -> x = y [] op = "ne" -> x # y [] op = "lt" -> x < y
                [] op = "le" -> ~(y < x) [] op = "gt" -> y < x [] op = "ge" -> ~(x < y)

\* Row by row: null where an operand is, else the operation's result.
IsBinary(cells, left, right) ==
    LET lt == task.left.s.type
        rt == task.right.s.type
        Holds(a, b, r) ==
            LET x == Quarters(lt, a)
                y == Quarters(rt, b)
            IN  CASE task.op \in Arithmetics ->
                        /\ IsArithmetic(task.op, answer.type, x, y, r)
                        /\ (answer.type = "int64" /\ Single(task.left.s, "int64")
                              /\ Single(task.right.s, "int64")
                              /\ (task.right.literal => Exact(y))) => Congruent(task.op, a, b, r)
                  [] task.op \in Bitwises -> (rt = "int64" /\ (task.right.literal => Exact(y)))
                        => IsBitwise(task.op, a, b, r)
                  [] task.op = "and" -> r = a * b
                  [] task.op = "or" -> r = a + b - a * b
                  [] lt \in NumericTypes ->
                        (Exact(x) /\ Exact(y)) => IsComparison(task.op, x, y, r)
                  [] OTHER -> IsComparison(task.op, a, b, r)
    IN  \A i \in DOMAIN cells :
            IF cells[i] = Null THEN left[i] = Null \/ right[i] = Null
            ELSE /\ left[i] # Null /\ right[i] # Null
                 /\ Holds(left[i][1], right[i][1], cells[i][1])

\* Texts and booleans are read from the first chunk only.
ReadsAllChunks(s) == s.type \notin {"text", "bool"} \/ Len(s.chunks) = 1

BinaryAsDefined ==
    LET rows == Length(task.left.s)
    IN  /\ ReadsAllChunks(task.left.s) => Length(answer) = rows
        /\ IsBinary(Cells(answer), Cells(task.left.s), Cells(Broadcast(task.right, rows)))

-----------------------------------------------------------------------------
(* One input. *)

\* The positions of a list, from zero, and what an index means there.
Place(list, i) == IF i < 0 THEN Len(list) + i ELSE i
Positions(list) == [p \in DOMAIN list |-> p - 1]

IsListAgg(kind, list, r) ==
    LET present == SelectSeq(list, LAMBDA c : c # Null)
        Sum[n \in 0..Len(present)] == IF n = 0 THEN 0 ELSE Sum[n - 1] + present[n][1]
        type == ListAggType("sum", ElemType[task.s.type])
        bits == 2 ^ Word
    IN  IF present = <<>> THEN r = Null
        ELSE /\ r # Null
             /\ CASE kind = "sum" -> IF type = "float64" THEN Exact(Sum[Len(present)])
                                                               => r[1] = Sum[Len(present)]
                                     ELSE (r[1] - Sum[Len(present)]) % bits = 0
                  [] kind = "mean" ->
                       (type = "float64" \/ FitsIn(Sum[Len(present)], Word))
                         => IsArithmetic("div", "float64", Quarters(type, Sum[Len(present)]),
                                         Len(present) * Whole, r[1])
                  [] kind = "min" -> r \in Range(present) /\ \A c \in Range(present) : r[1] <= c[1]
                  [] kind = "max" -> r \in Range(present) /\ \A c \in Range(present) : r[1] >= c[1]

IsCast(from, to, v, r) ==
    LET q == Quarters(from, v)
        whole == IF q >= 0 THEN q \div Whole ELSE -((-q) \div Whole)
        bits == IF to \in {"int32", "uint32"} THEN HalfWord ELSE Word
        fits == IF to \in Signed THEN FitsIn(whole, bits) ELSE whole \in 0..(2 ^ bits - 1)
    IN  IF to \in {"float64", "float32"} THEN Exact(q) => r = q
        ELSE (q \notin {NaN, Infinity, -Infinity} /\ fits) => r = whole

\* One row of a node with one input, neither cell null.
IsUnary(op, arg, v, r) ==
    CASE op = "cast" -> IsCast(task.s.type, arg, v, r[1])
      [] op = "not" -> r[1] + v = 1
      [] op = "unix_nano" -> FitsIn(v * UnitToNanos[task.s.type], Word)
                               => r[1] = v * UnitToNanos[task.s.type]
      [] op = "list_len" -> r[1] = Cardinality(DOMAIN v)
      [] op = "list_get" -> IF Place(v, arg) \in 0..(Len(v) - 1) THEN r = v[Place(v, arg) + 1]
                            ELSE r = Null
      [] op = "list_slice" ->
            LET kept == SelectSeq(Positions(v), LAMBDA p : Place(v, arg[1]) <= p
                                                           /\ p < Place(v, arg[2]))
            IN  r = <<[i \in DOMAIN kept |-> v[kept[i] + 1]]>>
      [] op = "list_contains" -> (r[1] = 1) = (<<arg[2]>> \in Range(v))
      [] OTHER -> IsListAgg(op, v, r)

NullsOf(n) == [i \in 1..n |-> Null]

UnaryAsDefined ==
    LET cells == Cells(answer)
        given == Cells(task.s)
        n == Len(given)
        Elementwise == \A i \in DOMAIN cells :
                          IF given[i] = Null THEN cells[i] = Null
                          ELSE IsUnary(task.op, task.arg, given[i][1], cells[i])
    IN  /\ (task.op # "not" \/ ReadsAllChunks(task.s)) => Len(cells) = n
        /\ CASE task.op = "shift" ->
                   LET by == Min({n, IF task.arg < 0 THEN -task.arg ELSE task.arg})
                   IN  cells = IF task.arg >= 0 THEN NullsOf(by) \o SubSeq(given, 1, n - by)
                               ELSE SubSeq(given, by + 1, n) \o NullsOf(by)
             [] task.op \in {"is_null", "is_not_null"} ->
                   \A i \in 1..n : (cells[i] = <<1>>) = ((given[i] = Null) = (task.op = "is_null"))
             [] OTHER -> Elementwise

-----------------------------------------------------------------------------
(* Several inputs, and reductions. *)

SeveralAsDefined ==
    LET cells == Cells(answer)
        Input(k) == Cells(task.inputs[k])
    IN  CASE task.op = "coalesce" ->
               \A i \in 1..task.rows :
                  \/ \E k \in DOMAIN task.inputs :
                        /\ cells[i] = Input(k)[i] /\ cells[i] # Null
                        /\ \A j \in 1..(k - 1) : Input(j)[i] = Null
                  \/ (cells[i] = Null /\ \A k \in DOMAIN task.inputs : Input(k)[i] = Null)
          [] task.op = "if" ->
               \A i \in 1..task.rows :
                  /\ Input(1)[i] = Null => cells[i] = Null
                  /\ Input(1)[i] = <<1>> => cells[i] = Input(2)[i]
                  /\ Input(1)[i] = <<0>> => cells[i] = Input(3)[i]
          [] task.op = "diff" ->
               \A i \in 1..Len(Input(1)) :
                  IF i <= task.rows \/ Input(1)[i] = Null \/ Input(1)[i - task.rows] = Null
                  THEN cells[i] = Null
                  ELSE IsArithmetic("sub", answer.type,
                           Quarters(task.inputs[1].type, Input(1)[i][1]),
                           Quarters(task.inputs[1].type, Input(1)[i - task.rows][1]), cells[i][1])
          [] task.op = "list_union" ->
               \A i \in DOMAIN cells :
                  IF Input(1)[i] = Null \/ Input(2)[i] = Null THEN cells[i] = Null
                  ELSE LET both == Input(1)[i][1] \o Input(2)[i][1]
                           got == cells[i][1]
                       IN  /\ Range(got) = Range(both) \ {Null}
                           /\ Cardinality(Range(got)) = Len(got)
                           /\ \A p, q \in DOMAIN got : p < q =>
                                 \E d \in DOMAIN both : both[d] = got[p]
                                    /\ \A e \in 1..d : both[e] # got[q]

ReduceAsDefined ==
    LET present == SelectSeq(Cells(task.s), LAMBDA c : c # Null)
        values == [i \in DOMAIN present |-> Quarters(task.s.type, present[i][1])]
        Sum[n \in 0..Len(values)] == IF n = 0 THEN 0 ELSE Sum[n - 1] + values[n]
        sum == Sum[Len(values)]
        got == Cells(answer)[1]
        numbers == /\ task.s.type \in {"int64", "int32", "float64", "float32"}
                   /\ \A v \in Range(values) : Exact(v)
                   /\ \A n \in DOMAIN values : Exact(Sum[n]) /\ FitsIn(Sum[n] \div Whole, Word)
    IN  IF task.op = "count" THEN got = <<Len(present)>>
        ELSE numbers =>
             CASE task.op = "sum" -> got = <<sum>>
               [] task.op = "mean" -> IF values = <<>> THEN got = <<NaN>>
                     ELSE IsArithmetic("div", "float64", sum, Len(values) * Whole, got[1])
               [] task.op \in {"min", "max"} ->
                     IF values = <<>> THEN got = <<NaN>>
                     ELSE /\ got[1] \in Range(values)
                          /\ \A v \in Range(values) : IF task.op = "min" THEN got[1] <= v
                                                       ELSE got[1] >= v

\* Every node over series, on every path its types and chunks select, gives
\* row by row what its name says, within the range of exact floats.
ElementsAsDefined ==
    CASE ~Answered -> TRUE
      [] task.family = "binary" -> BinaryAsDefined
      [] task.family = "unary" -> UnaryAsDefined
      [] task.family = "several" -> SeveralAsDefined
      [] task.family = "reduce" -> ReduceAsDefined
      [] OTHER -> TRUE

\* What a window expression reads, and the scan whose builder takes floats only.
Measure == IF task.expr.op = "lit" THEN Of("int64", <<>>) ELSE ColumnOf(task.f, task.expr.col)
ModeOnAligned == task.expr.op = "mode" /\ OverFastPathApplicable(task.claim, task.keys)

\* ExprNode.Type tells the type of the answer before there is one, and what
\* it refuses fails, what it accepts of signed and floating numbers does not:
\* but for chunked and 32-bit integers, whose path gives
\* the other type, for a float literal under a bit operation, and for a mode
\* over an aligned frame.
TypeTold ==
    LET Plain(s) == Len(s.chunks) = 1 /\ s.type # "int32"
        told == IF task.family = "binary"
                THEN TypeOfBinary(task.op, task.left.s.type, task.right.s.type)
                ELSE TypeOfUnary(task.op, task.arg, task.s.type)
        plain == IF task.family = "binary" THEN Plain(task.left.s) /\ Plain(task.right.s)
                                                /\ task.op \notin Bitwises
                 ELSE Plain(task.s)
        basic == {"int64", "int32", "float64", "float32"}
    IN  /\ (done /\ task.family \in {"binary", "unary"}) =>
            /\ plain => answer.type \in {"failed", told}
            /\ (task.family = "binary" /\ told # "failed" /\ task.op \notin Bitwises
                 /\ {task.left.s.type, task.right.s.type} \subseteq basic)
               => answer.type \in basic \cup {"bool"}
        /\ (done /\ task.family = "over" /\ ~ModeOnAligned
              /\ (task.keys = <<>> => Plain(Measure))) =>
              answer.type \in {"failed", TypeOfOver(task.expr, Measure.type)}

-----------------------------------------------------------------------------
(* Frames. *)

FrameAnswered == done /\ answer # FailedFrame
RowsOf(f, names) == [r \in 1..Rows(f) |-> [k \in DOMAIN names |-> Cells(ColumnOf(f, names[k]))[r]]]
Occurring(s) == Values(Present(Cells(s)))

\* What the keys' bytes do not tell apart: floats that are no multiples of
\* 1e-9 or out of range, texts with a separator in a key of several columns,
\* and in a count the text that stands for the nulls.
PlainSeries(s) == s.type = "float64" =>
    \A q \in Occurring(s) : q # NaN /\ q % KeyStep = 0 /\ FitsIn(q \div KeyStep, Word)
PlainKeys(f, names) ==
    \A n \in Range(names) :
        LET s == ColumnOf(f, n)
        IN  /\ PlainSeries(s)
            /\ (s.type = "text" /\ Len(names) > 1) =>
                  \A v \in Occurring(s) : Separator \notin Range(Spelling[v])
PlainCounts(s) == PlainSeries(s) /\ (s.type = "text" => \A v \in Occurring(s) : Spelling[v] # NullKey)

FirstAt(keys, k) == CHOOSE r \in DOMAIN keys : keys[r] = k /\ \A q \in 1..(r - 1) : keys[q] # k
Occurrences(seq, v) == Cardinality({i \in DOMAIN seq : seq[i] = v})

\* out has, once each and in their order, the first rows of the keys asked for.
AreFirsts(out, outKeys, rows, keys, asked) ==
    /\ Range(outKeys) = asked
    /\ \A p \in DOMAIN out : out[p] = rows[FirstAt(keys, outKeys[p])]
    /\ \A p, q \in DOMAIN out : p < q => FirstAt(keys, outKeys[p]) < FirstAt(keys, outKeys[q])

IsSetOp ==
    LET names == KeyNames(task.f, task.cols)
        all == task.f.names
        f == RowsOf(task.f, names)
        g == RowsOf(task.g, names)
        stacked == task.op = "union"
        asked == CASE task.op = "unique" -> Range(f) [] task.op = "union" -> Range(f) \cup Range(g)
                   [] task.op = "intersect" -> Range(f) \cap Range(g)
                   [] task.op = "difference" -> Range(f) \ Range(g)
    IN  AreFirsts(RowsOf(answer, all), RowsOf(answer, names),
                  RowsOf(task.f, all) \o (IF stacked THEN RowsOf(task.g, all) ELSE <<>>),
                  f \o (IF stacked THEN g ELSE <<>>), asked)

NotAfter(a, b, descending) ==
    \/ a = b
    \/ b = Null
    \/ (a # Null /\ IF descending THEN a[1] > b[1] ELSE a[1] < b[1])

IsCounts ==
    LET values == Cells(answer.cols[1])
        counts == Cells(answer.cols[2])
        given == Cells(ColumnOf(task.f, task.cols[1]))
    IN  /\ Range(values) = Range(given) /\ Cardinality(Range(given)) = Len(values)
        /\ \A i \in DOMAIN values : counts[i] = <<Occurrences(given, values[i])>>
        /\ \A i, j \in DOMAIN values : i < j =>
              \/ counts[i][1] > counts[j][1]
              \/ (counts[i] = counts[j] /\ NotAfter(values[i], values[j], FALSE))

\* A column "id" numbers the rows.
IsSortedFrame ==
    LET id == Cells(ColumnOf(answer, "id"))
        Key(i) == RowsOf(answer, task.cols)[i]
        all == task.f.names
    IN  /\ Range(RowsOf(answer, all)) = Range(RowsOf(task.f, all)) /\ Len(id) = Rows(task.f)
        /\ \A i, j \in DOMAIN id : i < j =>
              \/ (Key(i) = Key(j) /\ id[i][1] < id[j][1])
              \/ \E k \in DOMAIN task.cols :
                    /\ Key(i)[k] # Key(j)[k]
                    /\ NotAfter(Key(i)[k], Key(j)[k], task.flag)
                    /\ \A h \in 1..(k - 1) : Key(i)[h] = Key(j)[h]

IsFiltered ==
    LET mask == Cells(ColumnOf(task.g, task.cols[1]))
        kept == {r \in DOMAIN mask : mask[r] = <<1>>}
        all == task.f.names
    IN  /\ Rows(answer) = Cardinality(kept)
        /\ \A r \in kept : RowsOf(answer, all)[Cardinality({q \in kept : q <= r})]
                               = RowsOf(task.f, all)[r]

\* Each row's parts, side by side in their order, beside the row's id.
IsExploded ==
    LET id == Cells(ColumnOf(answer, "id"))
        got == Cells(ColumnOf(answer, task.cols[1]))
        geometry == ColumnOf(task.f, task.cols[1]).type = "geometry"
        PartsFor(cell) ==
            IF cell = Null THEN <<Null>>
            ELSE IF ~geometry THEN (IF cell[1] = <<>> THEN <<Null>> ELSE cell[1])
            ELSE IF Len(cell[1]) = 1 THEN <<cell>>
            ELSE [i \in DOMAIN cell[1][2] |-> <<<<cell[1][2][i]>>>>]
        given == Cells(ColumnOf(task.f, task.cols[1]))
        ids == Cells(ColumnOf(task.f, "id"))
    IN  /\ \A i, j \in DOMAIN id : i < j => id[i][1] <= id[j][1]
        /\ \A r \in DOMAIN given :
              LET at == SelectSeq([i \in DOMAIN id |-> i], LAMBDA i : id[i] = ids[r])
              IN  [i \in DOMAIN at |-> got[at[i]]] = PartsFor(given[r])

IsReduced(kind, type, cells, r) ==
    LET present == SelectSeq(cells, LAMBDA c : c # Null)
        Sum[n \in 0..Len(present)] == IF n = 0 THEN 0 ELSE Sum[n - 1] + Quarters(type, present[n][1])
    IN  CASE kind = "count" -> r = <<Len(present)>>
          [] kind = "n_unique" -> r = <<Cardinality(Range(present))>>
          [] present = <<>> -> r = Null
          [] kind = "sum" -> Exact(Sum[Len(present)]) => r = <<Sum[Len(present)]>>
          [] kind = "first" -> r = present[1]
          [] kind = "last" -> r = present[Len(present)]

\* A cell reduces the rows of its index and header, and is null without any;
\* a null that spells like a text gives way to it.
IsPivot ==
    LET index == Cells(answer.cols[1])
        i == Cells(ColumnOf(task.f, task.cols[1]))
        c == Cells(ColumnOf(task.f, task.cols[2]))
        v == ColumnOf(task.f, task.cols[3])
        ctype == ColumnOf(task.f, task.cols[2]).type
        Match(k, h) == {r \in DOMAIN i : i[r] = index[k] /\ Header(ctype, c[r]) = answer.names[h]}
        Texts(rows) == {r \in rows : c[r] # Null}
        Shown(rows) == IF Texts(rows) # {} THEN Texts(rows) ELSE rows
        CellsOf(rows) == LET at == SetToSortSeq(rows, LAMBDA a, b : a < b)
                         IN  [p \in DOMAIN at |-> Cells(v)[at[p]]]
    IN  /\ Range(index) = Range(i) /\ Cardinality(Range(i)) = Len(index)
        /\ \A p, q \in DOMAIN index : p < q => (index[p] = Null \/ index[q][1] < 0
                                                \/ index[p][1] < index[q][1])
        /\ \A h \in 2..Len(answer.names), k \in DOMAIN index :
              LET got == Cells(answer.cols[h])[k]
              IN  IF Match(k, h) = {} THEN got = Null
                  ELSE IsReduced(task.op, v.type, CellsOf(Shown(Match(k, h))), got)

\* The values of a series, once each, in the order they first came.
SeriesAsDefined ==
    LET given == Cells(task.s) \o (IF task.op = "union" THEN Cells(task.t) ELSE <<>>)
        values == Range(given) \ {Null}
        other == Range(Cells(task.t))
        got == Cells(answer)
    IN  CASE task.op = "n_unique" -> got[1] = <<Cardinality(values)>>
          [] task.op = "collect" ->
                /\ Range(got[1][1]) = values /\ Len(got[1][1]) = Cardinality(values)
                /\ \A i, j \in DOMAIN got[1][1] : i < j => got[1][1][i][1] < got[1][1][j][1]
          [] OTHER -> AreFirsts(got, got, given, given,
                          CASE task.op \in {"unique", "union"} -> values
                            [] task.op = "intersect" -> values \cap other
                            [] task.op = "difference" -> values \ other)

\* Hash and gather know these types in one chunk as in several.
Kept == {"text", "int64", "int32", "bool", "float64"}

\* What a set operation, a sort, a filter, an explosion, a pivot or a count
\* makes of frames is what it is defined to be, unless the bytes of the keys
\* confuse rows (PlainKeys); columns of the common types are never refused by
\* the first.
FramesAsDefined ==
    /\ (FrameAnswered /\ task.family = "frame") =>
          CASE task.op \in {"unique", "union", "intersect", "difference"} ->
                  LET names == KeyNames(task.f, task.cols)
                  IN  (PlainKeys(task.f, names)
                         /\ (task.op = "unique" \/ PlainKeys(task.g, names))) => IsSetOp
            [] task.op = "counts" -> PlainCounts(ColumnOf(task.f, task.cols[1])) => IsCounts
            [] task.op = "sort" -> IsSortedFrame
            [] task.op = "filter" -> IsFiltered
            [] task.op = "explode" -> IsExploded
            [] OTHER -> (PlainKeys(task.f, <<task.cols[1], task.cols[2]>>)
                           /\ PlainSeries(ColumnOf(task.f, task.cols[3]))) => IsPivot
    /\ (done /\ task.family = "frame" /\ task.op \in {"unique", "union", "intersect", "difference"}
          /\ \A s \in Range(task.f.cols) : s.type \in Kept
          /\ SchemasCompatible(task.f, task.g)) => answer # FailedFrame
    /\ (Answered /\ task.family = "series" /\ PlainSeries(task.s) /\ PlainSeries(task.t))
       => SeriesAsDefined

-----------------------------------------------------------------------------
(* Windows. *)

\* The numbers of some rows, reduced.
IsNumbersReduced(kind, s, rows, r) ==
    LET counted == kind = "count" \/ s.type \in {"int64", "int32", "float64", "float32"}
        held == {j \in rows : counted /\ Cells(s)[j] # Null}
        order == SetToSortSeq(held, LAMBDA a, b : a < b)
        Value(j) == Quarters(s.type, Cells(s)[j][1])
        Sum[n \in 0..Len(order)] == IF n = 0 THEN 0 ELSE Sum[n - 1] + Value(order[n])
        sum == Sum[Len(order)]
        exact == \A n \in DOMAIN order : Exact(Sum[n]) /\ Exact(Value(order[n]))
    IN  CASE kind = "count" -> r = <<Cardinality(held)>>
          [] kind = "rows" -> r = <<Cardinality(rows)>>
          [] held = {} -> r = Null
          [] kind = "sum" -> exact => r = <<sum>>
          [] kind = "mean" -> exact => IsArithmetic("div", "float64", sum, Len(order) * Whole, r[1])
          [] kind = "min" -> /\ \E j \in held : r = <<Value(j)>>
                             /\ \A j \in held : r[1] <= Value(j)
          [] kind = "max" -> /\ \E j \in held : r = <<Value(j)>>
                             /\ \A j \in held : r[1] >= Value(j)

\* A rolling count of what is not a number is none.
IsWindow(kind, rows, r) ==
    IF kind = "count" /\ ~IsNumeric(task.s) THEN r = <<0>>
    ELSE IsNumbersReduced(kind, task.s, rows, r)

Instant(i) == Cells(task.t)[i][1] * NanosOf(task.t.type)
Dated == {i \in 1..Length(task.t) : Cells(task.t)[i] # Null}

\* A trailing window, from the first row in it up to row i: a row younger than
\* the period is in, an older one is not.  Whether a row of exactly that age is
\* in (edge), and one without a time between rows that are (undated), is not
\* fixed, but is the same all over a series: the code takes both in, the
\* convention its header names has neither.
TrailingRows(i, edge, undated) ==
    LET Age(j) == Instant(i) - Instant(j)
        dated == {j \in 1..i \cap Dated : Age(j) < task.n \/ (edge /\ Age(j) = task.n)}
    IN  dated \cup {j \in 1..i \ Dated : undated /\ \E k \in dated : k < j}

IsTrailing(cells, edge, undated) ==
    \A i \in DOMAIN cells :
        IF i \in Dated THEN IsWindow(task.kind, TrailingRows(i, edge, undated), cells[i])
        ELSE cells[i] = Null

IsRolling(cells) ==
    IF task.op = "rolling_by"
    THEN \E edge, undated \in BOOLEAN : IsTrailing(cells, edge, undated)
    ELSE \A i \in DOMAIN cells :
            IF i < task.n THEN cells[i] = Null
            ELSE IsWindow(task.kind, (i - task.n + 1)..i, cells[i])

\* The offset in force, and the instants whose wall clock shows a midnight
\* that starts a week or a month.
Offset(t) == task.zone[CHOOSE i \in DOMAIN task.zone :
                         /\ task.zone[i].from <= t
                         /\ \A j \in DOMAIN task.zone : task.zone[j].from <= t => j <= i].offset
StartsUnit(t) ==
    LET wall == t + Offset(t)
    IN  /\ wall % DayNanos = 0
        /\ IF task.kind = "week" THEN (wall \div DayNanos) % 7 = 4
           ELSE (wall \div DayNanos) \in MonthStarts

\* No transition makes a midnight that starts a unit happen twice or never.
PlainMidnights ==
    \A i \in 2..Len(task.zone) :
        \A o \in {task.zone[i - 1].offset, task.zone[i].offset} :
            LET wall == task.zone[i].from + o
            IN  wall % DayNanos \notin 0..(DayNanos \div 4)
                /\ wall % DayNanos < DayNanos - DayNanos \div 4

IsTime(t, r) ==
    CASE task.op = "truncate" -> r % task.n = 0 /\ r <= t /\ t < r + task.n
      [] task.op = "calendar" ->
            PlainMidnights => /\ r <= t /\ StartsUnit(r)
                              /\ \A u \in (r + 1)..t : ~StartsUnit(u)
      [] task.op = "extract" ->
            LET wall == t + Offset(t)
            IN  IF task.kind = "weekday" THEN (wall \div DayNanos - r) % 7 = 3 /\ r \in 0..6
                ELSE r \in 0..(DayNanos - 1) /\ (wall - r) % DayNanos = 0
      [] task.op = "shift" -> r = t + task.n
      [] task.op = "compare" -> IsComparison(task.kind, t, task.n, r)

IsTimes(cells) ==
    \A i \in DOMAIN cells : IF i \in Dated THEN IsTime(Instant(i), cells[i][1])
                            ELSE cells[i] = Null

IsDiff(cells) ==
    \A i \in DOMAIN cells :
        IF i \in Dated /\ Cells(task.s)[i] # Null
        THEN Cells(task.s)[i][1] * NanosOf(task.s.type) + cells[i][1] = Instant(i)
        ELSE cells[i] = Null

\* Every dated row is in the one bucket its instant falls into.
RowsInBucket(b) ==
    LET start == Cells(answer.cols[1])[b][1]
    IN  {i \in Dated : start <= Instant(i) /\ Instant(i) < start + task.n}

IsBuckets ==
    LET starts == Cells(answer.cols[1])
    IN  /\ \A b \in DOMAIN starts : starts[b][1] % task.n = 0 /\ RowsInBucket(b) # {}
        /\ \A i \in Dated : \E b \in DOMAIN starts : i \in RowsInBucket(b)
        /\ \A b, c \in DOMAIN starts : b < c => starts[b][1] < starts[c][1]
        /\ task.kind # "last" => \A b \in DOMAIN starts :
              IsWindow(task.kind, RowsInBucket(b), Cells(answer.cols[2])[b])

BucketAnswered == FrameAnswered /\ task.family = "bucket" /\ answer.names # <<"panic">>

\* The rows of one's partition in the order asked for (an aggregate and a
\* partition without keys ignore it), the cell that the n-th row before has,
\* and what an expression makes of them.
Peers(i) ==
    LET keys == RowsOf(task.f, task.keys)
        Cell(o, j) == Cells(ColumnOf(task.f, o.name))[j]
        order == IF task.keys = <<>> \/ task.expr.op \in ScalarAggs THEN <<>> ELSE task.order
        Precedes(j, k) ==
            \/ \E o \in DOMAIN order :
                  /\ Cell(order[o], j) # Cell(order[o], k)
                  /\ NotAfter(Cell(order[o], j), Cell(order[o], k), order[o].descending)
                  /\ \A h \in 1..(o - 1) : Cell(order[h], j) = Cell(order[h], k)
            \/ j < k /\ \A o \in DOMAIN order : Cell(order[o], j) = Cell(order[o], k)
    IN  SetToSortSeq({j \in DOMAIN keys : keys[j] = keys[i]}, Precedes)

CellBack(i, n) ==
    LET peers == Peers(i)
        at == CHOOSE p \in DOMAIN peers : peers[p] = i
    IN  IF at - n \in DOMAIN peers THEN Cells(Measure)[peers[at - n]] ELSE Null

IsMode(r, present) ==
    /\ r \in Range(present)
    /\ \A v \in Range(present) : Occurrences(present, v) <= Occurrences(present, r)
    /\ \E p \in DOMAIN present : present[p] = r
         /\ \A q \in 1..(p - 1) : Occurrences(present, present[q]) < Occurrences(present, r)

IsOver(i, r) ==
    LET peers == Peers(i)
        cells == [p \in DOMAIN peers |-> Cells(Measure)[peers[p]]]
        op == task.expr.op
        now == CellBack(i, 0)
        then == CellBack(i, task.expr.n)
    IN  CASE op = "lit" -> r = <<1>>
          [] op = "shift" -> r = then
          [] op = "gap" -> IF Null \in {now, then} THEN r = Null
                           ELSE IsArithmetic("sub", answer.type, Quarters(Measure.type, now[1]),
                                             Quarters(Measure.type, then[1]), r[1])
          [] op = "mode" -> IF Present(cells) = <<>> THEN r = Null
                            ELSE PlainSeries(Measure) => IsMode(r, Present(cells))
          [] OTHER -> IsNumbersReduced(op, Measure, {peers[p] : p \in DOMAIN peers}, r)

\* A key that cannot be encoded puts every row of a shape-preserving
\* expression into one partition, and some keys are encoded alike.
KeysEncoded == /\ \A k \in Range(task.keys) : ColumnOf(task.f, k).type \in Hashable
               /\ PlainKeys(task.f, task.keys)
OverAsDefined ==
    (HasColumns(task.f, task.keys) /\ KeysEncoded) =>
        /\ Answered => /\ Length(answer) = Rows(task.f)
                       /\ \A i \in DOMAIN Cells(answer) : IsOver(i, Cells(answer)[i])
        /\ (task.expr.op \in ScalarAggs \cup {"shift"} /\ Measure.type \in {"int64", "float64"}
              /\ task.order = <<>> /\ ~ModeOnAligned
              /\ \A s \in Range(task.f.cols) : s.type \in Kept) => answer # Failed

Rising == \A i, j \in Dated : i < j => Instant(i) <= Instant(j)
\* Exception: a first row without a time is taken for one of 1970.
StartsUndated == 1 \notin Dated /\ \E i \in Dated : Instant(i) < 0

\* A window, a truncation or a bucket holds the rows that its definition
\* says, at its edges too (but see TrailingRows), before 1970 and across the
\* spans of a zone; rolling refuses the rows that are not in the order of time,
\* and only those.
WindowsAsDefined ==
    /\ (Answered /\ task.family = "window") =>
          CASE task.op \in {"rolling", "rolling_by"} -> IsRolling(Cells(answer))
            [] task.op = "diff" -> IsDiff(Cells(answer))
            [] OTHER -> IsTimes(Cells(answer))
    /\ (done /\ task.family = "window" /\ task.op = "rolling_by" /\ IsNumeric(task.s)
          /\ task.n > 0 /\ IsDateTime(task.t) /\ Len(task.t.chunks) = 1 /\ ~StartsUndated)
       => (answer = Failed <=> ~Rising)
    /\ BucketAnswered => IsBuckets
    /\ (done /\ task.family = "over") => OverAsDefined

=============================================================================
