----------------------------- MODULE GroupByPaths -----------------------------
(***************************************************************************)
(* The ways a group-by can run, over the same rows: the eager engine's     *)
(* general path (a table of byte-encoded keys), its fast paths for one     *)
(* key column, its linear scan of an aligned frame, and the streaming      *)
(* engine's three key modes with one accumulator per group and kind.       *)
(*                                                                         *)
(* A cell is Null or <<value>>.  A text is the sequence of its bytes, a    *)
(* float an integer number of half units of 1e-9 (the precision of the     *)
(* key encoding), an integer's eight bytes are its last two; a NaN is left *)
(* out.  Floating point sums are exact: means and variances are scaled integers, a        *)
(* standard deviation is the variance under the root.                      *)
(***************************************************************************)
EXTENDS Integers, Sequences, FiniteSets, Functions, Bytes

CONSTANTS Inputs,     \* the frames: [keys, value], columns of equal length
          BatchSizes, \* the numbers of rows a batch may have
          Unit,       \* means are in units of 1 / Unit
          Saturates   \* whether a float out of range becomes the nearest integer

Null == <<>>
Error == <<"not", "readable">>   \* an aggregate that cannot be computed
Kinds == {"star", "count", "sum", "mean", "min", "max", "first", "last",
          "var", "nunique", "median", "mode"}
Numeric == {"int", "float"}
Readable == {"int", "float", "text", "bool"}   \* types readScalarAt and keyOfAppend know
Summed == {"sum", "mean", "min", "max", "var", "median"}   \* kinds that need a number
Scalar == {"first", "last", "nunique", "mode"}             \* kinds that read a scalar

NumRows(f) == Len(f.value.cells)
Texts(keys) == Len(keys) = 1 /\ keys[1].type = "text"
Ints(keys) == Len(keys) = 1 /\ keys[1].type \in {"int", "bool"}

\* What a column of a type can hold: integers of two bytes, floats of any
\* size.  No type but those of KeyTypes is hashable.
KeyTypes == {"text", "int", "bool", "float"}
Shorts == {v \in Int : -(128 * 256) <= v /\ v < 128 * 256}
Values(type) == CASE type = "text" -> Seq(0..255)
                  [] type = "bool" -> 0..1
                  [] type = "float" -> Int
                  [] OTHER -> Shorts
IsColumn(c, types) ==
    /\ c.type \in types
    /\ c.cells \in Seq({Null} \cup [1..1 -> Values(c.type)])
IsFrame(f) ==
    /\ Len(f.keys) \in Nat \ {0} /\ IsColumn(f.value, KeyTypes \cup {"int8"})
    /\ \A k \in 1..Len(f.keys) : /\ IsColumn(f.keys[k], KeyTypes)
                                 /\ Len(f.keys[k].cells) = NumRows(f)

ASSUME InputsAssumption == /\ \A f \in Inputs : IsFrame(f)
                           /\ \A size \in BatchSizes : size \in Nat \ {0}

ASSUME MachineAssumption == Saturates \in BOOLEAN

\* Unit is a multiple of the size of every group, so that no mean is cut.
ASSUME UnitAssumption ==
    /\ Unit \in Nat \ {0}
    /\ \A f \in Inputs : \A n \in 1..NumRows(f) : Unit % n = 0

-----------------------------------------------------------------------------
(* Order. *)

Before(numeric, a, b) == IF numeric THEN a < b ELSE BytesLess(a, b)

\* The elements of a set as sort.Strings and slices.Sort leave them: each
\* stands behind all that come before it.
Ascending(numeric, S) ==
    [n \in 1..Cardinality(S) |->
        CHOOSE x \in S : Cardinality({y \in S : Before(numeric, y, x)}) = n - 1]

\* The rows of a set in the order they are read.
InOrder(rows) == Ascending(TRUE, rows)

-----------------------------------------------------------------------------
(* Keys. *)

Tag == [text |-> 1, int |-> 2, bool |-> 4, float |-> 5]
NullKey == <<0>>                      \* "\x00__gobi_null__" of the fast path
Separator == 31

\* The two's complement bytes of v, highest first.
BigEndian(v) == <<(v \div 256) % 256, v % 256>>

\* int64(v * 1e9): towards zero; out of range it is what the machine makes
\* of it, the smallest integer (amd64) or the nearest one (arm64).
Units(v) == IF v >= 0 THEN v \div 2 ELSE -((-v) \div 2)
Truncated(v) == IF Units(v) \in Shorts THEN Units(v)
                ELSE IF Saturates /\ v > 0 THEN 128 * 256 - 1 ELSE -(128 * 256)

CellKey(type, cell) ==
    IF cell = Null THEN <<0>>
    ELSE <<Tag[type]>> \o (CASE type = "text" -> cell[1]
                             [] type = "bool" -> <<cell[1]>>
                             [] type = "float" -> BigEndian(Truncated(cell[1]))
                             [] OTHER -> BigEndian(cell[1]))

RowKey(keys, row) ==
    LET upTo[k \in 1..Len(keys)] ==
            LET own == CellKey(keys[k].type, keys[k].cells[row])
            IN  IF k = 1 THEN own ELSE upTo[k - 1] \o <<Separator>> \o own
    IN  upTo[Len(keys)]

\* The rows of each distinct id, the ids in the order of their bytes.
RowsById(ids) ==
    LET order == Ascending(FALSE, Range(ids))
    IN  [g \in 1..Len(order) |-> InOrder({r \in 1..Len(ids) : ids[r] = order[g]})]

KeyCells(keys, row) == [k \in 1..Len(keys) |-> keys[k].cells[row]]

-----------------------------------------------------------------------------
(* The eager paths: a sequence of groups, [key, rows]. *)

WithFirstKey(keys, groups) ==
    [g \in 1..Len(groups) |-> [key |-> KeyCells(keys, groups[g][1]),
                               rows |-> groups[g]]]

RowKeys(f) == [r \in 1..NumRows(f) |-> RowKey(f.keys, r)]

Generic(f) == WithFirstKey(f.keys, RowsById(RowKeys(f)))

\* One text column: a null is the sentinel, and the sentinel is a null.
FastText(cells) ==
    LET ids == [r \in 1..Len(cells) |-> IF cells[r] = Null THEN NullKey
                                        ELSE cells[r][1]]
        groups == RowsById(ids)
        KeyOf(id) == IF id = NullKey THEN <<Null>> ELSE <<<<id>>>>
    IN  [g \in 1..Len(groups) |-> [key |-> KeyOf(ids[groups[g][1]]),
                                   rows |-> groups[g]]]

\* Fault: the null rows are set aside and forgotten.
FastNumberDropsNulls(f, cells) ==
    LET present == {r \in 1..Len(cells) : cells[r] # Null}
        order == Ascending(TRUE, {cells[r][1] : r \in present})
    IN  WithFirstKey(f.keys, [g \in 1..Len(order) |->
                                 InOrder({r \in present : cells[r][1] = order[g]})])

\* One number column: by value, and the nulls last.
FastNumber(f, cells) ==
    LET nulls == {r \in 1..Len(cells) : cells[r] = Null}
        present == {r \in 1..Len(cells) : cells[r] # Null}
        order == Ascending(TRUE, {cells[r][1] : r \in present})
        groups == [g \in 1..Len(order) |-> InOrder({r \in present : cells[r][1] = order[g]})]
    IN  WithFirstKey(f.keys, IF nulls = {} THEN groups
                             ELSE Append(groups, InOrder(nulls)))

\* The fast path needs one text, integer or float key, a numeric value
\* column and kinds that are neither of first, last, nunique, median, mode.
FastApplies(f, kind) ==
    /\ Len(f.keys) = 1 /\ f.keys[1].type \in {"text", "int", "float"}
    /\ kind \notin {"first", "last", "nunique", "median", "mode"}
    /\ kind = "star" \/ f.value.type \in Numeric

Fast(f) == IF Texts(f.keys) THEN FastText(f.keys[1].cells)
           ELSE FastNumber(f, f.keys[1].cells)

\* An aligned, sorted frame: a group is a run of equal keys.
Aligned(f) ==
    LET starts == {r \in 1..NumRows(f) :
                      r = 1 \/ RowKey(f.keys, r) # RowKey(f.keys, r - 1)}
        first == InOrder(starts)
        Run(g) == {r \in first[g]..NumRows(f) : \A s \in starts : s <= first[g] \/ r < s}
    IN  WithFirstKey(f.keys, [g \in 1..Len(first) |-> InOrder(Run(g))])

\* What the writer of an aligned and sorted file promises.
Contiguous(f) ==
    \A r, s, t \in 1..NumRows(f) :
        (r < s /\ s < t /\ KeyCells(f.keys, r) = KeyCells(f.keys, t))
            => KeyCells(f.keys, s) = KeyCells(f.keys, r)

-----------------------------------------------------------------------------
(* The eager aggregates: a group's cells, in row order, to a cell. *)

Present(cells) == LET kept == InOrder({i \in 1..Len(cells) : cells[i] # Null})
                  IN  [n \in 1..Len(kept) |-> cells[kept[n]][1]]

\* The value at place k when they are sorted.
Sorted(vs, k) ==
    CHOOSE v \in Range(vs) : /\ Cardinality({i \in 1..Len(vs) : vs[i] < v}) < k
                             /\ k <= Cardinality({i \in 1..Len(vs) : vs[i] <= v})

\* Twice the middle of the sorted values.
Middle(vs) ==
    LET n == Len(vs)
    IN  IF n = 0 THEN Null
        ELSE IF n % 2 = 1 THEN <<2 * Sorted(vs, n \div 2 + 1)>>
        ELSE <<Sorted(vs, n \div 2) + Sorted(vs, n \div 2 + 1)>>

\* The first index with the largest count.
BestIndex(counts) ==
    CHOOSE i \in DOMAIN counts :
        \A j \in DOMAIN counts :
            counts[j] < counts[i] \/ (counts[j] = counts[i] /\ i <= j)

MostFrequent(type, vs) ==
    LET keyed == [i \in 1..Len(vs) |-> CellKey(type, <<vs[i]>>)]
        Times(i) == Cardinality({j \in 1..Len(vs) : keyed[j] = keyed[i]})
    IN  IF vs = <<>> THEN Null
        ELSE <<vs[BestIndex([i \in 1..Len(vs) |-> Times(i)])]>>

\* One pass over the values: Welford's mean and sum of squared deviations
\* beside the sum and the extremes.
PassOver(a, v) ==
    LET n == a.n + 1
        delta == Unit * v - a.mean
        mean == a.mean + delta \div n
    IN  [n |-> n, sum |-> a.sum + v,
         min |-> IF a.n = 0 \/ v < a.min THEN v ELSE a.min,
         max |-> IF a.n = 0 \/ v > a.max THEN v ELSE a.max,
         mean |-> mean, m2 |-> a.m2 + delta * (Unit * v - mean)]
NothingPassed == [n |-> 0, sum |-> 0, min |-> 0, max |-> 0, mean |-> 0, m2 |-> 0]
OnePass(vs) ==
    LET upTo[i \in 0..Len(vs)] ==
            IF i = 0 THEN NothingPassed ELSE PassOver(upTo[i - 1], vs[i])
    IN  upTo[Len(vs)]

\* Var in units of 1 / (Unit * Unit * Unit).
Variance(n, m2) == IF n < 2 THEN Null ELSE <<(Unit * m2) \div (n - 1)>>

FromPass(kind, a) ==
    IF a.n = 0 THEN Null
    ELSE CASE kind = "sum" -> <<a.sum>>
           [] kind = "mean" -> <<(Unit * a.sum) \div a.n>>
           [] kind = "min" -> <<a.min>>
           [] kind = "max" -> <<a.max>>
           [] kind = "var" -> Variance(a.n, a.m2)

AppendAgg(kind, type, cells) ==
    LET vs == Present(cells)
        fails == \/ kind \in Summed /\ type \notin Numeric
                 \/ kind \in Scalar /\ vs # <<>> /\ type \notin Readable
    IN  IF fails THEN Error
        ELSE CASE kind = "star" -> <<Len(cells)>>
               [] kind = "count" -> <<Len(vs)>>
               [] kind = "first" -> IF vs = <<>> THEN Null ELSE <<Head(vs)>>
               [] kind = "last" -> IF vs = <<>> THEN Null ELSE <<vs[Len(vs)]>>
               [] kind = "mode" -> MostFrequent(type, vs)
               [] kind = "nunique" -> <<Cardinality({CellKey(type, <<v>>) : v \in Range(vs)})>>
               [] kind = "median" -> Middle(vs)
               [] OTHER -> FromPass(kind, OnePass(vs))

\* A path's answer for one kind, as the rows of the resulting frame.
Answer(f, groups, kind) ==
    LET Cells(rows) == [i \in 1..Len(rows) |-> f.value.cells[rows[i]]]
        rows == [g \in 1..Len(groups) |->
                    [key |-> groups[g].key,
                     agg |-> AppendAgg(kind, f.value.type, Cells(groups[g].rows))]]
    IN  IF \E g \in 1..Len(rows) : rows[g].agg = Error THEN <<>> ELSE rows

\* GroupBy.Agg: the first path that applies.
Agg(f, kind) ==
    Answer(f, IF FastApplies(f, kind) THEN Fast(f) ELSE Generic(f), kind)

-----------------------------------------------------------------------------
(* The streaming accumulators.  One record serves every kind; a kind uses  *)
(* the fields its accumulator has.                                         *)

NewAccumulator == [n |-> 0, sum |-> 0, seen |-> FALSE, value |-> Null, mean |-> 0,
                   m2 |-> 0, values |-> <<>>, firsts |-> <<>>, counts |-> <<>>]

\* Fault: the deviation is squared before the mean has moved.
WelfordOldMean(a, v) ==
    LET n == a.n + 1
        delta == Unit * v - a.mean
    IN  [a EXCEPT !.n = n, !.mean = @ + delta \div n, !.m2 = @ + delta * delta]

Welford(a, v) ==
    LET n == a.n + 1
        delta == Unit * v - a.mean
        mean == a.mean + delta \div n
    IN  [a EXCEPT !.n = n, !.mean = mean, !.m2 = @ + delta * (Unit * v - mean)]

Extreme(a, v, replaces) ==
    IF ~a.seen \/ replaces THEN [a EXCEPT !.value = <<v>>, !.seen = TRUE] ELSE a

\* The distinct encoded values, their first scalars and how often each came.
Counted(a, type, v) ==
    LET key == CellKey(type, <<v>>)
    IN  IF \E i \in 1..Len(a.firsts) : a.firsts[i] = key
        THEN LET i == CHOOSE i \in 1..Len(a.firsts) : a.firsts[i] = key
             IN  [a EXCEPT !.counts[i] = @ + 1]
        ELSE [a EXCEPT !.firsts = Append(@, key), !.counts = Append(@, 1),
                       !.values = Append(@, v)]

\* One operator per accumulator: what a value that is not null does to it.
CountAcc(a) == [a EXCEPT !.n = @ + 1]
SumAcc(a, v) == [a EXCEPT !.sum = @ + v, !.seen = TRUE]
MeanAcc(a, v) == [a EXCEPT !.sum = @ + v, !.n = @ + 1]
MinMaxAcc(kind, a, v) ==
    Extreme(a, v, IF kind = "min" THEN a.seen /\ v < a.value[1]
                  ELSE a.seen /\ v > a.value[1])
FirstLastAcc(kind, a, v) == Extreme(a, v, kind = "last")
MedianAcc(a, v) == [a EXCEPT !.values = Append(@, v)]

Update(kind, type, a, cell) ==
    IF cell = Null /\ kind # "star" THEN a
    ELSE CASE kind \in {"star", "count"} -> CountAcc(a)
           [] kind = "sum" -> SumAcc(a, cell[1])
           [] kind = "mean" -> MeanAcc(a, cell[1])
           [] kind \in {"min", "max"} -> MinMaxAcc(kind, a, cell[1])
           [] kind \in {"first", "last"} -> FirstLastAcc(kind, a, cell[1])
           [] kind = "var" -> Welford(a, cell[1])
           [] kind = "median" -> MedianAcc(a, cell[1])
           [] kind \in {"nunique", "mode"} -> Counted(a, type, cell[1])

\* The most frequent value, the first seen among equals.
Favourite(a) == IF a.counts = <<>> THEN Null ELSE <<a.values[BestIndex(a.counts)]>>

Finalize(kind, a) ==
    CASE kind \in {"star", "count"} -> <<a.n>>
      [] kind = "sum" -> IF a.seen THEN <<a.sum>> ELSE Null
      [] kind = "mean" -> IF a.n = 0 THEN Null ELSE <<(Unit * a.sum) \div a.n>>
      [] kind \in {"min", "max", "first", "last"} -> a.value
      [] kind = "var" -> Variance(a.n, a.m2)
      [] kind = "nunique" -> <<Len(a.firsts)>>
      [] kind = "median" -> Middle(a.values)
      [] kind = "mode" -> Favourite(a)

\* A type an accumulator does not take, a value it cannot read.
UpdateFails(kind, type, cell) ==
    \/ kind \in Summed /\ type \notin Numeric
    \/ kind \in Scalar /\ cell # Null /\ type \notin Readable

-----------------------------------------------------------------------------
(* The streaming build: batch by batch, then sorted and emitted. *)

VARIABLES input,   \* the frame, cut into batches as it is read
          kind,    \* the aggregation
          at,      \* rows consumed
          groups,  \* e.groups or e.groupsInt64: [id, key, acc], as first seen
          status,  \* "building", "failed" or "done"
          result   \* the rows of the result batch

vars == <<input, kind, at, groups, status, result>>

\* The group id of a row, as a set of at most one: pickKeyMode's three modes.
GroupId(f, row) ==
    LET cell == f.keys[1].cells[row]
    IN  IF Texts(f.keys) THEN {IF cell = Null THEN <<>> ELSE cell[1]}
        ELSE IF Ints(f.keys) THEN (IF cell = Null THEN {} ELSE {cell[1]})
        ELSE {RowKey(f.keys, row)}

\* The key a new group remembers: the string itself, or the row's scalars.
FirstTouch(f, id, row) ==
    [id |-> id,
     key |-> IF Texts(f.keys) THEN <<<<id>>>> ELSE KeyCells(f.keys, row),
     acc |-> NewAccumulator]

Touched(gs, f, id, row) ==
    IF \E g \in 1..Len(gs) : gs[g].id = id THEN gs
    ELSE Append(gs, FirstTouch(f, id, row))

ConsumeRow(gs, f, k, row) ==
    IF GroupId(f, row) = {} THEN gs
    ELSE LET id == CHOOSE i \in GroupId(f, row) : TRUE
             all == Touched(gs, f, id, row)
         IN  [g \in 1..Len(all) |->
                 IF all[g].id # id THEN all[g]
                 ELSE [all[g] EXCEPT !.acc = Update(k, f.value.type, @,
                                                    f.value.cells[row])]]

\* The groups after the rows behind from and up to to, one after another.
ConsumeRows(gs, f, k, from, to) ==
    LET upTo[r \in from..to] == IF r = from THEN gs ELSE ConsumeRow(upTo[r - 1], f, k, r)
    IN  upTo[to]

\* An update that fails, fails the build.
RowFails(f, k, row) == /\ GroupId(f, row) # {}
                       /\ UpdateFails(k, f.value.type, f.value.cells[row])

Init == /\ input \in Inputs
        /\ kind \in Kinds
        /\ at = 0
        /\ groups = <<>>
        /\ status = "building"
        /\ result = <<>>

\* consumeBatch: the rows of a batch, to their groups' accumulators.
Consume(size) ==
    /\ status = "building" /\ at < NumRows(input)
    /\ LET last == IF at + size > NumRows(input) THEN NumRows(input) ELSE at + size
           fails == \E row \in at + 1..last : RowFails(input, kind, row)
       IN  /\ at' = last
           /\ groups' = IF fails THEN groups ELSE ConsumeRows(groups, input, kind, at, last)
           /\ status' = IF fails THEN "failed" ELSE status
    /\ UNCHANGED <<input, kind, result>>

\* Fault: the groups as they were first seen.
EmittedUnsorted(gs, f, k) ==
    [g \in 1..Len(gs) |-> [key |-> gs[g].key, agg |-> Finalize(k, gs[g].acc)]]

\* The groups in the order of their sorted ids.
Emitted(gs, f, k) ==
    LET order == Ascending(Ints(f.keys), {gs[g].id : g \in 1..Len(gs)})
        Group(id) == gs[CHOOSE g \in 1..Len(gs) : gs[g].id = id]
    IN  [n \in 1..Len(order) |-> [key |-> Group(order[n]).key,
                                  agg |-> Finalize(k, Group(order[n]).acc)]]

\* End of input: sort, and buildResultBatch.
Finish ==
    /\ status = "building" /\ at = NumRows(input)
    /\ status' = "done"
    /\ result' = Emitted(groups, input, kind)
    /\ UNCHANGED <<input, kind, at, groups>>

Next == Finish \/ \E size \in BatchSizes : Consume(size)

Spec == Init /\ [][Next]_vars /\ WF_vars(Next)

-----------------------------------------------------------------------------
(* What the paths owe each other and the definitions. *)

\* Columns without the values the key encodings are known to confuse: a
\* separator byte or the null sentinel in a text, floats that are no
\* multiples of 1e-9 or too large to be counted in them.
Plain(column) ==
    \A i \in 1..Len(column.cells) :
        LET cell == column.cells[i]
        IN  cell # Null =>
                CASE column.type = "text" ->
                        cell[1] # NullKey /\ Separator \notin Range(cell[1])
                  [] column.type = "float" -> cell[1] % 2 = 0 /\ Units(cell[1]) \in Shorts
                  [] OTHER -> TRUE

PlainKeys == \A k \in 1..Len(input.keys) : Plain(input.keys[k])

\* The streaming fast modes have no group for a null key.
HasNull(column) == Null \in Range(column.cells)
NullsKept == (Texts(input.keys) \/ Ints(input.keys)) => ~HasNull(input.keys[1])

\* The encoding orders the numbers that are not negative.
Ordered == \A k \in 1..Len(input.keys) :
              /\ ~HasNull(input.keys[k])
              /\ input.keys[k].type = "text"
                    \/ \A c \in Range(input.keys[k].cells) : c[1] >= 0

SameRows(a, b) == Range(a) = Range(b) /\ Len(a) = Len(b)

\* Whatever path runs, the groups and their aggregates are the same rows:
\* the eager paths always, the aligned scan when equal keys are neighbours,
\* the streaming build unless a single text or integer key has a null; and
\* the build fails exactly when the eager engine does.
PathsAgree ==
    (PlainKeys /\ status # "building") =>
        LET generic == Answer(input, Generic(input), kind)
        IN  /\ SameRows(Agg(input, kind), generic)
            /\ Contiguous(input) => SameRows(Answer(input, Aligned(input), kind), generic)
            /\ NullsKept => SameRows(result, generic)

\* The rows come in one order too, when no key is null or negative.
OrdersAgree ==
    (PlainKeys /\ Ordered /\ status = "done") =>
        /\ result = Answer(input, Generic(input), kind)
        /\ result = Agg(input, kind)

Total(vs) == LET upTo[i \in 0..Len(vs)] == IF i = 0 THEN 0 ELSE upTo[i - 1] + vs[i]
             IN  upTo[Len(vs)]
Occurs(vs, v) == Cardinality({i \in 1..Len(vs) : vs[i] = v})

\* What an aggregate is, for the values of a group.
Meets(agg, size, vs) ==
    LET n == Len(vs)
        some == n > 0 /\ agg # Null
        Has(P(_)) == IF n = 0 THEN agg = Null ELSE some /\ P(agg[1])
    IN  CASE kind = "star" -> agg = <<size>>
          [] kind = "count" -> agg = <<n>>
          [] kind = "sum" -> Has(LAMBDA x : x = Total(vs))
          [] kind = "mean" -> Has(LAMBDA x : n * x = Unit * Total(vs))
          [] kind = "min" -> Has(LAMBDA x : x \in Range(vs) /\ \A v \in Range(vs) : x <= v)
          [] kind = "max" -> Has(LAMBDA x : x \in Range(vs) /\ \A v \in Range(vs) : x >= v)
          [] kind = "first" -> Has(LAMBDA x : x = vs[1])
          [] kind = "last" -> Has(LAMBDA x : x = vs[n])
          [] kind = "nunique" -> agg = <<Cardinality(Range(vs))>>
          [] kind = "var" ->
                IF n < 2 THEN agg = Null
                ELSE agg # Null /\ n * (n - 1) * agg[1]
                        = Unit * Unit * Unit * (n * Total([i \in 1..n |-> vs[i] * vs[i]])
                                               - Total(vs) * Total(vs))
          [] kind = "median" ->
                Has(LAMBDA x :
                    /\ Cardinality({i \in 1..n : 2 * vs[i] < x}) * 2 <= n
                    /\ Cardinality({i \in 1..n : 2 * vs[i] > x}) * 2 <= n
                    /\ \/ n % 2 = 1 /\ x \in {2 * v : v \in Range(vs)}
                       \/ n % 2 = 0 /\ x \in {v + w : v, w \in Range(vs)})
          [] kind = "mode" ->
                Has(LAMBDA x :
                    \E i \in 1..n :
                        /\ x = vs[i]
                        /\ \A j \in 1..n :
                             \/ Occurs(vs, vs[j]) < Occurs(vs, x)
                             \/ Occurs(vs, vs[j]) = Occurs(vs, x) /\ i <= j)

\* Every row of the result holds, for its key, the aggregate as it is
\* defined over the group's values in row order, however the rows were cut
\* into batches.
AggregatesAsDefined ==
    (PlainKeys /\ Plain(input.value) /\ NullsKept /\ status = "done") =>
        \A row \in Range(result) :
            LET rows == InOrder({r \in 1..NumRows(input) :
                                   KeyCells(input.keys, r) = row.key})
                cells == [i \in 1..Len(rows) |-> input.value.cells[rows[i]]]
            IN  rows # <<>> /\ Meets(row.agg, Len(rows), Present(cells))

=============================================================================
