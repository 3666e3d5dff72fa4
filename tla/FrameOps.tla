------------------------------- MODULE FrameOps -------------------------------
(***************************************************************************)
(* Operations on whole frames that the eager engine builds from a walk     *)
(* over row keys and a gather of rows: concatenation, set operations,      *)
(* distinct rows, counts, pivot, collected sets and explode.               *)
(*                                                                         *)
(* A frame is a sequence of names and one of series, of equal lengths.  A  *)
(* text is a number, its place in the order of texts, and has bytes; in a  *)
(* key the eight bytes of a number are one.  A geometry is <<part>>, or a  *)
(* collection <<0, parts>>.                                                *)
(***************************************************************************)
EXTENDS Expressions, Bytes

CONSTANTS NullText,   \* the byte that spells "null"
          Spelling,   \* the bytes of each text
          KeyStep,    \* the quarters in 1e-9, the unit of floats in a key
          Saturates   \* whether a float out of range becomes the nearest integer

ASSUME SpellingAssumption ==
    \A v, w \in DOMAIN Spelling : v < w => BytesLess(Spelling[v], Spelling[w])
ASSUME KeyAssumption == KeyStep \in Nat \ {0} /\ Saturates \in BOOLEAN

FailedFrame == [names |-> <<"failed">>, cols |-> <<Failed>>]
FailedIn(cols) == Failed \in Range(cols)

Rows(f) == IF f.cols = <<>> THEN 0 ELSE Length(f.cols[1])
ColumnOf(f, name) == f.cols[CHOOSE i \in DOMAIN f.names : f.names[i] = name]
HasColumns(f, names) == Range(names) \subseteq Range(f.names)

\* makeKeyBuilders, isHashable and keyOfAppend know these types.
Hashable == {"text", "int64", "int32", "bool", "float64", "uint64", "uint32",
             "time_s", "time_ns"}

-----------------------------------------------------------------------------
(* Gathering rows. *)

Gathers(s) ==
    \/ s.type \in {"int64", "int32", "float64", "float32", "bool", "text", "geometry"}
    \/ IsList(s.type)
    \/ Len(s.chunks) = 1 /\ s.type \in {"uint64", "uint32", "time_s", "time_ns"}

TakeArray(s, indexes) ==
    IF ~Gathers(s) THEN Failed
    ELSE LET cells == Cells(s)
         IN  Of(s.type, [i \in DOMAIN indexes |-> cells[indexes[i]]])

Take(f, indexes) ==
    LET cols == [c \in DOMAIN f.cols |-> TakeArray(f.cols[c], indexes)]
    IN  IF FailedIn(cols) THEN FailedFrame ELSE [f EXCEPT !.cols = cols]

\* Frame.Filter: a null in the mask keeps nothing.
Filter(f, mask) ==
    IF mask.type # "bool" \/ Length(mask) # Rows(f) THEN FailedFrame
    ELSE Take(f, SelectSeq([i \in 1..Rows(f) |-> i], LAMBDA i : Cells(mask)[i] = <<1>>))

-----------------------------------------------------------------------------
(* Concatenation keeps the inputs' chunks. *)

SchemasCompatible(f, g) ==
    f.names = g.names /\ \A c \in DOMAIN f.cols : f.cols[c].type = g.cols[c].type

Concat(f, g) ==
    IF ~SchemasCompatible(f, g) THEN FailedFrame
    ELSE [f EXCEPT !.cols = [c \in DOMAIN f.cols |->
                                [f.cols[c] EXCEPT !.chunks = @ \o g.cols[c].chunks]]]

ConcatSeries(s, t) == IF s.type # t.type THEN Failed
                      ELSE [s EXCEPT !.chunks = @ \o t.chunks]

-----------------------------------------------------------------------------
(* Row keys, distinct rows and membership. *)

Tag == [text |-> 1, int64 |-> 2, int32 |-> 3, bool |-> 4, float64 |-> 5,
        uint64 |-> 6, uint32 |-> 7, time_s |-> 8, time_ns |-> 8]
Separator == 31

\* int64(v * 1e9) is cut towards zero; out of range it is what the machine
\* makes of it: the smallest integer on amd64, the nearest one on arm64.
InUnits(q) == Quotient(q, KeyStep)
OutOfRange(q) == IF ~Saturates THEN -(2 ^ (Word - 1))
                 ELSE IF q = NaN THEN 0
                 ELSE IF q > 0 THEN 2 ^ (Word - 1) - 1 ELSE -(2 ^ (Word - 1))
FloatKey(q) == IF q # NaN /\ FitsIn(InUnits(q), Word) THEN InUnits(q) ELSE OutOfRange(q)

CellKey(type, cell) ==
    IF cell = Null THEN <<0>>
    ELSE <<Tag[type]>> \o (CASE type = "text" -> Spelling[cell[1]]
                             [] type = "float64" -> <<FloatKey(cell[1]) % 2 ^ Word>>
                             [] OTHER -> <<cell[1] % 2 ^ Word>>)

\* composeCompositeKeyInto.
RowKey(cols, r) ==
    LET Part(k) == (IF k = 1 THEN <<>> ELSE <<Separator>>) \o CellKey(cols[k].type, Cells(cols[k])[r])
    IN  FlattenSeq([k \in DOMAIN cols |-> Part(k)])

KeysOf(f, names) ==
    LET cols == [k \in DOMAIN names |-> ColumnOf(f, names[k])]
    IN  [r \in 1..Rows(f) |-> RowKey(cols, r)]

\* A series' own; nulls have none that counts.
CellKeys(s) == [i \in DOMAIN Cells(s) |-> CellKey(s.type, Cells(s)[i])]
ValueKeys(s) == Range(CellKeys(s)) \ {CellKey(s.type, Null)}

\* The rows whose key is kept and came for the first time.
FirstRows(keys, kept) ==
    SelectSeq([r \in DOMAIN keys |-> r],
              LAMBDA r : keys[r] \in kept /\ \A q \in 1..(r - 1) : keys[q] # keys[r])

KeyNames(f, names) == IF names = <<>> THEN f.names ELSE names

HashableKeys(f, names) ==
    HasColumns(f, names) /\ \A n \in Range(names) : ColumnOf(f, n).type \in Hashable

Unique(f, cols) ==
    LET names == KeyNames(f, cols)
    IN  IF ~HashableKeys(f, names) THEN FailedFrame
        ELSE LET keys == KeysOf(f, names) IN Take(f, FirstRows(keys, Range(keys)))

\* Fault: the rows already kept are not remembered.
SetOpKeepsRepeats(f, other, cols, keepInOther) ==
    LET names == KeyNames(f, cols)
        keys == KeysOf(f, names)
        inOther == Range(KeysOf(other, names))
    IN  IF ~SchemasCompatible(f, other) \/ ~HashableKeys(f, names) THEN FailedFrame
        ELSE Take(f, SelectSeq([r \in DOMAIN keys |-> r],
                               LAMBDA r : (keys[r] \in inOther) = keepInOther))

\* Intersect keeps the rows found in the other frame, Difference the rest.
SetOp(f, other, cols, keepInOther) ==
    IF ~SchemasCompatible(f, other) \/ ~HashableKeys(f, KeyNames(f, cols)) THEN FailedFrame
    ELSE LET keys == KeysOf(f, KeyNames(f, cols))
             inOther == Range(KeysOf(other, KeyNames(f, cols)))
         IN  Take(f, FirstRows(keys, IF keepInOther THEN inOther ELSE Range(keys) \ inOther))

Union(f, other, cols) ==
    LET stacked == Concat(f, other)
    IN  IF stacked = FailedFrame THEN FailedFrame ELSE Unique(stacked, cols)

UniqueSeries(s) ==
    IF s.type \notin Hashable THEN Failed
    ELSE TakeArray(s, FirstRows(CellKeys(s), ValueKeys(s)))

UnionSeries(s, t) == IF s.type # t.type THEN Failed ELSE UniqueSeries(ConcatSeries(s, t))

SeriesSetOp(s, other, keepInOther) ==
    IF s.type # other.type \/ s.type \notin Hashable THEN Failed
    ELSE TakeArray(s, FirstRows(CellKeys(s),
                          IF keepInOther THEN ValueKeys(other) ELSE ValueKeys(s) \ ValueKeys(other)))

NUnique(s) == IF s.type \notin Hashable THEN Failed
              ELSE Of("int64", <<<<Cardinality(ValueKeys(s))>>>>)

-----------------------------------------------------------------------------
(* Sorting and grouping. *)

\* nullAwareCompare: nulls last whatever the direction; NaN after numbers.
CellBefore(a, b, descending) ==
    IF a = Null \/ b = Null THEN a # Null /\ b = Null
    ELSE IF descending THEN b[1] < a[1] ELSE a[1] < b[1]

Sortable(s) == Len(s.chunks) = 1 /\ s.type \in Hashable \cup {"float32"}

\* keys: sequence of [name, descending]; stable.
SortBy(f, keys) ==
    IF keys = <<>> \/ \E k \in Range(keys) : ~HasColumns(f, <<k.name>>)
                                             \/ ~Sortable(ColumnOf(f, k.name)) THEN FailedFrame
    ELSE LET cols == [k \in DOMAIN keys |-> Cells(ColumnOf(f, keys[k].name))]
             Differ(k, p, q) == cols[k][p] # cols[k][q]
             Before(p, q) ==
                 \/ \E k \in DOMAIN keys :
                       /\ CellBefore(cols[k][p], cols[k][q], keys[k].descending)
                       /\ \A j \in 1..(k - 1) : ~Differ(j, p, q)
                 \/ p < q /\ \A k \in DOMAIN keys : ~Differ(k, p, q)
         IN  Take(f, SortSeq([r \in 1..Rows(f) |-> r], Before))

\* One group's cells reduced: the general path of GroupBy.Agg.
AggregateCells(kind, type, cells) ==
    LET present == Present(cells)
    IN  CASE kind = "rows" -> <<Len(cells)>>
          [] kind = "count" -> <<Len(present)>>
          [] kind = "n_unique" -> <<Cardinality({CellKey(type, c) : c \in Range(present)})>>
          [] present = <<>> -> Null
          [] kind = "first" -> Head(present)
          [] kind = "last" -> Last(present)
          [] kind = "sum" -> <<FoldLeft(LAMBDA acc, c : ApplyF64("add", acc, ToFloat(type, c[1])),
                                        0, present)>>
          [] kind = "min" -> <<Min({ToFloat(type, v) : v \in Values(present)})>>
          [] kind = "max" -> <<Max({ToFloat(type, v) : v \in Values(present)})>>

Counting == {"rows", "count", "n_unique"}
Selecting == {"first", "last"}
AggType(kind, type) == IF kind \in Counting THEN "int64"
                       ELSE IF kind \in Selecting THEN type ELSE "float64"
AggFails(kind, s) == \/ kind \notin Counting \cup Selecting /\ ~IsNumeric(s)
                     \/ kind \in Selecting \cup {"n_unique"} /\ s.type \notin Buildable

\* GroupBy(keys).Agg of one column: the cells of each group's first row and
\* its value, in the order of the keys' bytes.
GroupBy(f, names, value, kind) ==
    LET keys == KeysOf(f, names)
        order == SetToSortSeq(Range(keys), BytesLess)
        cells == Cells(ColumnOf(f, value))
        RowsOf(key) == SelectSeq([r \in DOMAIN keys |-> r], LAMBDA r : keys[r] = key)
        Key(rows) == [k \in DOMAIN names |-> Cells(ColumnOf(f, names[k]))[rows[1]]]
        Reduced(rows) == AggregateCells(kind, ColumnOf(f, value).type,
                            [i \in DOMAIN rows |-> cells[rows[i]]])
    IN  [g \in DOMAIN order |-> [key |-> Key(RowsOf(order[g])), agg |-> Reduced(RowsOf(order[g]))]]

\* One text, integer or float column in one chunk is counted by value: a text
\* spelled like the key of the nulls is a null, and a NaN, which equals
\* nothing, is a group of its own that no row is found for.
NullKey == <<0>>   \* "\x00__gobi_null__"
FastCounts(s) ==
    LET Seen(c) == IF s.type = "text" /\ c # Null /\ Spelling[c[1]] = NullKey THEN Null ELSE c
        seen == [r \in DOMAIN Cells(s) |-> Seen(Cells(s)[r])]
        firsts == SelectSeq([r \in DOMAIN seen |-> r],
                            LAMBDA r : seen[r] = <<NaN>> \/ \A q \in 1..(r - 1) : seen[q] # seen[r])
        Found(c) == IF c = <<NaN>> THEN 0 ELSE Cardinality({r \in DOMAIN seen : seen[r] = c})
    IN  [g \in DOMAIN firsts |-> [key |-> <<seen[firsts[g]]>>, agg |-> <<Found(seen[firsts[g]])>>]]

\* Frame.ValueCounts: by descending count, then by value, null last.
ValueCounts(f, col) ==
    IF ~HashableKeys(f, <<col>>) THEN FailedFrame
    ELSE LET s == ColumnOf(f, col)
             fast == Len(s.chunks) = 1 /\ s.type \in {"text", "int64", "float64"}
             groups == IF fast THEN FastCounts(s) ELSE GroupBy(f, <<col>>, col, "rows")
             counted == [names |-> <<col, "count">>,
                         cols |-> <<Of(s.type, [g \in DOMAIN groups |-> groups[g].key[1]]),
                                    Of("int64", [g \in DOMAIN groups |-> groups[g].agg])>>]
         IN  SortBy(counted, <<[name |-> "count", descending |-> TRUE],
                               [name |-> col, descending |-> FALSE]>>)

-----------------------------------------------------------------------------
(* Pivot: one row per index, one column per header. *)

\* The digits of a number below 100.
Digits(n) == IF n < 10 THEN <<48 + n>> ELSE <<48 + (n \div 10), 48 + (n % 10)>>

\* pivotColumnHeader: a text is itself, an integer its decimal digits.
Header(type, cell) ==
    IF cell = Null THEN <<NullText>>
    ELSE CASE type = "text" -> Spelling[cell[1]]
           [] type = "bool" -> IF cell[1] = 1 THEN <<116>> ELSE <<102>>
           [] OTHER -> IF cell[1] < 0 THEN <<45>> \o Digits(-cell[1]) ELSE Digits(cell[1])

\* The rows of the long form that share a cell: the last is kept.
LastOf(rows) == Last(rows)

Pivot(f, index, columns, values, kind) ==
    LET type == AggType(kind, ColumnOf(f, values).type)
        outType == IF kind \in Counting THEN "int64" ELSE "float64"
        long == GroupBy(f, <<index, columns>>, values, kind)
        HeaderOf(row) == Header(ColumnOf(f, columns).type, row.key[2])
        itype == ColumnOf(f, index).type
        IndexKey(row) == CellKey(itype, row.key[1])
        indexes == SetToSortSeq({IndexKey(row) : row \in Range(long)}, BytesLess)
        FirstIndex(i) == SelectSeq(long, LAMBDA row : IndexKey(row) = indexes[i])[1].key[1]
        headers == SetToSortSeq({HeaderOf(row) : row \in Range(long)}, BytesLess)
        RowsAt(i, h) == SelectSeq(long, LAMBDA row : IndexKey(row) = indexes[i]
                                                     /\ HeaderOf(row) = headers[h])
        Cell(i, h) == IF RowsAt(i, h) = <<>> THEN Null ELSE LastOf(RowsAt(i, h)).agg
    IN  IF ~HashableKeys(f, <<index, columns>>) \/ ~HasColumns(f, <<values>>)
           \/ Cardinality({index, columns, values}) # 3
           \/ AggFails(kind, ColumnOf(f, values)) THEN FailedFrame
        ELSE IF type # outType /\ \E row \in Range(long) : row.agg # Null THEN FailedFrame
        ELSE [names |-> <<index>> \o headers,
              cols |-> <<Of(itype, [i \in DOMAIN indexes |-> FirstIndex(i)])>>
                       \o [h \in DOMAIN headers |->
                              Of(outType, [i \in DOMAIN indexes |-> Cell(i, h)])]]

-----------------------------------------------------------------------------
(* The set aggregator: one shard sees its rows, the shards are merged. *)

Update(seen, cells) == seen \cup Values(Present(cells))
Merge(seen, other) == seen \cup other
Snapshot(seen) == LET sorted == SetToSortSeq(seen, LAMBDA a, b : a < b)
                  IN  <<[i \in DOMAIN sorted |-> <<sorted[i]>>]>>

CollectSet(shards) ==
    LET seen == [w \in DOMAIN shards |-> Update({}, shards[w])]
    IN  Snapshot(FoldLeft(Merge, {}, seen))

-----------------------------------------------------------------------------
(* Explode: a row becomes one row for each part of a cell. *)

ListParts(cell) == IF cell = Null \/ cell = <<<<>>>> THEN <<Null>> ELSE cell[1]

GeometryParts(cell) ==
    IF cell = Null THEN <<Null>>
    ELSE IF Len(cell[1]) = 2 THEN [i \in DOMAIN cell[1][2] |-> <<<<cell[1][2][i]>>>>]
    ELSE <<cell>>

\* parts[r] are those of the r-th row.
Exploded(f, col, type, parts) ==
    LET parents == FlattenSeq([r \in DOMAIN parts |-> [i \in DOMAIN parts[r] |-> r]])
        cols == [c \in DOMAIN f.cols |-> IF f.names[c] = col THEN Of(type, FlattenSeq(parts))
                                         ELSE TakeArray(f.cols[c], parents)]
    IN  IF FailedIn(cols) THEN FailedFrame ELSE [f EXCEPT !.cols = cols]

Explode(f, col) ==
    LET type == ColumnOf(f, col).type
        cells == Cells(ColumnOf(f, col))
    IN  IF ~HasColumns(f, <<col>>) THEN FailedFrame
        ELSE IF type = "geometry"
             THEN Exploded(f, col, type, [r \in DOMAIN cells |-> GeometryParts(cells[r])])
        ELSE IF IsList(type)
             THEN Exploded(f, col, ElemType[type], [r \in DOMAIN cells |-> ListParts(cells[r])])
        ELSE FailedFrame

=============================================================================
