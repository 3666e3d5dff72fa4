------------------------------ MODULE MCColumns ------------------------------
(* Columns of up to four rows, of every type, with nulls, repeats, negative *)
(* and extreme values, in one chunk and in two; every operation over them.  *)
EXTENDS Columns

MCMonthStarts == {-31, 0, 31}

\* The ways to cut cells into chunks.
Cuts(cells) == {<<cells>>} \cup
               (IF Len(cells) < 2 THEN {} ELSE {<<SubSeq(cells, 1, 1), SubSeq(cells, 2, Len(cells))>>})
Series(type, columns) == {[type |-> type, chunks |-> c] : c \in UNION {Cuts(x) : x \in columns}}
V(values) == [i \in DOMAIN values |-> <<values[i]>>]
N == Null

-----------------------------------------------------------------------------
(* Expressions over flat columns. *)

Ints == {V(<<31, -1, 17>>), V(<<-32, 2, 0>>), <<<<3>>, N, <<-1>>>>}
Floats == {V(<<6, -4, 0>>), <<<<15>>, N, <<NaN>>>>}
Flags == {V(<<1, 0, 1>>), <<<<0>>, N, <<1>>>>}
Texts == {V(<<1, 2, 1>>), <<<<2>>, N, <<1>>>>}

Flat == Series("int64", Ints) \cup Series("int32", {V(<<7, -8, 0>>), <<<<3>>, N, <<-1>>>>})
        \cup Series("float64", Floats) \cup Series("float32", {V(<<6, -4, 0>>)})
        \cup Series("uint32", {V(<<1, 15, 0>>)})
        \cup Series("bool", Flags) \cup Series("text", Texts)
Literals == {Lit("int64", 3), Lit("int64", -17), Lit("int32", 0), Lit("float64", 6),
             Lit("float64", 0), Lit("bool", 1), Lit("text", 1), Lit("uint32", 1)}
Operations == Arithmetics \cup Bitwises \cup Comparisons \cup Logicals

BinaryTasks ==
    {[family |-> "binary", op |-> o, left |-> Column(s), right |-> r] :
        o \in Operations, s \in Flat, r \in {Column(s) : s \in Flat} \cup Literals}

Times == Series("time_s", {V(<<1, -2, 0>>), <<N, <<4>>, <<1>>>>})
         \cup Series("time_ns", {V(<<1, 30, -3>>)}) \cup Series("date", {V(<<1, 0, -1>>)})

\* A series of no chunks, as a file without rows gives.
Bare(type) == [type |-> type, chunks |-> <<>>]
Every == Flat \cup Times \cup Series("uint64", {V(<<63, 1, 0>>)}) \cup {Bare("bool"), Bare("int64")}

Node(op, args, series) ==
    {[family |-> "unary", op |-> op, arg |-> a, s |-> s] : a \in args, s \in series}

-----------------------------------------------------------------------------
(* Lists. *)

L(values) == <<V(values)>>
ListCells == {<<L(<<1, 2>>), L(<<>>), N>>, <<<<<<<<3>>, N, <<3>>>>>>, L(<<2, 1, 2>>), <<<<N>>>>>>}
Lists == Series("list_int64", ListCells \cup {<<L(<<31, 31, -30>>), L(<<-32>>), L(<<17, 16>>)>>})
         \cup Series("list_int32", ListCells) \cup Series("list_uint32", ListCells)
         \cup Series("list_float64", ListCells \cup {<<L(<<15, 15>>), N, L(<<-6>>)>>})
         \cup Series("list_text", ListCells)

CastTasks == Node("cast", DOMAIN CastSources \cup {"text", "bool"}, Every \cup Lists)
ShiftTasks == Node("shift", -4..4, Every \cup Lists)
PlainTasks == UNION {Node(o, {0}, Every \cup Lists) : o \in
                  {"is_null", "is_not_null", "not", "unix_nano", "list_len", "sum", "mean", "min", "max"}}
GetTasks == Node("list_get", -4..3, Lists \cup Series("text", Texts))
SliceTasks == Node("list_slice", {<<a, b>> : a \in -4..3, b \in -4..4}, Lists)
ContainsTasks == Node("list_contains", {<<t, v>> : t \in {"int64", "uint64", "float64", "text"}, v \in {1, 3}},
                      Lists \cup Series("text", Texts))

-----------------------------------------------------------------------------
(* Several inputs, and reductions. *)

Pick(type, columns) == {Of(type, c) : c \in columns}
Options == Series("int64", Ints) \cup Series("text", Texts) \cup Pick("list_int64", ListCells)
Coalesces ==
    {<<s>> : s \in Options} \cup {<<s, t>> : s \in Options, t \in Options}
    \cup {<<s, t, u>> : s \in Series("text", Texts), t \in Series("text", Texts),
                        u \in Pick("text", Texts)}
Request(op, inputs, rows) ==
    {[family |-> "several", op |-> op, inputs |-> i, rows |-> rows] : i \in inputs}
SeveralTasks ==
    Request("coalesce", Coalesces, 3) \cup Request("coalesce", {<<s, s>> : s \in Options}, 2)
    \cup Request("if", {<<c, s, t>> : c \in Series("bool", Flags), s \in Options, t \in Options}, 3)
    \cup UNION {Request("diff", {<<s>> : s \in Flat}, n) : n \in 0..4}
    \cup Request("list_union", {<<s, t>> : s \in Lists, t \in Lists}, 3)

ReduceTasks ==
    {[family |-> "reduce", op |-> o, s |-> s] :
        o \in {"sum", "mean", "min", "max", "count"},
        s \in Every \cup Series("float64", {<<>>, <<N>>, V(<<NaN, 4>>), V(<<4, NaN, -4>>)})}

-----------------------------------------------------------------------------
(* Series and frames. *)

\* Digits and letters are themselves; one text is the key of the nulls, and
\* one has in it the separator of two keys.
MCSpelling == (-1 :> <<0>>) @@ [v \in 0..9 |-> <<48 + v>>] @@ [v \in 58..128 |-> <<v>>]
              @@ (129 :> <<128, 31, 1, 128>>)

\* Odd floats are no multiples of the unit of the keys.
Repeats == {<<<<2>>, N, <<1>>, <<2>>>>, <<<<1>>, N>>, <<>>}
FloatRepeats == {<<<<4>>, N, <<-2>>, <<4>>>>, <<<<3>>, <<2>>>>, <<<<NaN>>, <<200>>>>}
SetTypes == {"int64", "float64", "text", "time_s", "uint32", "float32"}
Sides == UNION {Series(t, Repeats) : t \in SetTypes} \cup Series("float64", FloatRepeats)
SeriesTasks ==
    {[family |-> "series", op |-> o, s |-> s, t |-> t] :
        o \in {"unique", "union", "intersect", "difference", "n_unique"}, s \in Sides, t \in Sides}
    \cup {[family |-> "series", op |-> "collect", s |-> s, t |-> s] : s \in Series("int64", Repeats)}

Frame(cols) == [names |-> <<"id", "k", "v">>, cols |-> cols]
Id(n) == Of("int64", V([i \in 1..n |-> i]))
Keyed(type, cells) ==
    {Frame(<<Id(Len(cells)), [type |-> type, chunks |-> c], Of("float64", [i \in DOMAIN cells |-> <<2 * (i % 2)>>])>>) :
        c \in Cuts(cells)}
FrameTypes == {"int64", "text", "time_s", "float32", "bool"}
KeyCells == {<<<<1>>, N, <<0>>, <<1>>>>, <<N, <<1>>, N>>, <<<<1>>, <<0>>>>, <<>>}
Keyeds(type) == UNION {Keyed(type, c) : c \in KeyCells}
Ask(op, fs, gs, cols, flags) ==
    {[family |-> "frame", op |-> o, f |-> f, g |-> g, cols |-> c, flag |-> x] :
        o \in op, f \in fs, g \in gs, c \in cols, x \in flags}

\* Two texts whose keys are alike, texts that are counted as nulls, and floats
\* that are near to each other.
Pairs == {Frame(<<Id(2), Of("text", V(p)), Of("text", V(q))>>) :
             p \in {<<128, 129>>, <<1, 128>>}, q \in {<<129, 128>>, <<2, 2>>}}
FloatKeyeds == UNION {Keyed("float64", c) : c \in FloatRepeats}

SetTasks ==
    Ask({"unique", "union", "intersect", "difference"}, Pairs, Pairs, {<<"k">>, <<"k", "v">>}, {FALSE})
    \cup Ask({"unique", "difference"}, FloatKeyeds, FloatKeyeds, {<<"k">>}, {FALSE}) \cup
    UNION {Ask({"unique", "union", "intersect", "difference"}, Keyeds(t), Keyeds(t),
               {<<"k">>, <<"k", "v">>, <<>>}, {FALSE}) : t \in FrameTypes}
    \cup Ask({"union", "unique"}, Keyeds("int64"), Keyeds("text"), {<<"x">>, <<>>}, {FALSE})
OneFrameTasks ==
    UNION {UNION {Ask({"counts"}, {f}, {f}, {<<"k">>}, {FALSE})
                  \cup Ask({"sort"}, {f}, {f}, {<<"k">>, <<"v", "k">>, <<>>}, {TRUE, FALSE}) :
                  f \in Keyeds(t)} : t \in FrameTypes}
    \cup Ask({"counts"}, FloatKeyeds \cup Keyed("text", <<<<-1>>, N, <<1>>>>), {[names |-> <<>>, cols |-> <<>>]}, {<<"k">>}, {FALSE})
FilterTasks ==
    Ask({"filter"}, Keyed("text", <<<<1>>, N, <<0>>>>),
        {[names |-> <<"m">>, cols |-> <<s>>] : s \in Series("bool", Flags) \cup Series("int64", Ints)},
        {<<"m">>}, {FALSE})

Geometries == {<<<<<<5>>>>, N, <<<<0, <<6, 7>>>>>>>>}
ExplodeTasks ==
    UNION {Ask({"explode"}, UNION {Keyed(t, c) : c \in ListCells}, {[names |-> <<>>, cols |-> <<>>]},
               {<<"k">>, <<"v">>}, {FALSE}) : t \in {"list_int64", "list_text"}}
    \cup Ask({"explode"}, UNION {Keyed("geometry", c) : c \in Geometries},
             {[names |-> <<>>, cols |-> <<>>]}, {<<"k">>}, {FALSE})

Wide(index, header, value) ==
    {[names |-> <<"i", "h", "v">>, cols |-> <<Of("int64", index), h, v>>] : h \in header, v \in value}
Headers == Series("text", {V(<<110, 98, 110, 98>>), <<N, <<110>>, <<110>>, N>>})
           \cup Series("int64", {V(<<10, 9, -9, 10>>)}) \cup Series("bool", {<<<<1>>, <<0>>, N, <<1>>>>})
           \cup Series("float32", {V(<<1, 2, 1, 2>>)})
Measures == Series("int64", {V(<<1, 2, 3, 4>>), <<N, <<2>>, N, N>>})
            \cup Series("float64", {<<<<4>>, <<8>>, N, <<4>>>>}) \cup Series("text", {V(<<1, 2, 1, 2>>)})
            \cup {Of("int64", <<N, N, N, N>>)}
PivotTasks ==
    Ask({"count", "n_unique", "sum", "first", "last"},
        UNION {Wide(i, Headers, Measures) : i \in {V(<<1, -1, 1, -1>>), <<<<1>>, N, <<1>>, <<1>>>>}},
        {[names |-> <<>>, cols |-> <<>>]}, {<<"i", "h", "v">>}, {FALSE})
    \cup Ask({"count"}, Wide(V(<<1, 1, 2, 2>>), Headers, Measures), {[names |-> <<>>, cols |-> <<>>]},
             {<<"i", "i", "v">>}, {FALSE})

-----------------------------------------------------------------------------
(* Windows. *)

Measured == Series("int64", {V(<<1, 3, 2, 5>>), <<<<2>>, N, N, <<-1>>>>}) \cup
            Series("float64", {<<<<15>>, <<4>>, N, <<-4>>>>}) \cup Series("text", {V(<<1, 2, 1, 2>>)})
Clocks == Series("time_s", {V(<<1, 2, 2, 5>>), <<<<1>>, N, <<3>>, <<4>>>>, V(<<2, 1, 3, 4>>),
                            <<N, <<-3>>, <<-2>>, <<0>>>>, V(<<-5, -2, -1, 4>>)})
          \cup Series("time_ns", {V(<<-25, -10, 7, 12>>)}) \cup Series("date", {V(<<-9, -1, 0, 5>>)})
          \cup Pick("int64", {V(<<1, 2, 3, 4>>)})
Kinds == {"count", "sum", "mean", "min", "max"}
WindowTasks ==
    {[family |-> "window", op |-> "rolling", t |-> Of("int64", <<>>), s |-> s, n |-> n, kind |-> k] :
        s \in Measured, n \in 0..5, k \in Kinds}
    \cup {[family |-> "window", op |-> "rolling_by", t |-> t, s |-> s, n |-> n, kind |-> k] :
        t \in Clocks, s \in Measured, n \in {0, 10, 15, 40}, k \in Kinds}
TimeTasks ==
    {[family |-> "window", op |-> o, t |-> t, n |-> n] :
        o \in {"truncate", "shift"}, t \in Clocks, n \in {7, 20}}
    \cup {[family |-> "window", op |-> "compare", t |-> t, n |-> n, kind |-> k] :
        t \in Clocks, n \in {10, -25}, k \in Comparisons}
    \cup {[family |-> "window", op |-> "diff", t |-> t, s |-> s] : t \in Clocks, s \in Clocks}

East == <<[from |-> -1000000, offset |-> 5]>>
Summer == <<[from |-> -1000000, offset |-> -10], [from |-> -70, offset |-> -5], [from |-> 70, offset |-> -10]>>
AtMidnight == <<[from |-> -1000000, offset |-> 0], [from |-> 160, offset |-> 3]>>
ZoneTasks ==
    {[family |-> "window", op |-> "calendar", t |-> t, kind |-> k, zone |-> z] :
        t \in Clocks \cup Pick("time_s", {V(<<-60, -11, 17, 130>>)}),
        k \in {"week", "month"}, z \in {UTC, East, Summer, AtMidnight}}
    \cup {[family |-> "window", op |-> "extract", t |-> t, kind |-> k, zone |-> z] :
        t \in Clocks, k \in {"weekday", "time"}, z \in {UTC, East, Summer}}
BucketTasks ==
    {[family |-> "bucket", t |-> t, s |-> s, n |-> n, kind |-> k] :
        t \in Clocks, s \in Measured, n \in {0, 7, 20}, k \in Kinds \cup {"rows", "last", "n_unique"}}

-----------------------------------------------------------------------------
(* Window expressions: four rows of a partition p, an order t and a value v. *)

Parted(p, t, v) == [names |-> <<"p", "t", "v">>, cols |-> <<p, t, v>>]
Sorted == {V(<<1, 1, 2, 2>>), <<<<1>>, <<2>>, <<2>>, N>>}
Mixed == {V(<<1, 2, 1, 1>>), <<N, <<1>>, N, <<1>>>>}
Orders == Series("int64", {V(<<1, 2, 1, 2>>)}) \cup Pick("int64", {<<<<3>>, N, <<1>>, <<2>>>>})
OverValues == Series("int64", {<<<<2>>, N, <<5>>, <<5>>>>}) \cup Pick("text", {V(<<1, 2, 2, 1>>)})
          \cup Pick("float64", {<<<<6>>, <<4>>, N, <<4>>>>}) \cup Pick("int32", {V(<<1, 3, 3, 1>>)})
          \cup Pick("float32", {V(<<4, 8, 4, 8>>)})
Exprs == {[op |-> o, col |-> "v", n |-> 0] : o \in ScalarAggs}
         \cup {[op |-> "shift", col |-> "v", n |-> n] : n \in {-1, 1, 2}}
         \cup {[op |-> "gap", col |-> "v", n |-> 1], [op |-> "lit", col |-> "v", n |-> 0]}
By(name, descending) == [name |-> name, descending |-> descending]
Asked == {<<>>, <<By("t", FALSE)>>, <<By("t", TRUE)>>}
Over(fs, keys, claims) ==
    {[family |-> "over", f |-> f, expr |-> e, keys |-> k, order |-> o, claim |-> c] :
        f \in fs, e \in Exprs, k \in keys, o \in Asked, c \in claims}

\* A claim of a writer that sorted by the keys, and then by the order.
Enforced(by) == [columns |-> <<"p">>, sortedBy |-> by, enforced |-> TRUE]
Claims == {NoClaim, [Enforced(<<By("p", FALSE)>>) EXCEPT !.enforced = FALSE], Enforced(<<By("p", FALSE)>>)}
ByOrder == {Of("int64", V(<<1, 2, 1, 2>>)), Of("int64", <<<<1>>, <<1>>, <<3>>, N>>)}
OverTasks ==
    Over({Parted(Of(pt, p), t, v) : pt \in {"int64", "text", "float32"}, p \in Mixed, t \in Orders, v \in OverValues},
         {<<>>, <<"p">>}, {NoClaim})
    \cup Over({Parted(Of("int64", p), t, v) : p \in Sorted, t \in Orders, v \in OverValues}, {<<"p">>, <<"p", "t">>, <<"x">>},
              Claims)
    \cup Over({Parted(Of("int64", V(<<1, 1, 2, 2>>)), t, v) : t \in ByOrder, v \in OverValues}, {<<"p">>},
              {Enforced(<<By("p", FALSE), By("t", FALSE)>>)})

MCTasks == <<BinaryTasks, CastTasks, ShiftTasks, PlainTasks, GetTasks, SliceTasks, ContainsTasks,
             SeveralTasks, ReduceTasks, SeriesTasks, SetTasks, OneFrameTasks, FilterTasks,
             ExplodeTasks, PivotTasks, WindowTasks, TimeTasks, ZoneTasks, BucketTasks, OverTasks>>
=============================================================================
