----------------------------- MODULE MCPipeline -----------------------------
(* Every operation over a table read in every way and cut into batches in   *)
(* several, with sources that fail and contexts that are cancelled; and     *)
(* every chain of two over batches of one row.                              *)
EXTENDS Pipeline

MCTables ==
  "t" :> NewFrame(<<"a", "b", "l">>,
                  << <<1, 2, 2, 3>>, <<2, NULL, 1, 1>>, << <<1, 2>>, NULL, <<>>, <<3>> >> >>)
  @@ "r" :> NewFrame(<<"a", "b">>, << <<2, 2, 3>>, <<1, NULL, 2>> >>)

Layout(via, chunks, fails, sorted) ==
  [via |-> via, chunks |-> chunks, fails |-> fails, sorted |-> sorted]
Ones == <<1, 1, 1, 1>>
LeftLayouts ==
  {Layout("frame", c, Never, FALSE) : c \in {<< <<4>>, <<1, 3>>, <<4>> >>, << <<2, 2>>, Ones, <<4>> >>}}
  \cup {Layout("stream", << <<1, 3>> >>, n, FALSE) : n \in {1, Never}}
  \cup {Layout("read", <<>>, n, FALSE) : n \in {1, Never}}
Sorted == Layout("stream", << <<2, 2>> >>, Never, TRUE)
Cut == Layout("stream", <<Ones>>, Never, FALSE)
Right(fails, sorted) == Layout("stream", << <<2, 1>> >>, fails, sorted)
By(column) == [column |-> column, descending |-> FALSE]
As(agg, column, where) == [agg |-> agg, column |-> column, name |-> "s", where |-> where]
Small == Binary("lt", Col("a"), Lit("num", 2))
Large == Binary("lt", Lit("num", 2), Col("a"))
Next1 == Binary("add", Col("a"), Lit("num", 1))

Streamed(p) ==
  {Filter(p, Small), Filter(p, Large), Project(p, <<Col("b"), Alias(Next1, "a")>>),
   With(p, "x", Next1), Drop(p, "b"), Drop(p, "x"), Renamed(p, "b", "x"), Limit(p, 2), Limit(p, 0)}
Blocked(p) ==
  {Sort(p, <<By("b")>>), LastOf(p, 2), With(p, "x", Binary("add", Over(Shift(Col("a")), "a"), Col("a"))),
   Agg(p, <<"a">>, <<As("sum", "b", <<>>)>>), Agg(p, <<"a", "b">>, <<As("last", "a", <<>>)>>),
   Agg(p, <<"a">>, <<As("sum", "b", <<Small>>)>>)}
Joins(p) ==
  {Joined(p, q, "a", "a", how) : q \in {Scan("r", TRUE, "none"), Filter(Scan("r", TRUE, "none"), Small)},
                                 how \in {"inner", "left", "right", "full", "semi", "anti"}}
Ops(p) ==
  Streamed(p) \cup Blocked(p) \cup Joins(p) \cup
  {Filter(p, Over(Binary("lt", Shift(Col("a")), Col("a")), "a")), Asserted(p),
   Project(p, <<Over(Sum(Col("a")), "b"), Col("a")>>)} \cup
  (IF p.kind = "scan" THEN {Exploded(p, "l")} ELSE {})

Then(ops(_), ps) == UNION {ops(p) : p \in ps}
Base == {Scan("t", TRUE, "none")}
Joinless(p) == Streamed(p) \cup {Sort(p, <<By("b")>>), LastOf(p, 2)}

Run(queries, lefts, rights, budgets) ==
  [query : queries, layout : [t : lefts, r : rights], checks : budgets]
MCRuns ==
  Run(Base \cup {Empty(<<"a">>)} \cup Then(Ops, Base), LeftLayouts \cup {Cut},
      {Right(Never, FALSE)}, {0, 3, Never})
  \cup Run(Then(Joins, Base), {Cut, Sorted}, {Right(n, s) : n \in {1, Never}, s \in BOOLEAN}, {3, Never})
  \cup Run(Then(Joinless, Then(Ops, Base)) \cup Then(Joins, Then(Streamed, Base)), {Cut},
           {Right(Never, FALSE)}, {6, Never})

ShiftRuns ==
  Run({With(p, "x", Shift(Col("a"))) : p \in Base}, {Cut}, {Cut}, {Never})
=============================================================================
