----------------------------- MODULE MCOptimizer -----------------------------
(* Small queries over two tables with nulls: every chain of two operations  *)
(* of Ops, and of three of CoreOps, over a source that takes columns and a  *)
(* predicate, and every single operation over the other sources.            *)
EXTENDS Optimizer

MCTables ==
  "t" :> NewFrame(<<"b", "a", "f", "l">>,
                  << <<1, 1, 2>>, <<2, 1, NULL>>, <<Yes, NULL, No>>,
                     << <<1, 2>>, NULL, <<>> >> >>)
  @@ "r" :> NewFrame(<<"a", "b">>, << <<1, 2, 2>>, <<1, NULL, 2>> >>)

MCAlphabet == <<"a", "b", "f", "l", "s", "x">>
DefaultOrder == {DefaultRules}
MCRuleOrders == {DefaultRules, Reverse(DefaultRules)}

AsSum(column, where) == [agg |-> "sum", column |-> column, name |-> "s", where |-> where]
AsLast(column) == [agg |-> "last", column |-> column, name |-> "s", where |-> <<>>]
By(column, descending) == [column |-> column, descending |-> descending]
Small == Binary("lt", Col("a"), Lit("num", 2))
Behind == Binary("lt", Shift(Col("a")), Lit("num", 2))
True == Lit("bool", Yes)
False == Lit("bool", No)

CoreConditions ==
  {Small, Binary("lt", Col("x"), Lit("num", 3)), Binary("and", Col("f"), False)}
Conditions == CoreConditions \cup
  {Binary("or", Col("f"), True), True, Inverted(Inverted(Col("f"))),
   Inverted(Binary("and", Binary("eq", Lit("num", 1), Lit("num", 2)), True)),
   Behind, Binary("and", Small, Behind)}

CoreSelects ==
  {<<Col("b"), Col("a"), Col("f")>>, <<Alias(Col("a"), "x"), Col("f")>>,
   <<Alias(Binary("add", Col("a"), Lit("num", 1)), "a"), Col("f")>>}
Selects == CoreSelects \cup
  {<<Binary("add", Lit("num", 1), Lit("num", 1)), Col("a")>>,
   <<Alias(Shift(Col("a")), "x"), Col("a")>>,
   <<Alias(Over(Sum(Col("a")), "b"), "x"), Col("a")>>,
   <<Binary("or", False, Col("f"))>>, <<Lit("num", 1)>>, <<Alias(Col("b"), "a"), Col("f")>>}

CoreOps(p) ==
  {Filter(p, c) : c \in CoreConditions} \cup {Project(p, es) : es \in CoreSelects} \cup
  {With(p, "x", Binary("add", Col("a"), Lit("num", 1))), Sort(p, <<By("a", FALSE)>>),
   With(p, "a", Col("b")), Agg(p, <<"b">>, <<AsSum("a", <<>>)>>), Drop(p, "b"),
   Renamed(p, "a", "x"), Limit(p, 2), LastOf(p, 2), Asserted(p),
   Joined(p, Scan("r", TRUE, "once"), "a", "a", "left")}

Rights == {Scan("r", TRUE, "once"), Empty(<<"a", "b">>)}
Kinds == {"inner", "left", "right", "full", "semi", "anti"}
Ops(p) ==
  CoreOps(p) \cup
  {Filter(p, c) : c \in Conditions} \cup {Project(p, es) : es \in Selects} \cup
  {With(p, "a", Binary("add", Col("a"), Lit("num", 1))), With(p, "x", Over(Shift(Col("a")), "b")),
   With(p, "x", Binary("or", Col("f"), True)), Sort(p, <<By("b", TRUE), By("a", FALSE)>>),
   Agg(p, <<"b">>, <<AsSum("a", <<Col("f")>>)>>),
   Agg(p, <<"f", "b">>, <<AsLast("a")>>), Limit(p, 0), LastOf(p, 0),
   Renamed(p, "a", "b")} \cup
  {Joined(p, q, "a", "a", how) : q \in Rights, how \in Kinds} \cup
  (IF \E n \in Nodes(p) : n.kind = "explode" THEN {} ELSE {Exploded(p, "l")})

Then(ops(_), ps) == UNION {ops(p) : p \in ps}
Base == {Scan("t", TRUE, "once")}
Others == {Scan("t", FALSE, "none"), Scan("t", TRUE, "layers")}
MCSources ==
  Then(Ops, Base \cup Others) \cup Then(Ops, Then(Ops, Base)) \cup
  Then(CoreOps, Then(CoreOps, Then(CoreOps, Base)))

\* A filter on a column that a Select has put in the place of another.
CreatedSources ==
  {Filter(Project(p, <<Alias(Binary("add", Col("a"), Lit("num", 1)), "a")>>), Small) : p \in Base}
=============================================================================
