------------------------------ MODULE Optimizer ------------------------------
(***************************************************************************)
(* The plan optimizer: eight rules, each a rewrite of the whole plan,      *)
(* applied in order, pass after pass, until a pass changes nothing or      *)
(* MaxOptimizeIters passes have been made.                                 *)
(*                                                                         *)
(* A rule that reports a change is a rule whose plan differs: each rule    *)
(* builds new nodes exactly where it rewrites.                             *)
(***************************************************************************)
EXTENDS Plans

CONSTANTS
  Alphabet,          \* every column name, in alphabetical order
  Sources,           \* the plans to optimize
  RuleOrders,        \* the orders in which the rules may be applied
  MaxOptimizeIters   \* the code gives up after 32 passes

ASSUME OptimizerAssumption == MaxOptimizeIters \in Nat \ {0}

VARIABLES
  source,       \* the plan handed to Optimize
  plan,         \* what it has become
  rules,        \* the rules, in the order they are applied
  at,           \* the rule to apply next
  anyChanged,   \* a rule changed the plan in this pass
  passes,       \* passes begun
  over          \* Optimize has returned

vars == <<source, plan, rules, at, anyChanged, passes, over>>

DefaultRules == <<"FoldConstants", "RemoveTrivialFilter", "CombineFilters",
                  "PushFilterBelowProject", "PushFilterBelowSort",
                  "ProjectionPushdown", "PushPredicateToScan", "CascadeEmpty">>

-----------------------------------------------------------------------------
(* FoldConstants.                                                          *)

FoldLiterals(op, l, r) ==
  IF op = "add" /\ IsLit(l, "num") /\ IsLit(r, "num") THEN Lit("num", l.value + r.value)
  ELSE IF \/ op \in {"eq", "lt"} /\ l.type = "num" /\ r.type = "num"
          \/ op = "eq" /\ l.type = "bool" /\ r.type = "bool"
  THEN Lit("bool", Operate(op, l.value, r.value))
  ELSE Binary(op, l, r)

\* TRUE is AND's neutral element and FALSE its absorbing one; for OR they
\* change places.
FoldBinOp(op, l, r) ==
  LET neutral == CASE op = "and" -> Yes [] op = "or" -> No [] OTHER -> NULL
  IN IF op \in {"and", "or"} /\ IsLit(l, "bool")
     THEN IF l.value = neutral THEN r ELSE l
     ELSE IF op \in {"and", "or"} /\ IsLit(r, "bool")
     THEN IF r.value = neutral THEN l ELSE r
     ELSE IF l.op = "lit" /\ r.op = "lit" THEN FoldLiterals(op, l, r)
     ELSE Binary(op, l, r)

RECURSIVE FoldExpr(_)
FoldExpr(e) ==
  IF e.op \in BinaryOps THEN FoldBinOp(e.op, FoldExpr(e.left), FoldExpr(e.right))
  ELSE IF e.op = "not"
  THEN LET inner == FoldExpr(e.inner)
       IN IF inner.op = "not" THEN inner.inner
          ELSE IF IsLit(inner, "bool") THEN Lit("bool", Yes - inner.value)
          ELSE Inverted(inner)
  ELSE IF e.op = "alias" THEN Alias(FoldExpr(e.inner), e.name)
  ELSE e

\* mapExprs: every expression a node holds, but not the filters of its
\* aggregations.
RECURSIVE FoldConstants(_)
FoldConstants(p) ==
  IF p.kind \in Leaves THEN p
  ELSE LET q == [p EXCEPT !.input = FoldConstants(@)]
       IN CASE p.kind = "filter" -> [q EXCEPT !.cond = FoldExpr(@)]
            [] p.kind = "project" -> [q EXCEPT !.exprs = [i \in DOMAIN @ |-> FoldExpr(@[i])]]
            [] p.kind = "with" -> [q EXCEPT !.expr = FoldExpr(@)]
            [] p.kind = "join" -> [q EXCEPT !.right = FoldConstants(@)]
            [] OTHER -> q

-----------------------------------------------------------------------------
(* What a rule does to a node whose children it has rewritten.             *)

RemoveTrivialFilter(n) ==
  IF n.kind = "filter" /\ IsLit(n.cond, "bool")
  THEN IF n.cond.value = Yes THEN n.input ELSE Empty(Schema(n.input))
  ELSE n

CombineFilters(n) ==
  IF n.kind = "filter" /\ n.input.kind = "filter"
  THEN Filter(n.input.input, Binary("and", n.cond, n.input.cond))
  ELSE n

PushAnyFilterBelowProject(n) ==
  IF n.kind = "filter" /\ n.input.kind = "project"
  THEN Project(Filter(n.input.input, n.cond), n.input.exprs)
  ELSE n

PushFilterBelowProject(n) ==
  IF /\ n.kind = "filter" /\ n.input.kind = "project"
     /\ ReferencedColumns(n.cond) \subseteq ToSet(Schema(n.input.input))
  THEN Project(Filter(n.input.input, n.cond), n.input.exprs)
  ELSE n

PushFilterBesideKeys(n) ==
  IF /\ n.kind = "filter" /\ n.input.kind = "sort"
     /\ ReferencedColumns(n.cond) \cap {k.column : k \in ToSet(n.input.keys)} = {}
  THEN Sort(Filter(n.input.input, n.cond), n.input.keys)
  ELSE n

PushFilterBelowSort(n) ==
  IF n.kind = "filter" /\ n.input.kind = "sort"
  THEN Sort(Filter(n.input.input, n.cond), n.input.keys)
  ELSE n

\* A SQL source refuses a predicate of which it can take nothing, and any
\* second one.
ApplyPredicate(scan, pred) ==
  IF \/ scan.sink = "layers"
     \/ scan.sink = "once" /\ scan.preds = <<>> /\ Translated(pred) # {}
  THEN [scan EXCEPT !.preds = Append(@, pred)]
  ELSE scan

PushPredicateToScan(n) ==
  IF n.kind = "filter" /\ n.input.kind = "scan"
  THEN Filter(ApplyPredicate(n.input, n.cond), n.cond)
  ELSE n

CascadeEmpty(n) ==
  LET isEmpty(p) == p.kind = "empty"
  IN IF \/ /\ n.kind \in {"filter", "sort", "limit", "tail", "drop", "project", "with",
                          "agg", "explode", "rename"}
           /\ isEmpty(n.input)
        \/ n.kind = "join" /\ n.how \in {"inner", "semi", "anti"} /\ isEmpty(n.input)
        \/ n.kind = "join" /\ n.how \in {"inner", "semi"} /\ isEmpty(n.right)
     THEN Empty(Schema(n))
     ELSE n

Visit(rule, n) ==
  CASE rule = "RemoveTrivialFilter" -> RemoveTrivialFilter(n)
    [] rule = "CombineFilters" -> CombineFilters(n)
    [] rule = "PushFilterBelowProject" -> PushFilterBelowProject(n)
    [] rule = "PushFilterBelowSort" -> PushFilterBelowSort(n)
    [] rule = "PushPredicateToScan" -> PushPredicateToScan(n)
    [] rule = "CascadeEmpty" -> CascadeEmpty(n)

\* Bottom up: the children first, then the node they are put back into.
RECURSIVE WalkRewrite(_, _)
WalkRewrite(rule, p) ==
  IF p.kind \in Leaves THEN Visit(rule, p)
  ELSE LET q == [p EXCEPT !.input = WalkRewrite(rule, @)]
       IN Visit(rule, IF p.kind = "join" THEN [q EXCEPT !.right = WalkRewrite(rule, @)] ELSE q)

-----------------------------------------------------------------------------
(* ProjectionPushdown: top down, what a node needs of its input when need  *)
(* is needed of it.                                                        *)

References(exprs) == UNION {ReferencedColumns(exprs[i]) : i \in DOMAIN exprs}

ChildNeeds(p, need) ==
  CASE p.kind = "filter" -> need \cup ReferencedColumns(p.cond)
    [] p.kind = "project" -> References(p.exprs)
    [] p.kind = "with" -> (need \ {p.name}) \cup ReferencedColumns(p.expr)
    [] p.kind = "sort" -> need \cup {k.column : k \in ToSet(p.keys)}
    [] p.kind = "agg" -> ToSet(p.keys) \cup {a.column : a \in ToSet(p.aggs)}
    [] p.kind \in {"drop", "explode"} -> need \cup {p.name}
    [] p.kind = "rename" -> IF p.new \in need THEN (need \ {p.new}) \cup {p.old} ELSE need
    [] p.kind \in {"limit", "tail"} -> need

\* The scan says it has not changed, and the node above keeps the old one.
ProjectUnreported(scan, need) == scan

\* A scan that has its columns already, or whose source cannot be given any,
\* is left alone.
ProjectColumns(scan, need) ==
  LET cols == SelectSeq(Alphabet, LAMBDA n : n \in need /\ Contains(Schema(scan), n))
  IN IF scan.projects /\ scan.cols = <<>> THEN [scan EXCEPT !.cols = cols] ELSE scan

RECURSIVE PushProjection(_, _)
PushProjection(p, need) ==
  CASE p.kind = "scan" -> ProjectColumns(p, need)
    [] p.kind \in {"empty", "join", "assert"} -> p
    [] OTHER -> [p EXCEPT !.input = PushProjection(@, ChildNeeds(p, need))]

-----------------------------------------------------------------------------
(* Optimize.                                                               *)

Rewrite(rule, p) ==
  CASE rule = "FoldConstants" -> FoldConstants(p)
    [] rule = "ProjectionPushdown" -> PushProjection(p, ToSet(Schema(p)))
    [] OTHER -> WalkRewrite(rule, p)

Init ==
  /\ source \in Sources
  /\ plan = source
  /\ rules \in RuleOrders
  /\ at = 1
  /\ anyChanged = FALSE
  /\ passes = 1
  /\ over = FALSE

ApplyRule ==
  /\ ~over
  /\ at \in DOMAIN rules
  /\ plan' = Rewrite(rules[at], plan)
  /\ anyChanged' = (anyChanged \/ plan' # plan)
  /\ at' = at + 1
  /\ UNCHANGED <<source, rules, passes, over>>

NextPass ==
  /\ ~over
  /\ at \notin DOMAIN rules
  /\ anyChanged /\ passes < MaxOptimizeIters
  /\ at' = 1
  /\ anyChanged' = FALSE
  /\ passes' = passes + 1
  /\ UNCHANGED <<source, plan, rules, over>>

Return ==
  /\ ~over
  /\ at \notin DOMAIN rules
  /\ ~anyChanged \/ passes = MaxOptimizeIters
  /\ over' = TRUE
  /\ UNCHANGED <<source, plan, rules, at, anyChanged, passes>>

Next == ApplyRule \/ NextPass \/ Return

Spec == Init /\ [][Next]_vars

-----------------------------------------------------------------------------
(* The plans the rules are right about.                                    *)

\* The columns a node names or computes with.
Mentions(n) ==
  CASE n.kind = "filter" -> ReferencedColumns(n.cond)
    [] n.kind = "project" -> References(n.exprs)
    [] n.kind = "with" -> ReferencedColumns(n.expr)
    [] n.kind = "sort" -> {k.column : k \in ToSet(n.keys)}
    [] n.kind = "agg" -> ToSet(n.keys) \cup {a.column : a \in ToSet(n.aggs)}
    [] n.kind \in {"drop", "explode"} -> {n.name}
    [] n.kind = "rename" -> {n.old}
    [] OTHER -> {}

Above(p, n) == {m \in Nodes(p) \ {n} : n \in Nodes(m)}

\* A node above n, or the caller, gets to see the column c that n gives.
Wanted(p, n, c) ==
  LET carries(k) == k.kind \notin {"project", "agg"} /\ (k.kind = "with" => k.name # c)
      between(m) == Above(p, n) \cap (Nodes(m) \ {m})
  IN \/ Contains(Schema(p), c) /\ \A k \in Above(p, n) : carries(k)
     \/ \E m \in Above(p, n) : c \in Mentions(m) /\ \A k \in between(m) : carries(k)

\* No two columns of a frame on the way have the same name.
Unambiguous(p) ==
  \A n \in Nodes(p) : IsInjective(Schema(n))

\* Over is looked for at the top of a computed column, where the sources
\* used here put it.
HasOver(e) == "over" \in {e.op} \cup (IF e.op = "alias" THEN {e.inner.op} ELSE {})

Expressions(n) ==
  CASE n.kind = "filter" -> SplitConjuncts(n.cond)
    [] n.kind = "project" -> ToSet(n.exprs)
    [] n.kind = "with" -> {n.expr}
    [] OTHER -> {}

\* A literal absorbs an operand that may be null: the unfolded expression
\* is null where the folded one is not.
RECURSIVE Absorbs(_)
Absorbs(e) ==
  \/ /\ e.op \in {"and", "or"}
     /\ \E c \in Children(e) : FoldExpr(c) = Lit("bool", IF e.op = "and" THEN No ELSE Yes)
  \/ \E c \in Children(e) : Absorbs(c)

\* Folding changes neither a value nor the name a Select gives it.
FoldsSafely(p) ==
  \A n \in Nodes(p) :
    /\ \A e \in Expressions(n) : ~Absorbs(e)
    /\ n.kind = "project" =>
         \A i \in DOMAIN n.exprs :
           OutputName(FoldExpr(n.exprs[i]), i) = OutputName(n.exprs[i], i)

\* A filter sees each row by itself, and below the Selects it passes it finds
\* the columns it sees above them.
PassesThrough(project) ==
  \A i \in DOMAIN project.exprs :
    LET e == project.exprs[i]  name == OutputName(e, i)
    IN RowWise(e) /\ (Contains(Schema(project.input), name) => e = Col(name))

FiltersMoveSafely(p) ==
  \A n \in Nodes(p) : n.kind = "filter" =>
    /\ RowWise(n.cond)
    /\ \A m \in Nodes(n.input) : m.kind = "project" => PassesThrough(m)

\* What a node reads, it asks its input for: not so for the partition column
\* of Over, the filter of an aggregation, and the old name of a rename whose
\* new name nothing asks for.  And a Drop leaves a column, for a frame without
\* columns has no rows.
ReadsWhatItNeeds(p) ==
  \A n \in Nodes(p) :
    /\ \A e \in Expressions(n) : ~HasOver(e)
    /\ n.kind = "agg" => \A a \in ToSet(n.aggs) : a.where = <<>>
    /\ n.kind = "rename" => Wanted(p, n, n.new)
    /\ n.kind = "drop" => \E c \in ToSet(Schema(n)) : Wanted(p, n, c)

Projects(p) == \E n \in Nodes(p) : n.kind = "scan" /\ n.projects

Regular(p) ==
  /\ Unambiguous(p) /\ FoldsSafely(p) /\ FiltersMoveSafely(p)
  /\ Projects(p) => ReadsWhatItNeeds(p)

-----------------------------------------------------------------------------
(* Properties.                                                             *)

\* The same columns, in whatever order, with the same rows in the same order.
Same(f, g) ==
  /\ f.failed = g.failed
  /\ ToSet(f.names) = ToSet(g.names)
  /\ \A n \in ToSet(f.names) : Column(f, n) = Column(g, n)

\* A plan that CollectRaw can execute keeps its result through every step of
\* every rule, in either order of the rules: "a pure function from a plan to
\* an equivalent plan" (Rule, optimize.go).
Equivalent ==
  LET raw == Collect(source)
  IN Regular(source) /\ ~raw.failed => Same(Collect(plan), raw)

\* What a plan says its columns are stays what executing it gives, names and
\* order, however the rules have rebuilt it: "Schema() keeps propagating
\* truthfully after the rewrite" (cascadeEmptyRule, optimize.go).
SchemaTold ==
  LET f == Collect(plan)
  IN Unambiguous(plan) /\ ~f.failed => f.names = Schema(plan)

\* The rules reach a plan none of them changes before the passes run out,
\* unless a source takes the same predicate again and again (Optimize).
Settles ==
  over /\ anyChanged => \E n \in Nodes(source) : n.kind = "scan" /\ n.sink = "layers"

\* A filter that only sorts, other filters and Selects that read what it reads
\* keep from a source that takes predicates gets its predicate there, whatever
\* rule has to move first (pushPredicateToScanRule, optimize.go).
RECURSIVE SinkBelow(_, _)
SinkBelow(p, reads) ==
  \/ p.kind = "scan" /\ p.sink # "none"
  \/ p.kind \in {"filter", "sort"} /\ SinkBelow(p.input, reads)
  \/ /\ p.kind = "project"
     /\ reads \subseteq ToSet(Schema(p.input)) \cap References(p.exprs)
     /\ SinkBelow(p.input, reads)

IsQuery(n) == RowWise(n.cond) /\ FoldExpr(n.cond).op # "lit"
PredicateReachesScan ==
  /\ over /\ ~Collect(source).failed
  /\ \A n \in Nodes(source) : n.kind = "filter" => IsQuery(n)
  => \A n \in Nodes(source), s \in Nodes(plan) :
       /\ n.kind = "filter" /\ SinkBelow(n.input, ReferencedColumns(n.cond))
       /\ s.kind = "scan" /\ s.table \in {m.table : m \in {m \in Nodes(n) : m.kind = "scan"}}
       => s.preds # <<>>

\* The columns of n that its query returns or computes with.  The old name of
\* a rename is not one of them where nothing asks for the new name.
WantedOf(p, n) ==
  {c \in ToSet(Schema(n)) :
     /\ Wanted(p, n, c)
     /\ \A m \in Above(p, n) : m.kind = "rename" /\ m.old = c => Wanted(p, m, m.new)}

\* In the end a source that can be told its columns reads those that the query,
\* if it can be executed at all, returns or computes with and no other, a column
\* that a Select or a WithColumn puts in the place of another included; only
\* where the query wants no column of its input does it read them all, for a
\* frame without columns has no rows (projectionPushdownRule, optimize.go).
\* Joins and assertions stop the rule, and a filter that has passed a Select
\* that hides its column reads the hidden one.
ScanIsNarrow ==
  LET stops == \E n \in Nodes(source) : n.kind \in {"join", "assert"}
  IN over /\ ~stops /\ FiltersMoveSafely(source) /\ ~Collect(source).failed =>
       \A n \in Nodes(plan), s \in Nodes(source) :
         n.kind = "scan" /\ n.projects /\ s.kind = "scan" =>
           \/ ToSet(Schema(n)) \subseteq WantedOf(source, s)
           \/ n.cols = <<>> /\ WantedOf(plan, n) = {}

\* "SAFE when pred references only columns present in x's schema":
\* PushFilterBelowProject, whenever it moves a filter, leaves the result as
\* it was (the comment of the rule, optimize.go).
PushBelowProjectIsSafe ==
  [][/\ ~Collect(plan).failed /\ Unambiguous(plan)
     /\ at \in DOMAIN rules /\ rules[at] = "PushFilterBelowProject"
     => Same(Collect(plan'), Collect(plan))]_vars
=============================================================================
