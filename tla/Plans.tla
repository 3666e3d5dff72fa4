-------------------------------- MODULE Plans --------------------------------
(***************************************************************************)
(* Expressions and logical plans, and what a plan means: the frame that    *)
(* CollectRaw, the interpreter that neither optimizes nor streams, makes   *)
(* of it.                                                                  *)
(*                                                                         *)
(* The partition columns of Over, the row-wise operators and a window      *)
(* function that looks at a neighbouring row (Shift) or at every row (Sum) *)
(* stand for the expressions of the library.                               *)
(***************************************************************************)
EXTENDS Frames

CONSTANT Tables   \* what the sources of the scans hold: a function to frames

-----------------------------------------------------------------------------
(* Expressions.                                                            *)

Col(name) == [op |-> "col", name |-> name]
Lit(type, value) == [op |-> "lit", type |-> type, value |-> value]
Binary(op, left, right) == [op |-> op, left |-> left, right |-> right]
Inverted(e) == [op |-> "not", inner |-> e]
Alias(e, name) == [op |-> "alias", inner |-> e, name |-> name]
Shift(e) == [op |-> "shift", inner |-> e]
Sum(e) == [op |-> "sum", inner |-> e]
Over(e, column) == [op |-> "over", inner |-> e, column |-> column]

BinaryOps == {"and", "or", "add", "eq", "lt"}
IsLit(e, type) == e.op = "lit" /\ e.type = type

\* The subexpressions an expression gives as its Children: Over's partition
\* column is not among them.
Children(e) == IF e.op \in BinaryOps THEN {e.left, e.right}
               ELSE IF e.op \in {"col", "lit"} THEN {} ELSE {e.inner}

RECURSIVE ReferencedColumns(_)
ReferencedColumns(e) ==
  (IF e.op = "col" THEN {e.name} ELSE {}) \cup UNION {ReferencedColumns(c) : c \in Children(e)}

\* The name a column computed in the i-th place of a Select gets.
OutputName(e, i) == IF e.op \in {"col", "alias"} THEN e.name ELSE "expr_" \o ToString(i - 1)

\* A null operand makes the result null, and of AND and OR too.
Operate(op, x, y) ==
  IF NULL \in {x, y} THEN NULL
  ELSE CASE op = "and" -> Truth(x = Yes /\ y = Yes)
         [] op = "or"  -> Truth(x = Yes \/ y = Yes)
         [] op = "eq"  -> Truth(x = y)
         [] op = "lt"  -> Truth(x < y)
         [] op = "add" -> x + y

Cells(s) == [failed |-> FALSE, cells |-> s]
NoCells == [failed |-> TRUE, cells |-> <<>>]

RowsLike(f, column, i) ==
  SelectSeq(RowsOf(f), LAMBDA j : Column(f, column)[j] = Column(f, column)[i])

RECURSIVE Eval(_, _)
\* Over reduces a Sum over each partition and repeats it on the partition's
\* rows; any other expression it evaluates on each partition alone.
EvalOver(e, f) ==
  LET sums == e.inner.op = "sum"
      whole == Eval(IF sums THEN e.inner.inner ELSE e.inner, f)
      alone(i) == Eval(e.inner, TakeRows(f, RowsLike(f, e.column, i))).cells
      place(i) == SelectInSeq(RowsLike(f, e.column, i), LAMBDA j : j = i)
  IN IF ~Has(f, e.column) \/ whole.failed THEN NoCells
     ELSE Cells([i \in 1..NumRows(f) |->
                   IF sums THEN Reduce("sum", whole.cells, RowsLike(f, e.column, i))
                   ELSE alone(i)[place(i)]])

Eval(e, f) ==
  IF e.op = "col" THEN IF Has(f, e.name) THEN Cells(Column(f, e.name)) ELSE NoCells
  ELSE IF e.op = "lit" THEN Cells([i \in 1..NumRows(f) |-> e.value])
  ELSE IF e.op = "over" THEN EvalOver(e, f)
  ELSE IF e.op \in BinaryOps
  THEN LET l == Eval(e.left, f)  r == Eval(e.right, f)
       IN IF l.failed \/ r.failed THEN NoCells
          ELSE Cells([i \in DOMAIN l.cells |-> Operate(e.op, l.cells[i], r.cells[i])])
  ELSE LET s == Eval(e.inner, f)
           one(i) == CASE e.op = "alias" -> s.cells[i]
                       [] e.op = "not" -> IF s.cells[i] = NULL THEN NULL ELSE Yes - s.cells[i]
                       [] e.op = "shift" -> IF i = 1 THEN NULL ELSE s.cells[i - 1]
                       [] e.op = "sum" -> Reduce("sum", s.cells, RowsOf(f))
       IN IF s.failed THEN NoCells ELSE Cells([i \in DOMAIN s.cells |-> one(i)])

\* The cells of a row depend on that row alone.
RECURSIVE RowWise(_)
RowWise(e) == e.op \notin {"shift", "sum", "over"} /\ \A c \in Children(e) : RowWise(c)

-----------------------------------------------------------------------------
(* Plans.  A scan has what its source lets the optimizer do: projects says *)
(* it can be given columns, sink whether it takes a predicate ("none"),    *)
(* takes one once ("once", SQL sources) or whenever it is given one        *)
(* ("layers", parquet); cols and preds hold what it was given.             *)

Scan(table, projects, sink) ==
  [kind |-> "scan", table |-> table, projects |-> projects, sink |-> sink,
   cols |-> <<>>, preds |-> <<>>]
Empty(names) == [kind |-> "empty", names |-> names]
Filter(p, cond) == [kind |-> "filter", input |-> p, cond |-> cond]
Project(p, exprs) == [kind |-> "project", input |-> p, exprs |-> exprs]
With(p, name, e) == [kind |-> "with", input |-> p, name |-> name, expr |-> e]
Sort(p, keys) == [kind |-> "sort", input |-> p, keys |-> keys]
Agg(p, keys, aggs) == [kind |-> "agg", input |-> p, keys |-> keys, aggs |-> aggs]
Joined(p, q, lk, rk, how) ==
  [kind |-> "join", input |-> p, right |-> q, leftKey |-> lk, rightKey |-> rk, how |-> how]
Limit(p, n) == [kind |-> "limit", input |-> p, n |-> n]
LastOf(p, n) == [kind |-> "tail", input |-> p, n |-> n]
Drop(p, name) == [kind |-> "drop", input |-> p, name |-> name]
Exploded(p, name) == [kind |-> "explode", input |-> p, name |-> name]
Renamed(p, old, new) == [kind |-> "rename", input |-> p, old |-> old, new |-> new]
Asserted(p) == [kind |-> "assert", input |-> p]

Leaves == {"scan", "empty"}

\* The plan and the plans below it.
RECURSIVE Nodes(_)
Nodes(p) ==
  {p} \cup (IF p.kind \in Leaves THEN {} ELSE Nodes(p.input))
      \cup (IF p.kind = "join" THEN Nodes(p.right) ELSE {})

-----------------------------------------------------------------------------
(* The columns a plan says it has.                                         *)

RECURSIVE Schema(_)
Schema(p) ==
  CASE p.kind = "scan" -> IF p.cols = <<>> THEN Tables[p.table].names ELSE p.cols
    [] p.kind = "empty" -> p.names
    [] p.kind = "project" -> [i \in DOMAIN p.exprs |-> OutputName(p.exprs[i], i)]
    [] p.kind = "with" -> LET in == Schema(p.input)
                          IN IF Contains(in, p.name) THEN in ELSE Append(in, p.name)
    [] p.kind = "agg" -> p.keys \o [a \in DOMAIN p.aggs |-> p.aggs[a].name]
    [] p.kind = "join" -> JoinNames(Schema(p.input), Schema(p.right), p.rightKey, p.how)
    [] p.kind = "drop" -> SelectSeq(Schema(p.input), LAMBDA n : n # p.name)
    [] p.kind = "rename" -> [i \in DOMAIN Schema(p.input) |->
                               IF Schema(p.input)[i] = p.old THEN p.new ELSE Schema(p.input)[i]]
    [] OTHER -> Schema(p.input)

-----------------------------------------------------------------------------
(* CollectRaw.                                                             *)

\* The parts of a predicate that a SQL source can take.
RECURSIVE SplitConjuncts(_)
SplitConjuncts(e) ==
  IF e.op = "and" THEN SplitConjuncts(e.left) \cup SplitConjuncts(e.right) ELSE {e}
Translated(e) == {c \in SplitConjuncts(e) : RowWise(c)}

\* Reading a source, dropping as many rows as the predicates it was given
\* allow: a SQL source drops them all, parquet those of whole row groups.
ReadScan(p) ==
  LET t == Tables[p.table]
      conjuncts == UNION {Translated(p.preds[k]) : k \in DOMAIN p.preds}
      mask == [i \in 1..NumRows(t) |-> Truth(\A c \in conjuncts : Eval(c, t).cells[i] = Yes)]
      rows == IF conjuncts = {} THEN t ELSE KeepRows(t, mask)
  IN IF \E c \in conjuncts : Eval(c, t).failed THEN Failed
     ELSE IF p.cols = <<>> THEN rows ELSE SelectCols(rows, p.cols)

EmptyFrame(names) == NewFrame(names, [c \in DOMAIN names |-> <<>>])

FilterBy(f, mask) == IF mask.failed THEN Failed ELSE KeepRows(f, mask.cells)
FilterExpr(f, cond) == FilterBy(f, Eval(cond, f))

SelectedSeries(exprs, s) ==
  IF \E i \in DOMAIN s : s[i].failed THEN Failed
  ELSE NewFrame([i \in DOMAIN s |-> OutputName(exprs[i], i)], [i \in DOMAIN s |-> s[i].cells])
ExecuteSelect(f, exprs) == SelectedSeries(exprs, [i \in DOMAIN exprs |-> Eval(exprs[i], f)])

WithSeries(f, name, s) == IF s.failed THEN Failed ELSE WithColumn(f, name, s.cells)
WithColumnExpr(f, name, e) == WithSeries(f, name, Eval(e, f))

\* An aggregation may have a filter of its own, where = << e >>.
AggregateMasked(f, keys, aggs, masks) ==
  IF \E a \in DOMAIN aggs : masks[a].failed THEN Failed
  ELSE Aggregate(f, keys, aggs, [a \in DOMAIN aggs |-> masks[a].cells])
AggregateBy(f, keys, aggs) ==
  AggregateMasked(f, keys, aggs,
    [a \in DOMAIN aggs |-> IF aggs[a].where = <<>> THEN Cells([i \in 1..NumRows(f) |-> Yes])
                           ELSE Eval(aggs[a].where[1], f)])

JoinWith(p, f, right) ==
  IF right.failed THEN Failed ELSE Join(f, right, p.leftKey, p.rightKey, p.how)

RECURSIVE Collect(_)
Apply(p, f) ==
  CASE p.kind = "filter" -> FilterExpr(f, p.cond)
    [] p.kind = "project" -> ExecuteSelect(f, p.exprs)
    [] p.kind = "with" -> WithColumnExpr(f, p.name, p.expr)
    [] p.kind = "sort" -> SortBy(f, p.keys)
    [] p.kind = "agg" -> AggregateBy(f, p.keys, p.aggs)
    [] p.kind = "join" -> JoinWith(p, f, Collect(p.right))
    [] p.kind = "limit" -> IF p.n <= 0 THEN TakeRows(f, <<>>) ELSE FirstRows(f, p.n)
    [] p.kind = "tail" -> LastRows(f, IF p.n <= 0 THEN 0 ELSE p.n)
    [] p.kind = "drop" -> DropColumn(f, p.name)
    [] p.kind = "explode" -> Explode(f, p.name)
    [] p.kind = "rename" -> Rename(f, p.old, p.new)
    [] p.kind = "assert" -> f

CollectOver(p, f) == IF f.failed THEN Failed ELSE Apply(p, f)
Collect(p) ==
  IF p.kind = "scan" THEN ReadScan(p)
  ELSE IF p.kind = "empty" THEN EmptyFrame(p.names)
  ELSE CollectOver(p, Collect(p.input))
=============================================================================
