------------------------------ MODULE Pipeline ------------------------------
(***************************************************************************)
(* The streaming engine behind Collect: Compile turns a plan into a tree   *)
(* of operators, Execute pulls batches from its root until the end, an     *)
(* error or a cancellation, and stitches them into one frame.              *)
(*                                                                         *)
(* One goroutine runs all of it, so an operator tree is a value: Next is a *)
(* function from an operator and the world to an answer that holds both as *)
(* they are afterwards.  The world counts what a test does not see: the    *)
(* scans whose producer runs, the batches and frames not yet released, and *)
(* the looks at the context left before it is cancelled.                   *)
(***************************************************************************)
EXTENDS Plans

CONSTANTS
  Runs,          \* what is run: a plan, how the sources hand out their rows, and
                 \* how often the context is looked at before it is cancelled
  BatchRows      \* defaultBatchRows

VARIABLES query, layout, phase, root, world, batches, result

vars == <<query, layout, phase, root, world, batches, result>>

\* layout[t] says by which way t is read ("frame", "stream" or "read"), the
\* lengths of the chunks of each of its columns, after how many batches the
\* source fails (Never is beyond them), and if a writer sorted it.
Never == 99

-----------------------------------------------------------------------------
(* Batches.                                                                *)

TopIsOver(e) == e.op = "over"

RECURSIVE ContainsOver(_)
ContainsOver(e) == e.op = "over" \/ \E c \in Children(e) : ContainsOver(c)

Slice(f, from, to) == TakeRows(f, [i \in 1..to - from |-> from + i])

ChunkEnds(lengths) == {FoldLeft(+, 0, SubSeq(lengths, 1, i)) : i \in 1..Len(lengths)}

CutsOfFirstColumn(chunks, total) ==
  {0, total} \cup UNION {ChunkEnds(chunks[c]) : c \in DOMAIN chunks \cap {1}}

\* The offsets where an in-memory frame is cut: where some column's chunk
\* ends, and every BatchRows rows of a longer span.
ChunkAlignedBoundaries(chunks, total) ==
  LET ends == {0, total} \cup UNION {ChunkEnds(chunks[c]) : c \in DOMAIN chunks}
      start(n) == CHOOSE s \in ends : s <= n /\ \A t \in ends : t <= n => t <= s
  IN IF total = 0 THEN {}
     ELSE {n \in 0..total : n \in ends \/ (n - start(n)) % BatchRows = 0}

\* frameToBatch panics on a column of two chunks.
OneChunk(chunks, from, to) ==
  \A c \in DOMAIN chunks : ~\E e \in ChunkEnds(chunks[c]) : from < e /\ e < to

\* One frame of many batches, under the names the operator declares.
Concat(names, bs) ==
  IF bs = <<>> THEN EmptyFrame(names)
  ELSE NewFrame(names, [c \in DOMAIN names |-> FlattenSeq([b \in DOMAIN bs |-> bs[b].cols[c]])])

-----------------------------------------------------------------------------
(* Answers, and what a step does to the world.                             *)

Answer(tag, batch, op, w) == [tag |-> tag, batch |-> batch, op |-> op, w |-> w]
Batch(f, op, w) == Answer("batch", f, op, w)
EOF(op, w) == Answer("eof", Failed, op, w)
Err(op, w) == Answer("error", Failed, op, w)

Expired(w) == w.checks = 0
Looked(w) == [w EXCEPT !.checks = IF @ \in {0, Never} THEN @ ELSE @ - 1]
Hold(w) == [w EXCEPT !.held = @ + 1]
Drop1(w) == [w EXCEPT !.held = @ - 1]
Opened(w, t) == [w EXCEPT !.open = @ \cup {t}]
Closed(w, t) == [w EXCEPT !.open = @ \ {t}]

-----------------------------------------------------------------------------
(* Next of the sources and of the operators that keep no state.            *)

NextOfFrame(op, w) ==
  IF Expired(w) THEN Err(op, w)
  ELSE IF Len(op.cuts) < 2 THEN EOF(op, Looked(w))
  ELSE LET rest == [op EXCEPT !.cuts = Tail(@)]
       IN IF OneChunk(op.chunks, op.cuts[1], op.cuts[2])
          THEN Batch(Slice(op.frame, op.cuts[1], op.cuts[2]), rest, Hold(Looked(w)))
          ELSE Answer("panic", Failed, op, w)

\* The queue and the producer behind it are those of FileScan and ParallelScan.
NextOfScan(op, w) ==
  IF Expired(w) THEN Err(op, w)
  ELSE IF op.sent = op.fails THEN Err(op, Looked(w))
  ELSE IF op.sent = Len(op.parts) THEN EOF(op, Looked(w))
  ELSE Batch(op.parts[op.sent + 1], [op EXCEPT !.sent = @ + 1], Hold(Looked(w)))

\* A chain of row operators on one batch, left as soon as no row is.
ApplyChain(nodes, f) ==
  FoldLeft(LAMBDA g, i : IF g.failed \/ (i > 1 /\ NumRows(g) = 0) THEN g ELSE Apply(nodes[i], g),
           f, [i \in DOMAIN nodes |-> i])

JoinBatch(op, f) == Join(f, op.built, op.nodes[1].leftKey, op.nodes[1].rightKey, op.nodes[1].how)

RECURSIVE NextOf(_, _), PullAll(_, _, _, _), CloseOf(_, _)

Transform(op, f) ==
  IF op.nodes[1].kind = "join" THEN JoinBatch(op, f) ELSE ApplyChain(op.nodes, f)

SkipsEmpty(op) == op.kind # "row" \/ Len(op.nodes) > 1 \/ op.nodes[1].kind = "filter"

\* What is made of the input's answer: a batch is released once it is
\* transformed; where nothing is left of it some go on to the next one.
Passed(op, r, out) ==
  IF r.tag # "batch" THEN [r EXCEPT !.op = op]
  ELSE IF out.failed THEN Err(op, Drop1(r.w))
  ELSE IF SkipsEmpty(op) /\ NumRows(out) = 0 THEN NextOf(op, Drop1(r.w))
  ELSE Batch(out, op, r.w)
PassOn(op, r) == Passed([op EXCEPT !.input = r.op], r, Transform(op, r.batch))
PullThrough(op, w) ==
  IF Expired(w) THEN Err(op, w) ELSE PassOn(op, NextOf(op.input, Looked(w)))

Limited(op, r) ==
  LET n == Smaller(NumRows(r.batch), op.remaining)
  IN IF r.tag # "batch" THEN [r EXCEPT !.op = [op EXCEPT !.input = r.op]]
     ELSE Batch(Slice(r.batch, 0, n), [op EXCEPT !.input = r.op, !.remaining = @ - n], r.w)
NextOfLimit(op, w) ==
  IF op.remaining <= 0 THEN EOF(op, w)
  ELSE IF Expired(w) THEN Err(op, w)
  ELSE Limited(op, NextOf(op.input, Looked(w)))

-----------------------------------------------------------------------------
(* Next of the operators that read an input to its end.                    *)

\* Pull until the end, with or without a look at the context each time;
\* empty batches are kept, which no result shows.
\* An error releases the batches got so far.
Pulled(r, looks, got) ==
  CASE r.tag = "batch" -> PullAll(r.op, r.w, looks, Append(got, r.batch))
    [] r.tag = "eof" -> r @@ [all |-> got]
    [] OTHER -> [r EXCEPT !.w.held = @ - Len(got)] @@ [all |-> <<>>]
PullAll(op, w, looks, got) ==
  Pulled(IF looks /\ Expired(w) THEN Err(op, w)
         ELSE NextOf(op, IF looks THEN Looked(w) ELSE w), looks, got)

Execute(r) ==
  Answer(r.tag, IF r.tag = "eof" THEN Concat(r.op.names, SelectSeq(r.all, LAMBDA b : NumRows(b) # 0))
                ELSE Failed,
         r.op, CloseOf(r.op, [r.w EXCEPT !.held = @ - Len(r.all) + Truth(r.tag = "eof")]))
\* Execute without the steps in between: the frame or the error, the operator
\* closed.
ExecuteAll(op, w) == Execute(PullAll(op, w, FALSE, <<>>))

\* A row without a key value is in no group when there is a single key.
StreamedAggregate(p, f) ==
  LET keyed == [i \in 1..NumRows(f) |-> Truth(Column(f, p.keys[1])[i] # NULL)]
      rows == IF Len(p.keys) = 1 THEN KeepRows(f, keyed) ELSE f
  IN IF NumRows(f) = 0 THEN EmptyFrame(Schema(p))
     ELSE IF \A k \in DOMAIN p.keys : Has(f, p.keys[k]) THEN AggregateBy(rows, p.keys, p.aggs)
     ELSE Failed

\* The aggregate answers with one batch, of no rows if there is no group.  It
\* never releases the frames it wraps around its batches.
Aggregated(op, r, out) ==
  LET wrapped == Len(SelectSeq(r.all, LAMBDA b : NumRows(b) # 0))
      up == [op EXCEPT !.input = r.op, !.yielded = TRUE]
      after == [r.w EXCEPT !.held = @ - Len(r.all) + wrapped]
  IN IF r.tag # "eof" THEN [r EXCEPT !.op = up]
     ELSE IF out.failed THEN Err(up, after)
     ELSE Batch(out, up, Hold(after))
AggregateOf(op, r) == Aggregated(op, r, StreamedAggregate(op.nodes[1], Concat(op.inNames, r.all)))
NextOfAggregate(op, w) ==
  IF op.yielded THEN EOF(op, w) ELSE AggregateOf(op, PullAll(op.input, w, TRUE, <<>>))

\* Materialize: the whole input, then the result in slices.
Materialized(op, r, out) ==
  LET up == [op EXCEPT !.input = r.op]
      after == [r.w EXCEPT !.held = @ - Len(r.all)]
  IN IF r.tag # "eof" THEN [r EXCEPT !.op = up]
     ELSE IF out.failed THEN Err(up, after)
     ELSE EOF([up EXCEPT !.out = out, !.yielded = TRUE], Hold(after))
Materialize(op, r) == Materialized(op, r, Transform(op, Concat(op.inNames, r.all)))

Emit(r) ==
  LET out == r.op.out
      end == Smaller(r.op.offset + BatchRows, NumRows(out))
  IN IF r.tag # "eof" THEN r
     ELSE IF out.failed \/ r.op.offset >= NumRows(out)
     THEN EOF([r.op EXCEPT !.out = Failed], IF out.failed THEN r.w ELSE Drop1(r.w))
     ELSE Batch(Slice(out, r.op.offset, end), [r.op EXCEPT !.offset = end], Hold(r.w))
NextOfMaterialize(op, w) ==
  Emit(IF op.yielded THEN EOF(op, w) ELSE Materialize(op, PullAll(op.input, w, TRUE, <<>>)))

\* The hash join builds the right side on the first Next, even if that fails.
Probe(op, r) ==
  IF r.tag # "eof" THEN [r EXCEPT !.op = op]
  ELSE IF ~Has(op.built, op.nodes[1].rightKey) THEN Err(op, r.w)
  ELSE PullThrough(op, r.w)
BuildRight(op, r) == Probe([op EXCEPT !.building = FALSE, !.right = r.op, !.built = r.batch], r)
NextOfProbe(op, w) ==
  IF op.building THEN BuildRight(op, ExecuteAll(op.right, w)) ELSE PullThrough(op, w)

\* The merge join executes both sides and answers with one batch.  A left
\* side whose right side failed is let go without a release.
Merged(op, w, out) ==
  IF out.failed THEN Err(op, w)
  ELSE IF NumRows(out) = 0 THEN EOF(op, w)
  ELSE Batch(out, op, Hold(w))
MergeSides(op, l, r) ==
  IF l.tag # "eof" THEN [l EXCEPT !.op = [op EXCEPT !.emitted = TRUE, !.input = l.op]]
  ELSE IF r.tag # "eof"
  THEN [r EXCEPT !.op = [op EXCEPT !.emitted = TRUE, !.input = l.op, !.right = r.op]]
  ELSE Merged([op EXCEPT !.emitted = TRUE, !.input = l.op, !.right = r.op,
                         !.probe = l.batch, !.built = r.batch],
              r.w, Join(l.batch, r.batch, op.nodes[1].leftKey, op.nodes[1].rightKey, "inner"))
MergeRight(op, l) == MergeSides(op, l, ExecuteAll(op.right, l.w))
NextOfMerge(op, w) == IF op.emitted THEN EOF(op, w) ELSE MergeRight(op, ExecuteAll(op.input, w))

NextOf(op, w) ==
  CASE op.kind = "frame" -> NextOfFrame(op, w)
    [] op.kind = "scan" -> NextOfScan(op, w)
    [] op.kind = "empty" -> EOF(op, w)
    [] op.kind = "row" -> PullThrough(op, w)
    [] op.kind = "limit" -> NextOfLimit(op, w)
    [] op.kind = "materialize" -> NextOfMaterialize(op, w)
    [] op.kind = "aggregate" -> NextOfAggregate(op, w)
    [] op.kind = "probe" -> NextOfProbe(op, w)
    [] op.kind = "merge" -> NextOfMerge(op, w)

-----------------------------------------------------------------------------
(* Close and Execute.                                                      *)

ReleaseFrames(fs, w) == [w EXCEPT !.held = @ - Len(SelectSeq(fs, LAMBDA f : ~f.failed))]

CloseProbeLeft(op, w) == ReleaseFrames(<<op.built>>, CloseOf(op.input, w))

\* Execute has closed the right side once it was built.
CloseProbe(op, w) ==
  ReleaseFrames(<<op.built>>,
    IF op.building THEN CloseOf(op.right, CloseOf(op.input, w)) ELSE CloseOf(op.input, w))

CloseOf(op, w) ==
  CASE op.kind = "frame" -> w
    [] op.kind = "scan" -> Closed(w, op.table)
    [] op.kind = "empty" -> w
    [] op.kind \in {"row", "limit"} -> CloseOf(op.input, w)
    [] op.kind \in {"materialize", "aggregate"} -> CloseOf(op.input, ReleaseFrames(<<op.out>>, w))
    [] op.kind = "probe" -> CloseProbe(op, w)
    [] op.kind = "merge" ->
         IF op.probe.failed THEN CloseOf(op.right, CloseOf(op.input, w))
         ELSE ReleaseFrames(<<op.probe, op.built>>, w)

-----------------------------------------------------------------------------
(* Compile.                                                                *)

Made(op, w) == [failed |-> FALSE, op |-> op, w |-> w]
NotMade(w) == [failed |-> TRUE, op |-> <<>>, w |-> w]

FrameExec(f, names, chunks) ==
  LET cuts == ChunkAlignedBoundaries(chunks, NumRows(f))
  IN [kind |-> "frame", names |-> names, frame |-> f, chunks |-> chunks,
      cuts |-> SetToSortSeq(cuts, LAMBDA a, b : a < b)]

\* The frames a source calls back with.
Parts(f, lengths) ==
  LET end(i) == FoldLeft(+, 0, SubSeq(lengths, 1, i))
  IN [i \in DOMAIN lengths |-> Slice(f, end(i - 1), end(i))]

CompileScan(p, w) ==
  LET how == layout[p.table]
      f == ReadScan(p)
  IN IF how.via = "frame" THEN Made(FrameExec(f, Schema(p), how.chunks), w)
     ELSE IF how.via = "stream"
     THEN Made([kind |-> "scan", names |-> Schema(p), table |-> p.table, sent |-> 0,
                parts |-> Parts(f, how.chunks[1]), fails |-> how.fails], Opened(w, p.table))
     ELSE IF how.fails # Never THEN NotMade(w)
     ELSE Made(FrameExec(f, Schema(p), <<>>), w)

Blocking(p, input, w) ==
  Made([kind |-> IF p.kind = "agg" /\ \A a \in DOMAIN p.aggs : p.aggs[a].where = <<>>
                 THEN "aggregate" ELSE "materialize",
        names |-> Schema(p), nodes |-> <<p>>, input |-> input, inNames |-> input.names,
        out |-> Failed, offset |-> 0, yielded |-> FALSE, built |-> Failed], w)

SortedScan(p) == p.kind = "scan" /\ layout[p.table].sorted

\* A right or a full join executes its right side while it is compiled, with
\* a context of its own.
Fallback(p, l, done, checks) ==
  IF done.tag # "eof" THEN NotMade(CloseOf(l.op, [done.w EXCEPT !.checks = checks]))
  ELSE [Blocking(p, l.op, [done.w EXCEPT !.checks = checks]) EXCEPT !.op.built = done.batch]
CompileJoin(p, l, r) ==
  LET join(kind) == Made([kind |-> kind, names |-> Schema(p), nodes |-> <<p>>, input |-> l.op,
                          right |-> r.op, building |-> TRUE, built |-> Failed,
                          probe |-> Failed, emitted |-> FALSE], r.w)
  IN IF l.failed THEN l
     ELSE IF r.failed THEN r
     ELSE IF p.how = "inner" /\ SortedScan(p.input) /\ SortedScan(p.right) THEN join("merge")
     ELSE IF p.how \in {"inner", "left", "semi", "anti"} THEN join("probe")
     ELSE Fallback(p, l, ExecuteAll(r.op, [r.w EXCEPT !.checks = Never]), r.w.checks)

NeedsAllRows(p) ==
  CASE p.kind = "filter" -> ContainsOver(p.cond)
    [] p.kind = "with" -> ContainsOver(p.expr)
    [] p.kind = "project" -> \E i \in DOMAIN p.exprs : ContainsOver(p.exprs[i])
    [] p.kind \in {"sort", "tail", "agg"} -> TRUE
    [] OTHER -> FALSE

RECURSIVE CompileNode(_, _)
CompileOver(p, in) ==
  IF in.failed \/ p.kind = "assert" THEN in
  ELSE IF p.kind = "join" THEN CompileJoin(p, in, CompileNode(p.right, in.w))
  ELSE IF NeedsAllRows(p) THEN Blocking(p, in.op, in.w)
  ELSE IF p.kind = "limit"
  THEN Made([kind |-> "limit", names |-> in.op.names, input |-> in.op, remaining |-> p.n], in.w)
  ELSE Made([kind |-> "row", names |-> Schema(p), nodes |-> <<p>>, input |-> in.op], in.w)
CompileNode(p, w) ==
  CASE p.kind = "scan" -> CompileScan(p, w)
    [] p.kind = "empty" -> Made([kind |-> "empty", names |-> Schema(p)], w)
    [] OTHER -> CompileOver(p, CompileNode(p.input, w))

\* Chains of row operators become one operator.
RECURSIVE FuseStreamChains(_)
FuseWith(op, in) ==
  CASE op.kind \in {"probe", "merge"} ->
         [op EXCEPT !.input = in, !.right = FuseStreamChains(@)]
    [] op.kind = "row" /\ in.kind = "row" ->
         [op EXCEPT !.input = in.input, !.nodes = in.nodes \o @]
    [] OTHER -> [op EXCEPT !.input = in]
FuseStreamChains(op) ==
  IF op.kind \in {"frame", "scan", "empty"} THEN op ELSE FuseWith(op, FuseStreamChains(op.input))

-----------------------------------------------------------------------------
(* Collect: compile, then the loop of Execute.                             *)

Init ==
  /\ \E run \in Runs :
       /\ query = run.query
       /\ layout = run.layout
       /\ world = [checks |-> run.checks, held |-> 0, open |-> {}]
  /\ phase = "compile"
  /\ root = <<>>
  /\ batches = <<>>
  /\ result = Failed

Compile ==
  /\ phase = "compile"
  /\ \E c \in {CompileNode(query, world)} :
       /\ root' = IF c.failed THEN <<>> ELSE FuseStreamChains(c.op)
       /\ phase' = IF c.failed THEN "uncompiled" ELSE "pull"
       /\ world' = c.w
  /\ UNCHANGED <<query, layout, batches, result>>

\* The error path releases the batches gathered so far; Close runs on every
\* path.
PullBatch ==
  /\ phase = "pull"
  /\ \E r \in {NextOf(root, world)} :
       /\ root' = r.op
       /\ \/ /\ r.tag = "batch"
             /\ batches' = IF NumRows(r.batch) = 0 THEN batches ELSE Append(batches, r.batch)
             /\ world' = IF NumRows(r.batch) = 0 THEN Drop1(r.w) ELSE r.w
             /\ UNCHANGED phase
          \/ /\ r.tag = "eof"
             /\ phase' = "concat"
             /\ world' = r.w
             /\ UNCHANGED batches
          \/ /\ r.tag \in {"error", "panic"}
             /\ phase' = r.tag
             /\ batches' = <<>>
             /\ world' = CloseOf(r.op, [r.w EXCEPT !.held = @ - Len(batches)])
  /\ UNCHANGED <<query, layout, result>>

Finish ==
  /\ phase = "concat"
  /\ result' = Concat(root.names, batches)
  /\ phase' = "done"
  /\ batches' = <<>>
  /\ world' = CloseOf(root, [world EXCEPT !.held = @ - Len(batches)])
  /\ UNCHANGED <<query, layout, root>>

Next == Compile \/ PullBatch \/ Finish

Spec == Init /\ [][Next]_vars

-----------------------------------------------------------------------------
(* Properties.                                                             *)

TypeOK ==
  /\ phase \in {"compile", "pull", "concat", "done", "error", "panic", "uncompiled"}
  /\ world.checks \in 0..Never /\ world.held \in Int
  /\ world.open \subseteq DOMAIN Tables

Exprs(p) ==
  CASE p.kind = "filter" -> {p.cond}
    [] p.kind = "with" -> {p.expr}
    [] p.kind = "project" -> Range(p.exprs)
    [] OTHER -> {}

RECURSIVE WindowsInOver(_)
WindowsInOver(e) ==
  \/ e.op = "over"
  \/ e.op \notin {"shift", "sum"} /\ \A c \in Children(e) : WindowsInOver(c)

\* The expressions that look at other rows say by Over which rows, and an
\* aggregation by one key meets no null in it.
StreamsSafely(p) ==
  \A n \in Nodes(p) :
    /\ \A e \in Exprs(n) : WindowsInOver(e)
    /\ n.kind = "agg" /\ Len(n.keys) = 1 =>
         LET f == Collect(n.input) IN ~Has(f, n.keys[1]) \/ ~Contains(Column(f, n.keys[1]), NULL)

\* Wherever the batches are cut, Collect returns the rows of CollectRaw in
\* their order.  The raw plan may fail where the streamed one does not: on
\* rows a limit or an emptied batch never let through.
MatchesRaw ==
  phase = "done" /\ StreamsSafely(query) =>
    LET raw == Collect(query) IN raw.failed \/ result = raw

\* Collect fails only if the plan does, a source does or the context is
\* cancelled, and frameToBatch meets no column of two chunks.
FailsForACause ==
  /\ phase # "panic"
  /\ phase \in {"error", "uncompiled"} /\ StreamsSafely(query) =>
       \/ Collect(query).failed
       \/ world.checks = 0
       \/ \E n \in Nodes(query) : n.kind = "scan" /\ layout[n.table].fails # Never

\* A plan that compiled leaves no producer running, whatever ends it, and no
\* batch or frame behind; the aggregate, the right side of a right or full
\* join and the left side of a failed merge join are known to stay.
KeepsFrames(p) ==
  \/ p.kind = "agg"
  \/ p.kind = "join" /\ (p.how \in {"right", "full"} \/ SortedScan(p.right))
NothingLeft ==
  phase \in {"done", "error"} =>
    /\ world.open = {}
    /\ world.held = 0 \/ \E n \in Nodes(query) : KeepsFrames(n)

\* Shift's documentation: row i of the result takes the value of row i - 1.
ShiftedByOneRow ==
  phase = "done" => \A i \in 1..NumRows(result) :
    Column(result, "x")[i] = IF i = 1 THEN NULL ELSE Column(result, "a")[i - 1]
=============================================================================
