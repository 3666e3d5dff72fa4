# gobi: TLA+ models, checks and proofs

gobi is a geospatial dataframe library in Go: typed columns over Apache Arrow,
a lazy plan with an optimizer, a pull-based streaming executor, and readers and
writers for Parquet, CSV, GeoPackage, PostGIS, shapefiles, KML, GeoJSON and AWS
Athena. This directory models the parts of it where order, concurrency or a
claim about data decides whether an answer is right.

## 1. Inventory of the system

| Part | State it keeps | Operations | What is hard | What makes it correct |
|---|---|---|---|---|
| Parallel file scan, `exec_scan_parallel.go` | channels `batches`, `errs`, `done`; `startOnce`, `closeOnce`, `closed`; a WaitGroup | `Next`, `Close`, worker goroutines, closer goroutine | workers, errors, cancellation and `Close` interleave over three channels | no batch lost or released twice, EOF only when complete, first error is the cause, `Next` and `Close` return, `done` closed once |
| Single-producer scan, `exec_ops.go` `scanFileExec` | channels `batches` (2), `errs` (1), `done` | `Next`, `Close`, producer | early `Close` against a blocked producer | file order, no leak, no lost error |
| Streaming aggregate, `exec_aggregate*.go` | group maps per worker, inboxes, batch reference counts, derived context | `buildSerial`, `buildParallel`, `dispatchBatch`, `workerConsume`, merge | reference counts across goroutines, cancellation, first error wins | parallel result is the serial one, nothing retained, shards disjoint |
| Joins, `exec_join.go`, `exec_join_merge.go`, `join.go` | materialised build side, hash index, two pointers | `Next`, `buildIfNeeded`, `mergeJoinInner` | the merge relies on an order that metadata claims | every matching pair exactly once |
| Partition metadata, `partition.go` | none (values attached to plan nodes) | `Aligned`, `AlignedWith`, `validateAssertion`, `propagateProjection`, `propagateLimit` | a claim that survives an operator it should not survive makes a wrong answer | no operator strengthens a claim |
| Row operators and driver, `exec.go`, `exec_ops.go` | remaining rows, emitted flags, frames | `Execute`, limit, filter, project, materialise, fused chain | ownership of batches on every error path | same rows as the eager engine, nothing retained |
| Compiler and plan, `compile.go`, `plan.go`, `lazy.go`, `optimize.go` | plan trees | rewrites, operator choice | rewrites across limits, joins and windows | same rows before and after |
| Group-by, `groupby*.go`, `exec_aggregate.go` | group tables, accumulators | one general path, fast paths for one key column, a linear scan, a streaming build | the bytes of keys, the order of groups, values gathered batch by batch | every path gives the same groups in the same order |
| Series and expressions, `series*.go`, `expr*.go` | none | one kernel for each type and shape of operand | chunks, nulls, widths of integers, types that miss their fast path | each element is what the operation is defined to give, of the type that was told |
| Frames, `setops.go`, `unique.go`, `pivot.go`, `collect_set.go`, `explode.go`, `sort.go` | none | walks over row keys, gathers of rows | types and chunks that one step of several does not take | each cell is that of the row it belongs to |
| Time, `rolling.go`, `resample.go`, `series_time.go`, `expr_over.go` | none | windows, buckets, calendar units, partitions | edges, days before 1970, spans of a zone, claims about order | a window holds the rows its definition says |
| Geometry, `geometry/`, `series_geom*.go`, `sjoin.go` | R-tree | predicates, overlay, projection, index search | floating point | index search equals a scan |
| Parquet, CSV IO | readers, row-group lists | chunk loops, row-group split and pruning | pruning by statistics | no row group lost, none read twice |
| GeoPackage, PostGIS IO | SQL transactions | layer writes, scans | failure in the middle of a write | all or nothing |
| Athena client, `contrib/athenaio` | table ledger, fallback latch, query state | submit, poll, verify, list, read, `Close` | timeouts, partial failure, calls that run at once with `Close` | no table is lost, an answer is what it claims to be, calls end, `Close` drops its own |

Operators interact by calls only: `Execute` pulls `Next` of the root, each
operator pulls its input, the scans' goroutines push into channels. `Close` runs
from the root to the leaves. Batches carry reference counts; whoever receives
one releases it.

Modelled: the two file scans, the parallel build of the streaming aggregate, the
claims about partitions and order, the merge join, plans and the optimizer, the
compiler with the operators it builds and the loop that runs them, the paths of the
group-by, series, expressions, frames and windows of the eager engine, and the Athena
client. Section 7 says what is left and why. `PROJECT.json` has the same list with
sources, the line behind every definition (`map`) and the hazards this code is
exposed to, each at its line.

## 2. Modules

| Module | Models | Uses |
|---|---|---|
| `BatchSource` | what a scan promises the operator above it | |
| `ParallelScan`, `MCParallelScan` | `parallelScanFileExec` and the chunk loop that feeds it | implements `BatchSource` |
| `FileScan` | `scanFileExec` | implements `BatchSource` |
| `GroupTable` | row to group key, the serial build as a reference | |
| `ParallelAggregate`, `MCParallelAggregate` | `buildParallel`, `dispatchBatch`, `workerConsume`, the merge | extends `GroupTable` |
| `PartitionClaims`, `MCPartitionClaims` | every plan node's rule for its output's claim, and the rows it must be true of | |
| `InnerJoin` | the pairs of an inner join in the order of the hash join | |
| `MergeJoin`, `MCMergeJoin` | `mergeJoinInner` | implements `InnerJoin` |
| `Frames` | the methods of `Frame` that plans call: filter, take, sort, group-by, joins, explode, renames | |
| `Plans` | expressions, plan nodes, the columns they declare, and what `CollectRaw` makes of them | extends `Frames` |
| `Optimizer`, `MCOptimizer` | the eight rules and the loop of `Optimize` | extends `Plans` |
| `Pipeline`, `MCPipeline` | `Compile`, `Execute`, `Collect` and `Next` and `Close` of the operators | extends `Plans`, whose `Collect` is its reference |
| `Bytes` | the order of byte strings | |
| `GroupByPaths`, `MCGroupByPaths` | the eager group-by's general, fast and aligned paths and the streaming accumulators | extends `Bytes` |
| `SeriesOps` | one expression node over series: arithmetic, comparison, logic, literals, on every fast path | |
| `Expressions` | casts, null checks, coalesce, if, shift, diff, timestamps, lists, reductions | extends `SeriesOps` |
| `FrameOps` | concatenation, set operations, distinct rows, counts, pivot, collected sets, explode, sort | extends `Expressions`, `Bytes` |
| `Windows` | calendar units and zones, rolling windows, resampling | extends `FrameOps` |
| `OverExpr` | window expressions, hashed, scanned or sliced | extends `FrameOps` |
| `Columns`, `MCColumns` | one request to the eager engine and its answer | extends `Windows`, `OverExpr` |
| `Athena`, `MCAthena` | the calls of one client, their tables, and `Close` | |
| `ParallelScanProofs`, `FileScanProofs`, `ParallelAggregateProofs`, `PartitionClaimsProofs`, `MergeJoinProofs`, `GroupByPathsProofs`, `AthenaProofs`, `AthenaFilesProofs` | theorems | extend the module they are about; `ParallelAggregateProofs` begins with the theorems about `GroupTable`, `AthenaFilesProofs` takes its first invariant from `AthenaProofs` |

An operator named for a mistake (`...Leaks`, `...Early`, `...Forgotten`), or under a
comment that begins with "Fault", stands before the definition it is a broken form
of. No specification uses it: with it in
that definition's place TLC finds the property named beside it in `PROJECT.json` violated.

### 2.1 ParallelScan (`exec_scan_parallel.go`)

| Variable | In the code |
|---|---|
| `wpc`, `made` | where each worker goroutine is in `startWorkers`' function literal and in the callback; batches its sub has produced |
| `queue`, `chanClosed` | `e.batches`, capacity `2 * len(subs)` |
| `errs` | `e.errs`, capacity `len(subs)` |
| `done` | `e.done`; closed by `Close` and by a worker that kept an error |
| `cpc`, `ctxDone` | where the consumer is in `Next` or `Close`, and its context |
| `got`, `dropped`, `terminal` | history: what `Next` returned, what was released, the first EOF or error |
| `panicked` | a second `close(done)`, which ends the process |

Each arm of a `select` is an action of its own (`Send`, `Abandon`; `NextBatch`,
`NextTerminal`, `NextCancelled`), enabled when the arm is ready, so TLC takes
every choice Go's runtime may take. `Close` is three steps, since its test of
`done`, its `close(done)` and its drain are not atomic. A `Close` that comes before the
first `Next` finds no closer goroutine and is `Hung`: its drain ranges over a channel
nobody will close. A sub that wraps the
callback's error with `%v` is in `HidesAbort`; for such a sub `errors.Is` does not
see `errScanClosed`, and the worker goes on to `reportAbort`.

### 2.2 FileScan (`exec_ops.go`, `scanFileExec`)

One producer, a channel of two, an error channel of one whose send blocks, and a
`done` only `Close` closes. Same conventions as `ParallelScan`.

### 2.3 ParallelAggregate (`exec_aggregate_parallel.go`)

The reader (`rpc`) checks the context, pulls, routes, takes one reference for each
recipient and sends; the workers (`wpc`) receive, check, consume and release;
`setErr` keeps the first error and cancels the derived context. `refs` is the
reference count of each batch, `groups` each worker's map. Accumulators are
abstracted to the sequence of the rows of their group: `first`, `last` and
`mode` depend on nothing more, the others on less. `KeyOf` says what each key mode
makes of a null.

### 2.4 PartitionClaims (`partition.go`, `plan.go`, `groupby_aligned.go`, `expr_over.go`)

A state is a frame (rows with cells, and the partition each row came from), its
schema and its claim. An action is a plan node: it changes the rows as the
operator does and the claim as the node's `PartitionMetadata` does.
`FastPathApplicable` and `ShapeFastPathApplicable` are the tests of the
consumers, `LinearGroups` and `HashGroups` what their two paths compute.
`Init` takes every claim that is true of its frame: a source that lies is not
the library's fault. `AssertClaim` on a frame without a claim does likewise.

Two things the rules do not notice, and the model does both. `WithColumn` (`plan.go:215`)
and a computed column of a `Select` (`partition.go:194`) keep a claim by name although the
column is another; `Scan` by two workers (`exec_scan_parallel.go:16`) keeps an order although
the rows are interleaved. `recomputed` and `interleaved` remember it as long as the
claim speaks of it, so that a property can say what is still true: `Sound` asks nothing
of an order from the first stale sort key on, nor of a partition by stale columns.

### 2.5 MergeJoin (`exec_join_merge.go`)

`left` and `right` are the keys of the rows; `i`, `j`, `iEnd`, `jEnd` the code's
variables, counted from 1; `a` and `b` the indices of the two nested loops. Each
iteration of each loop is an action. `Encoded` is the order in which
`keyOfAppend` lets `bytes.Compare` see an integer. `CanMergeJoin` is the planner's test,
of two claims; `TrueOf` is what a claim says of rows: buckets in any order, each sorted
by the key upwards or downwards, nulls at an end. The scan starts from any sides of
which there are true claims that pass the test (`MayBeMerged`), so also from those it
loses pairs of. `Rises` is the order it needs: every key with a partner stands in one run,
and no key with more bytes before it.

### 2.6 Frames, Plans, Optimizer (`optimize.go`, `plan.go`, `lazy.go`, `expr*.go`, eager engine)

`Collect` is the meaning of a plan: the frame the raw interpreter makes of it, or
`Failed`. `Schema` is what the plan says before anything runs. The optimizer's state
is the loop of `Optimize`: `plan` is the variable of that name, `rules` and `at` the
inner loop, `anyChanged` its flag, `passes` the count of the outer loop; `source`
keeps the plan it was given. `ApplyRule` is one call of `Apply`, which rewrites
the whole plan: bottom up by `WalkRewrite` (six rules), by `FoldConstants`, or top
down by `PushProjection`. Rules are pure and the loop has one goroutine, so there is
nothing to interleave; what is hard is that each rule is right only if the rules
before it were, in a pass nobody wrote a test for.

What a source lets the rules do is part of the scan: `projects`, and `sink`, which
tells SQL sources (`pgio`, `gpkgio`: one predicate, of which they take the conjuncts
that SQL can say) from `parquetio` (any predicate, as often as it is offered). A
parquet predicate drops whole row groups; the model drops every row it may, the
most that a source can do to a plan.

`Regular` is the set of plans the rules are right about. It is a finding of the
model rather than an assumption of the code, which rewrites every plan: with
any one of its conjuncts left out, TLC finds a query whose optimized result differs.

| Conjunct | A query it excludes | What the optimizer makes of it |
|---|---|---|
| `FiltersMoveSafely`, computed names | `Select((a+1) AS a).Filter(a < 2)` | the filter reads the old `a` (`optimizer_created`) |
| `FiltersMoveSafely`, window expressions | `SortBy(a).Filter(Shift(a) < 2)` | the filter runs before the sort and sees other neighbours |
| `FoldsSafely`, absorption | `WithColumn(x, f OR true)` where `f` is null | `true` instead of null |
| `FoldsSafely`, names | `Select(false OR f)` | the column is called `f` instead of `expr_0` |
| `ReadsWhatItNeeds`, `Over` | `Select(Sum(a) OVER b)` | `b` is not read, the query fails |
| `ReadsWhatItNeeds`, aggregation filters | `GroupBy(b).Agg(Sum(a) FILTER f)` | `f` is not read, the query fails |
| `ReadsWhatItNeeds`, renames | `Rename(a, x).Select(b)` | `a` is not read, the rename fails |
| `ReadsWhatItNeeds`, drops | `DropColumn(b).Select(1)` | only `b` is read and dropped; a frame without columns has no rows |
| `Unambiguous` | `Rename(a, b)` | two columns of one name; each rule and operator picks its own |

### 2.7 Pipeline (`compile.go`, `exec.go`, `exec_ops.go`, `exec_join.go`, `exec_aggregate.go`)

One goroutine runs a compiled plan, so an operator tree is a value and `Pull` a
function from it and the world to an answer and both as they are afterwards.
`world` holds what a test does not see: `open`, the sources whose producer runs,
`held`, the batches and frames nobody released, and `checks`, the looks at the
context left until it is cancelled, so that a run exists for a cancellation between
any two of them. `phase` is where `Collect` is: `compile`, `pull`, `concat`, and how it
ended; a plan that does not stream (`uncompiled`) falls back to `CollectRaw`.
`layout` says how each source hands out its rows and after how many batches it fails.
`Frames.Collect` is the reference: a value of the plan, known to nothing of batches.

### 2.8 GroupByPaths (`groupby*.go`, `exec_aggregate.go`)

`input` is the frame and `kind` the aggregate asked for; `at` counts the rows the
streaming build has read, `groups` is its table, `status` and `result` how it ended.
`Consume` is `consumeBatch` for a batch of any size, `Finish` the sort of the ids and
`buildResultBatch`. The eager paths (`Generic`, `Fast`, `Aligned`) are functions of the
frame, to which the result is compared. A text is its bytes and a key its
encoding, byte by byte, because what can go wrong is in the bytes: the tag of a type, the
separator 0x1F, the text that stands for null, the big-endian bytes of a negative
integer, a float cut to a multiple of 1e-9, or too large to be counted in them, when
`int64(v * 1e9)` is what the machine makes of it (`Saturates`: the nearest integer, as on
arm64, or else the smallest, as on amd64). `Meets` says what an aggregate is, and shares
nothing with the accumulators. A mean is counted in `1 / Unit`; `UnitAssumption` makes
`Unit` a multiple of the size of every group, so that the division of the code, exact but for
rounding, is exact here.

### 2.9 SeriesOps, Expressions, FrameOps, Windows, OverExpr, Columns (eager engine)

The operators are the functions of the code, one for each path it may take; `Columns`
is the loop around them: a request of `Tasks` is answered in one step, for the engine
keeps no state between requests. A series is a type and its chunks; chunks matter,
because which path runs, and what it forgets, depends on them. Integers wrap at `Word`
and `HalfWord` bits; a float counts quarters and keeps at most `Mantissa`, so integers
beyond it lose their low bits on the way through `float64` as they do beyond 2^53.
`Failed` is an error returned, `Panics` an index out of range, `Unspecified` a
conversion that Go leaves open. The properties do not repeat the paths: they say of an
answer, cell by cell, what it has to be.

Rows are told apart by the bytes of their key columns, joined as `composeCompositeKeyInto`
joins them (`RowKey`): a tag, the cell, the separator 0x1F. `Spelling` gives each text its
bytes, the separator and the bytes of a null among them, `KeyStep` the floats that one key
stands for. The definitions compare cells. Where two cells or rows that differ have one
key (`PlainKeys`, `PlainCounts`), the answer is not held to them: "numeric bit-equal values
collapse identically", as the comment of `NUnique` has it (`unique.go:167`), and so do some
that are not.

### 2.10 Athena (`contrib/athenaio`)

| Variable | In the code |
|---|---|
| `call` | where each call is (`pc`), its query, its attempt (Iceberg, then Hive), what it waited, read and claims |
| `ledger` | `Client.createdTables`, under the client's mutex |
| `hiveFallbackOnly` | `Client.hiveFallbackOnly` |
| `closer` | the running `Close`: tables still to drop, tables it failed on; files of a page that S3 did not delete (`passed`, behind the listing's token, and `kept`, of which nobody hears) |
| `queries`, `catalog`, `objects` | Athena, Glue and S3: external |
| `faults` | failed requests, failed queries and cancellations so far, at most `MaxFaults` |

Each request to a service is a step that may fail; between two steps of one call
every step of another, of `Close` and of Athena may come. A query ends when it likes
or never. A location is a sequence of tokens with "/" among them, so that one can be
the prefix of a sibling's, as strings are. A listing gives the files of a place in the
order of their names, which those of one bucket do not fix: any such order may come.

## 3. What the runs show

| Run | Question | Answer |
|---|---|---|
| `scan_parallel` | Two workers of three batches, both able to fail, one hiding the abort, a consumer that cancels and closes whenever it likes | 122,733 states. No batch leaks or is delivered twice, EOF means complete, `Next` returns, `Close` returns if a `Next` came before and hangs for ever if none did, and the scan implements `BatchSource` (each worker's batches in order among them) |
| `scan_hidden_abort` | Can `done` be closed twice? | Yes: after `Close`, a worker whose sub hides the abort closes it again and the process panics |
| `scan_file` | Five batches through a channel of two, with failures, cancellation, early `Close` | 1,128 states. Nothing stays, calls return, implements `BatchSource` (file order and no lost error among it) |
| `aggregate_parallel` | Two workers with inboxes of one, failures of the upstream, of routing and of updates, a cancelling caller | 28,536 states. Reference counts match holders, no batch retained, a success equals the serial build, the root cause is returned, the build returns |
| `claims` | Frames of at most three rows, every plan, columns computed anew and scans by two workers included | 29,361 states up to symmetry. Claims stay true, fast paths find the hash path's groups, windows sliced in place are in order, but for what rests on a recomputed column or on the order of interleaved rows |
| `merge_join` | Every two sides of up to three rows that `canMergeJoin` lets through: one bucket or two, ascending or descending, keys of both signs, nulls | 55,192 states. Ends; finds every pair once, in the order of the hash join, where both sides rise to every key with a partner |
| `optimizer` | Every query of two operations (three of the core ones) over a table with nulls, and of one over two other kinds of source, with the rules in the code's order and in the reverse one | 234,371 states. A `Regular` plan keeps its result at every step; every plan tells its columns; predicates reach the sources that take them; a source that can be told its columns reads those its query wants and no other, and all of them only where the query wants none |
| `optimizer_created` | Is a filter moved below a `Select` only when that is safe? | No: a computed column may hide the one the filter then reads |
| `pipeline` | Every operation over a table read in every way and cut into batches in several, chains of two over batches of one row, failing sources, contexts cancelled between any two looks | 6,904 states. `Collect` returns the rows of `CollectRaw` in their order, fails only for a cause, leaves no producer and no batch |
| `groupby` | Keys that are null, empty, negative, fractional, huge or hold the separator; every kind; batches of one row and of three | 64,856 states. The paths agree on the groups and on their order, and an aggregate is what its name says |
| `columns` | 54,271 requests: every operation over columns of every type in one chunk and in two | 108,542 states. Each cell of an answer is what the operation is defined to give, of the type that was told; a window, bucket or partition holds its rows |
| `athena` | Twelve pairs of calls in workgroups of both engines, an early `Close`, and one failure anywhere, a file that S3 does not delete among them | 177,227 states. No table is lost, an answer is what it claims, calls fail for a cause and end, `Close` drops what it took and nothing else, but for files S3 keeps |

The two runs that find a violation each refute a sentence of the repository;
`findings` in `PROJECT.json` quotes it.

### Further configurations

These configurations stand beside the runs. Each refutes the one property it names,
and shows why a run or a theorem leaves something out.

| Configuration | Property refuted | What it shows |
|---|---|---|
| `aggregate_late_cancel` | `CompleteOrError` | a caller's cancellation makes workers skip queued batches; the reader may have ended before it sees it, and the build then returns an incomplete table without an error |
| `aggregate_null_keys` | `EagerNullSemantics` | the integer key mode drops the rows whose key is null, the eager `GroupBy` keeps them; with `KeyMode = "string1"`, `StringKeys`, `StringHash` and `StringInputs` a null becomes the empty string |
| `claims_unconditional` | `FastPathExact` | each exception of `FastPathGroups` alone makes the linear scan split groups: a key column computed anew (`plan.go:215`, `partition.go:194`), and the batches of a source interleaved by two workers (`exec_scan_parallel.go:16`) |
| `merge_buckets` | `FindsEveryPairOfAll` | of sides that `canMergeJoin` lets through the scan loses pairs: with two buckets at their boundary, of a descending side, and of keys below zero, whose bytes sort after the others. The comments say that a merge scan matches every pair (`exec_join_merge.go:16`, `:119`) and that it works in either direction (`:268`) |
| `scan_close_first` | `CloseAlwaysReturns` | a `Close` before the first `Next` hangs, though `exec.go:40` and `exec_scan_parallel.go:43` allow the call |
| `pipeline_shift` | `ShiftedByOneRow` | a `Shift` outside `Over` is evaluated batch by batch: the first row of every batch is null (`expr_shift.go:10-18` says row i takes the value of row i - 1) |
| `athena_forced` | `ForcedFormatKept` | a caller who insists on Iceberg gets a Hive table once another call has set the latch (`unload.go:71`), which the words "does not exist" in its own query's failure do |

With two subs that fail, `scan_hidden_abort` shows each of them closing `done`. Invariants that the modules state, that hold under the
same configurations, and that the runs do not list because another of theirs implies
them or a proof covers them: the type invariants, `DeliveredInOrder`, `InFileOrder`,
`FileScan!OneOwner`, `ErrorBeforeEOF`, `ShardsDisjoint`, `PairsAreMatches` and `Settles`.

### What the models say of the code

Behaviour that the models reproduce and the properties name as their exceptions:

- **Types depend on chunks and widths.** `int64` in two chunks, and `int32` with
  `int32`, leave the fast paths and give `float64`; `TypeTold` speaks of the others
  (`Plain`). Sums beyond 2^53 lose their low bits on that way.
- **First chunk only.** Text and boolean kernels read the first chunk of a column
  (`expr_eval.go:444`), so the answer to a column of two chunks is too short
  (`ReadsAllChunks`). `ListUnion` and `SortBy` refuse such columns instead.
- **Over.** An aggregate `Mode` over an aligned frame fails for all types but
  `float64` (`expr_over.go:669-676`), whereas the hashed path answers; a key column that
  cannot be encoded puts all rows into one partition without an error
  (`expr_over.go:547`).
- **Claims.** `WithColumn` (`plan.go:215`) and a computed column of a `Select`
  (`partition.go:194`) keep a claim that names the column they replace, and a scan by
  several workers (`exec_scan_parallel.go:16`) keeps the enforced order of its source. The linear
  scan may then split groups, and `Over` slice rows in an order they no longer have:
  `ClaimSound`, `FastPathGroups` and `WindowOrder` say what is left, `claims_unconditional`
  shows what is not.
- **Merge join.** `canMergeJoin` (`exec_join_merge.go:244-277`) compares the claims and the
  name of the first sort key. It asks neither how many buckets there are, nor for a
  direction, nor for the sign of the keys; of sides that do not rise to every key with a
  partner (`PartnersRise`) the scan loses pairs, though the comments promise them
  (`:16-20`, `:119`, `:267-271`).
- **Parallel scan.** A `Close` before the first `Next` never returns: the channel it drains is
  closed by a goroutine that only `Next` starts (`exec_scan_parallel.go:166`).
- **Optimizer.** A filter that has passed a `Select` that hides its column reads the hidden
  one; joins and assertions stop the projection of columns (`ScanIsNarrow`).
- **Windows.** `RollingBy` keeps the row exactly one period old (`rolling.go:278`), where
  the comment calls the left edge exclusive (`rolling.go:16-18`), and counts rows without a time
  that stand between two of the window, where the comment speaks of the rows whose time is
  within it. The property fixes neither edge nor those rows (`TrailingRows`). A first row without a
  time is taken for one of 1970, and the rows after it that are earlier are refused as not in
  order (`rolling.go:270`, `StartsUndated`). Calendar truncation before 1970 and across a change of
  offset takes the first instant of the unit by the wall clock.
- **Resample** gives nulls for `First` and `Last` of types that its gather does
  not know, and panics on distinct counts and on dates.
- **Set operations** of timestamps and unsigned integers fail when the rows are
  gathered. **SortBy** in descending order does not put NaN where its doc says
  (`sort.go:14-15`, `144-157`).
- **Group keys.** A text that holds 0x1F can make two keys of several columns one, in
  `GroupBy` as in set operations (`setops.go:174`, `187`), `Unique` and pivots; a float's key is
  cut to 1e-9 on one path and not on the other, and floats whose number of 1e-9 exceeds an
  `int64` share one (`groupby.go:804`) (`PlainKeys`). So does `NUnique` count values as one that are
  not bit-equal, against its comment (`unique.go:167-168`).
- **Compile** of a join whose right side fails leaves the left side's operators open
  (`compile.go:195`). The aggregate, the right side of a right or full join and the
  left side of a failed merge join keep the frames they wrapped (`KeepsFrames`).
- **Athena.** The words that make a call fall back to Hive can come from the query
  itself; a query that outlives its deadline may still make its table, which nobody
  registers; a table is in the ledger only after its query was seen to succeed;
  files of engine version 2 get their bucket's slot by their place in the listing;
  `deletePrefix` takes the location as given, so that without a slash at its end it
  reaches a sibling's files, and does not read the errors of single files in the answer
  to `DeleteObjects` (`client.go:260`), so that such files stay and nobody hears of it
  (`kept`). The names of engine version 2 give a file its slot by place, where the comments
  promise its bucket (`unload.go:686-699`, `810-813`, `958`). Two comments are out of date:
  `client.go:169-171` and `athenaio.go:217-221` say that `CleanupAll` is not implemented, which
  `client.go:206-225` does.

### Bounds, and why they are enough

- Scans: three batches of two workers make six, more than the channel's four, so
  workers block; `errs` holds two. Five batches exceed the channel of two, the
  one in hand and the one being read.
- Aggregate: two inputs of four batches hold an empty batch, a null key, groups in
  several batches and more batches for one worker than its inbox holds. The
  inbox is one instead of four, which only makes it fill sooner.
- Claims: three rows are the fewest that can put a stranger between two equal
  rows, two partitions the fewest that can part them, two of three columns allow
  a partition column and a sort column, a projection, a rename and a recomputed
  column. Every sound pair of a frame and a claim is an initial state, with nothing
  recomputed and no rows interleaved; what plans add to that history is reached from there, in
  plans of any length. Descending order is left out (`Directions = {FALSE}`): over two
  values it mirrors the ascending one, nothing in a claim compares directions but for
  equality, and the theorems cover both.
- Merge join: three rows make a run of two against one, against two, or with a row before
  or after; the three keys have one of each sign, nulls stand at either end. Two buckets
  are the fewest with a boundary, two columns and two hash tags the fewest that let the
  planner's test refuse.
- Optimizer: three rows, with a null in each column but the key, a list column
  with a null and an empty list, and a second table with a doubled key. Two operations
  put any rule's pattern (a filter above something) over a source; three let a rewrite
  make the pattern of the next. `MaxOptimizeIters` is 5 instead of 32: `Settles`, which
  holds under the same configuration, says that no plan changes in the fifth pass but
  those of a source that never settles. Of the 6,643 queries 3,432 can be executed and
  are `Regular`; the others still run every rule and are held to the properties that
  do not assume it.
- Pipeline: `BatchRows` is 2 and the table has four rows, so one operator sees
  several batches, one that a filter empties, and cuts that come from a column's
  chunks and from the row count. Sources fail at their first batch or never; the
  context is cancelled at each look there is, or never.
- Group-by: three rows let two groups alternate, four let one group fill two
  batches and leave a rest. Keys hold the separator byte, the bytes of the null
  sentinel, both signs, both sides of the rounding of a float, and floats too large to be
  counted in 1e-9 at either end. `Unit` = 12 is the
  least multiple of the sizes 1 to 4 a group can have.
- Columns: words of 6 and 4 bits overflow within the listed values, and a mantissa of
  15 (quarters) is less than a word, so the detour through floats is seen to lose bits.
  A day has 40 nanoseconds and months begin at days -31, 0 and 31: what is tested is
  which side of an edge a row falls on, for days on both sides of the epoch. `KeyStep` = 2
  lets two floats share a key, and a word of 6 bits puts floats out of its range; the
  texts hold the separator and the bytes of a null. Two
  chunks are the fewest that make any path differ, three and four rows the fewest
  with a repeat, a null and a stranger between.
- Athena: pairs of calls show every interleaving of two; a third would only repeat
  one of them. `MaxFaults` = 1 puts one failure at every request, or one file S3 does not delete
  on a page; two in one call end it at the first. `MaxPollDuration` = 1 with `PollInterval` = 1 and `PollMax` = 2 gives
  polls before, at and after the deadline.

### Fairness

The scans and the aggregate assume weak fairness of each goroutine: the Go
scheduler runs a goroutine that can run, and a read, a send on a channel with
room and a receive of a closed channel end. The consumer is fair only inside a
call it has made; it need not call anything, and `Cancel` is never fair. A reader
that reads for ever is thus excluded: the readers of files are finite, and
`InputFails` or `CanFail` covers those that break. `MergeJoin` is one loop of one
goroutine. Each call of `Athena` is fair (`WF_vars(Step(c))`: its goroutine runs, a
request to a service answers or fails, as the client's timeouts and the context make
it); Athena's own progress on a query, cancellation and `Close` are not, so that
`CallsEnd` rests on the deadline alone. The other modules have no liveness property:
`Pipeline`, `GroupByPaths` and `Columns` are loops of one goroutine over finite input,
which end by their shape, and `PartitionClaims` goes on as long as the caller adds nodes.

`CHECK_DEADLOCK FALSE` is set in the runs that stop when their one call has been
answered: merge, optimizer, pipeline, group-by, columns, and Athena, whose calls are
each made once. In the others the final states have an explicit stuttering
step (`Over`, `Returned`), so a real deadlock is an error.

## 4. What is proved

tlapm checks every proof; nothing is taken on trust but the modules' named
`ASSUME`s, which TLC evaluates in the runs.

**ParallelScan**, any finite set of workers, any number of batches, any set of
failing or hiding subs: `TypeCorrect`, `EOFIsComplete`, `CloseReleasesAll`,
`ScanIsBatchSource`, `EachSubInOrder`, `EveryBatchHasOneOwner`. The inductive invariant
`IInv` stands in the model and adds
what the code never writes down: where a batch is (`NothingLost`), that the
channel keeps each worker's order behind what was delivered (`ChannelOrder`),
and why anything ended (`DropReason`, `DoneReason`, `WorkerReason`,
`TerminalReason`). `CompleteAtEOF` is not inductive without the last: that
the channel was closed with `errs` empty excludes a worker that stopped early only
because every early stop leaves an error or needs `done`, and `done` in turn an
error or a `Close`. `OneOwner` needs a second invariant, `OInv`, beside it: what was
released is nowhere else (`OwnersApart`), a worker that gave a batch up produces no
more (`AbandonedLast`), and `DeliveredInOrder`.

**FileScan**, a file of any number of batches: `TypeCorrect`, `BatchesInFileOrder`,
`EOFIsWholeFile`, `CloseReleasesAll`, `EveryBatchHasOneOwner`, `ScanIsBatchSource`. With
one producer the line is the file itself: `IInv` says that what was delivered, the channel
and the batch in hand are consecutive stretches of it (`InLine`), and when the producer
may have stopped short of its end.

**ParallelAggregate**, any number of workers, any input, any key mode and routing that
`AggregateAssumption` allows: `TypeCorrect`, `CountsAreHolders`, `BuildReleasesAll`,
`WorkersShareNoKey`, `ErrorsAreRootCauses`, `ParallelIsSerial`. `RefsMatchHolders` is
inductive with the types and `BatchOrder` (no batch is in an inbox twice: batches come in
the order they were read). `MatchesSerial` needs more: `IInv` says of each worker
that its group of a key is the serial group after the batches it has consumed, and that its
part of every later one is still to come (`Progress`). The batches between two that a
worker is sent hold none of its keys and so change none of its groups (`SerialSkip`,
by induction over the batches). `ErrorReason` says why a worker may have
skipped a batch: an error was kept, or the caller cancelled, which is the theorem's
exception. What the recursive function `SerialTables` gives is thus proved, not compared.

**PartitionClaims**, any columns, integer values, partitions and hash tags, frames
of any bounded length: `ClaimTypes`, `ClaimsAreSound`, `FastPathsAreExact`,
`WindowsAreOrdered`, of every plan and without an assumption. What they leave out is in the
properties and depends on the plan's history: columns computed anew and rows
interleaved; section 3 shows that neither exception can go. `ClaimSound` with `TypeOK` is
inductive, since it says of a claim with stale keys what its fresh prefix still means
(`FreshLengths`); that each rule leaves the history as true as it was is `HistoryIsSound`.
The work is in the operators, of which `Join`, `Explode`, `Filter` and the
limits take rows by a monotone map, `Sort` makes one partition, and `Rename`,
`Project` and `Drop` change the names the claim speaks of. That equal rows have
nothing between them follows from an enforced order that begins with the key.

**MergeJoin**, sides of any length. `PointersStayInside` and `OnlyMatches` need no
order at all: with `MInv` a run is a block of equal keys on both sides and what has
been emitted of it lies before `<<a, b>>`. `RisingIsEnough` and `RisingGivesTheJoin` are
the run's properties, of all sides that `canMergeJoin` lets through and that rise to every key
with a partner (`PartnersRise`): `Together` says that of every matching pair the scan has
passed either both rows or neither, `PassedHasNoPartner` why a row may be left behind, and
`AllFound` that it has emitted those it passed. `AscendingSidesFindEveryPair` gives the case one
would expect: sides in one ascending order of keys that are not negative rise. Together with
`merge_buckets` this says what is missing from the planner's test.

**Athena**, any set of calls, any requests of them, any catalog and files of others,
any polling schedule, any number of failures and of calls of `Close`. `TypeCorrect`,
`NoTableIsLost`, `OthersTablesAreKept` and `EachFileHasItsSlot` rest on `IInv`: what a call
knows of its query (`Issued`), what a query was asked for and where it wrote (`Asked`), that
a success is in the ledger but while it is being verified (`Accounted`), that an
entry is a table some query made (`Backed`), which is why `Close` never drops another's, and
where `Close` is, and that the files of the page it is at that S3 kept are among all it
kept (`ClosePhase`). `CloseDropsWhatItTook` adds `KInv`: what was taken is gone, is
to be dropped, or was reported (`Dropped`), but for files S3 kept. It holds only for callers who keep their
names apart (`NamesApart`): composed tables have a name and a directory of their
own, but `RawCTAS` takes both from its caller, and a table dropped for one call may be
the one another call has just made.

`AnswersAreWhatTheyClaim` and `FailuresHaveACause` (in `AthenaFilesProofs`) need to know
where the files of a call come from, and why. `FilesInv`, beside `KInv`, says of the
services that each file and each table is of others or of a query that succeeded, and
what it wrote is what it was asked for in the format Glue names (`Origins`); of a call that
its query is phrased as its request (`CheckedOf`), that it looks where that table is
(`LocatedOf`), that what it has read is a beginning of the listing, each file of its own
(`ReadingOf`), and why it failed, in words that stay true (`CauseOf`). The rest is about
names: a listing finds no neighbour's files because a place ends in a slash (`OwnListing`,
`OthersListing`); no two files of a table fall into one slot (`ReadsApart`), for
engine v2, whose names begin with a date, because that number is above any bucket's and
the files are no more than the buckets. Besides `NamesApart` they assume `PlacesApart`
(what `RawCTAS` is told to clean up ends in a slash, tables of others lie elsewhere) and
`OthersAreTrue` (Glue, and a caller who opens a table with a claim of his own, say what is
true of it; at most 20,240,101 buckets). The code checks none of the three: without
`OthersAreTrue` an answer repeats what it was told. TLC evaluates all three of every
scenario of the run.

**GroupByPaths**, any frame of any number of rows and key columns, all twelve kinds of
aggregate, any sizes of batches: `BatchesDoNotMatter`, `EveryPathAgrees`, `OneOrder`,
`EveryAggregateIsDefined`. The last three state the run's invariants; they rest on three
assumptions, `InputsAssumption` (a column holds values of its type, integers of the
model's two bytes where the code has eight and floats of any size, at least one key column,
columns of equal length), `MachineAssumption` (a float out of range becomes what one of two kinds of
machine makes of it) and `UnitAssumption`, and keep the exceptions that
the invariants name: `PlainKeys`, `NullsKept`, `Ordered`, `Contiguous`. The inductive
invariant is `BatchFree`: the table after `at` rows is `ConsumeRows` of those rows, one
after another, whatever the cuts were, and a build that failed met a row that cannot be
read. All else is a fact about that table and about the eager paths, for one frame:

- *Groups.* The groups of a path are `Faithful` when each distinct key has exactly one,
  with its rows in the order they were read; two `Faithful` answers are the same rows. A
  path is so once its ids agree as the keys do (`GroupedBy`), which is the code's
  encoding of keys: injective on plain cells, a column at a time, because the bytes of
  a number are of one length and a text ends at the first separator. The aligned
  scan cuts where an id differs from the one before, and needs `Contiguous`.
- *Accumulators.* `Built` says of the table after m rows that each group's
  accumulator holds what one pass over the group's values would (`Kept`): for `nunique`
  and `mode` the distinct keys, their first values and their counts (`Tallied`), for
  `median` the values themselves, for `var` the mean and the squared deviations of
  `OnePass`. Each eager aggregate is then shown to be read off the same (`AggIs`).
- *Order.* Both sides sort ids, and the order of encoded keys is that of their
  cells when no cell is null or negative (`OrderedFrame`); of a negative integer the first
  byte is above any positive one's, which is the exception.
- *Definitions.* `Meant` proves of each kind what `Meets` states: the middle of the
  sorted values has at most half on either side, the winner of the counts is the first of
  the most frequent values, and Welford's recurrence gives exactly the sum of squares less
  the square of the sum (`WelfordExact`, with every division exact).

Induction over rows goes through `SetInduction` and `SeqInduct`, which speak of a set in
place of a predicate and so need no operator as a parameter; each recursive
function is first shown to unfold (`Consumes`, `Unfolds`, `Totals`), then used by its
two equations alone.

## 5. What is only model-checked

Liveness (`NextReturnsEventually`, `CloseReturnsEventually`, `BuildReturns`,
`Terminates`, `CallsEnd`), which needs fairness and `ENABLED`; the properties of
`Optimizer` and `Pipeline`, since plans, expressions and operators are trees and what is
said of them is recursive, in operators the provers cannot reach; and those of `Columns`,
whose kernels take `&`, `|` and `^` from `Bitwise`, which is recursive too. An induction over the batches of an
input, the rows of a frame or the bytes of a key is within reach, and done, where what
is computed is a recursive function of a number.

## 6. What is abstracted

A batch is its number, a row its key or its cells over small integers, an error its
cause. Arrow's buffers are the reference counts of batches; `Pipeline` adds the frames
wrapped around them. Cells of `PartitionClaims` are never null. `Frames` knows neither
types nor names of types, and `Equivalent` compares columns by name: a narrowed source
returns them in alphabetical order. Literals fold through `float64` in the code; the
optimizer's are integers. The constructor's branch for no subs is left out of
`ParallelScan`: `compileScanFile` never takes it. In `GroupByPaths` sums of floats are exact,
and variances scaled integers; in `SeriesOps` a float is a number of quarters and a
text a number that stands for it. SQL text is what it asks for, a page of a listing
the listing, a table its name and its location.

Not modelled, and why:

- **Floating-point geometry** (`geometry/`, `series_geom*.go`, `sjoin.go`, the haversine
  distance): predicates, overlay, buffers, projections and distances are arithmetic over
  reals, in loops with nothing to interleave. TLC has no reals, and over small
  integers the hard cases, which are those of rounding, do not occur.
- **Formats** (shapefile, KML, GeoJSON, WKB, WKT, the parsing of CSV and Parquet,
  reflection over structs in `from_structs.go`): conversions of bytes, checked best by
  examples. Their chunk loops, which interact with the executor, are in the scans.
- **GeoPackage and PostGIS**: a layer is written in the statements of a driver, its
  failure is the transaction's; which predicates their scans take is in `Optimizer`.
- **Row-group pruning** (`predicate_stats.go`, `parquetio/predicate_pushdown.go`) and the
  split of row groups over workers: the optimizer's model lets a source drop all it may;
  that the statistics allow it is left for later.
- **R-tree**: a sequential index over floating-point boxes, left for later.
- **`StatsRegistry`** of the Athena client: keyed by the address of a plan, which
  outlives it; the garbage collector's moments are outside the model.
- **Printing**: `Explain`, `ExplainPhysical`, `String` of frames and expressions.

## 7. Plan

Done: scans, aggregate, claims, merge join, plans and optimizer, pipeline, group-by,
series, expressions, frames and windows, the Athena client. Left, in this order:

1. **PredicateStats** (`predicate_stats.go`, `parquetio/`): a three-valued evaluation over
   ranges that must never drop a row group with a matching row, and the split of row
   groups over workers; no row group lost or read twice.
2. **Plans**: casts, `if`, `coalesce`, set operations and `OverOrdered` as expressions and
   nodes of a plan; as operations on columns they are in `Columns`.
3. **GpkgWrite** (`gpkgio/write.go`, `pgio`): a failure in the middle of a layer.
4. **RTree** (`geometry/rtree.go`, `sjoin.go`): search of the index against a scan, over
   boxes of integers.

Abstract specifications: `BatchSource`, `InnerJoin` and the value of a plan are there; an
all-or-nothing store for the writers and a table ledger in which every table is dropped
once are worth stating.

Theorems worth proving next: of `Pipeline` that nothing is left, once its control stands
apart from the recursive evaluation of plans; and of `Columns` that rolling windows and
the hashed and the scanned `Over` hold the rows they should, once the three bit operators
of `SeriesOps` stand in a module of their own.
