--------------------------- MODULE ParallelAggregate ---------------------------
(***************************************************************************)
(* streamingAggregateExec.buildParallel                                    *)
(* (src/exec_aggregate_parallel.go): one reader pulls batches and routes   *)
(* their rows by key hash to the bounded inboxes of the workers; each      *)
(* worker builds the groups of its own keys; the maps are united at the    *)
(* end.  The state is the goroutines' program counters, the inboxes, the   *)
(* reference counts of the batches, the two contexts and the groups.       *)
(***************************************************************************)
EXTENDS Integers, Sequences, FiniteSets, GroupTable

CONSTANTS Keys,       \* the key values that occur
          Hash,       \* the worker a group key hashes to
          NumWorkers, \* e.workers
          ChanBuf,    \* capacity of an inbox, 4 in the code
          KeyMode,    \* e.keyMode
          Inputs,     \* the inputs considered, sequences of batches
          BadRouting, \* batches dispatchBatch may fail on
          BadUpdate,  \* batches workerConsume may fail on
          InputFails  \* may the upstream operator fail?

Workers == 0..(NumWorkers - 1)
GroupKeys == Keys \union {EmptyString}

ASSUME AggregateAssumption ==
    /\ NumWorkers \in Nat /\ NumWorkers >= 2
    /\ ChanBuf \in Nat \ {0}
    /\ KeyMode \in KeyModes
    /\ Hash \in [GroupKeys -> Workers]
    /\ \A input \in Inputs : input \in Seq(Seq(Keys))
    /\ BadRouting \subseteq Nat /\ BadUpdate \subseteq Nat
    /\ InputFails \in BOOLEAN

VARIABLES input, pos,          \* the upstream batches, and how many were pulled
          rpc, cur, pending,   \* the reader: where, its batch, workers left to send it to
          readErr,             \* what the reader loop returned
          inbox, inboxClosed,  \* the workers' channels, of batch numbers
          wpc, msg,            \* the workers: where, the message in hand
          groups,              \* each worker's groups: key -> its rows
          refs,                \* reference counts of the batches
          parentDone, wDone,   \* cancellation of ctx, and of the derived wctx by setErr
          firstErr,            \* errOnce's error
          result, table        \* what buildParallel returned, and e.groups

readerVars == <<pos, rpc, cur, pending, readErr>>
workerVars == <<wpc, msg, groups>>
vars == <<input, readerVars, inbox, inboxClosed, workerVars, refs,
          parentDone, wDone, firstErr, result, table>>

Batches == 1..Len(input)
NoGroups == [k \in GroupKeys |-> <<>>]
Cancelled == parentDone \/ wDone   \* wctx.Err() != nil

\* The workers dispatchBatch sends batch b to: those that own one of its rows.
Recipients(b) ==
    {Hash[k] : k \in UNION {KeyOf(KeyMode, input[b][i]) : i \in 1..Len(input[b])}}

\* Mutation: later batches go in front.
ConsumedInFront(w, b, ks) ==
    [k \in GroupKeys |->
        IF Hash[k] = w /\ k \in ks
        THEN RowsOf(KeyMode, input, b, k) \o groups[w][k]
        ELSE groups[w][k]]

\* The groups of worker w after consuming its rows of batch b.
Consumed(w, b, ks) ==
    [k \in GroupKeys |->
        IF Hash[k] = w /\ k \in ks
        THEN groups[w][k] \o RowsOf(KeyMode, input, b, k)
        ELSE groups[w][k]]

\* Mutation: the last error wins.
SetErrLast(e) == firstErr' = e /\ wDone' = TRUE

\* setErr: the first error is kept, and cancels wctx.
SetErr(e) ==
    /\ firstErr' = IF firstErr = "none" THEN e ELSE firstErr
    /\ wDone' = TRUE

Init ==
    /\ input \in Inputs /\ pos = 0
    /\ rpc = "check" /\ cur = 0 /\ pending = {} /\ readErr = "none"
    /\ inbox = [w \in Workers |-> <<>>] /\ inboxClosed = FALSE
    /\ wpc = [w \in Workers |-> "recv"] /\ msg = [w \in Workers |-> 0]
    /\ groups = [w \in Workers |-> NoGroups]
    /\ refs = [b \in Batches |-> 0]
    /\ parentDone = FALSE /\ wDone = FALSE /\ firstErr = "none"
    /\ result = "running" /\ table = NoGroups

-----------------------------------------------------------------------------
(* The reader. *)

\* Mutation: the loop continues under a cancelled context.
CheckContinues ==
    /\ rpc = "check"
    /\ rpc' = IF Cancelled THEN "check" ELSE "pull"
    /\ UNCHANGED <<input, pos, cur, pending, readErr, inbox, inboxClosed, workerVars,
                   refs, parentDone, wDone, firstErr, result, table>>

\* The loop's check of wctx.
Check ==
    /\ rpc = "check"
    /\ IF Cancelled THEN rpc' = "closing" /\ readErr' = "ctx"
                    ELSE rpc' = "pull" /\ UNCHANGED readErr
    /\ UNCHANGED <<input, pos, cur, pending, inbox, inboxClosed, workerVars, refs,
                   parentDone, wDone, firstErr, result, table>>

\* input.Next returns a batch; an empty one is released and skipped, and
\* dispatchBatch computes the recipients of any other.
Pull ==
    /\ rpc = "pull" /\ pos < Len(input)
    /\ pos' = pos + 1
    /\ IF input[pos + 1] = <<>>
       THEN rpc' = "check" /\ UNCHANGED <<cur, pending, refs>>
       ELSE /\ rpc' = "send" /\ cur' = pos + 1
            /\ pending' = Recipients(pos + 1)
            /\ refs' = [refs EXCEPT ![pos + 1] = 1]
    /\ UNCHANGED readErr
    /\ UNCHANGED <<input, readErr, inbox, inboxClosed, workerVars, parentDone, wDone,
                   firstErr, result, table>>

\* dispatchBatch cannot resolve the keys of the batch it was given: the
\* batch is released and the reader loop returns.
RoutingFails ==
    /\ rpc = "pull" /\ pos < Len(input)
    /\ pos + 1 \in BadRouting /\ input[pos + 1] # <<>>
    /\ pos' = pos + 1
    /\ rpc' = "closing" /\ readErr' = "routing"
    /\ UNCHANGED <<input, cur, pending, inbox, inboxClosed, workerVars, refs,
                   parentDone, wDone, firstErr, result, table>>

\* input.Next returns io.EOF, its own error, or that of a cancelled wctx.
PullEnds ==
    /\ rpc = "pull"
    /\ \/ pos = Len(input) /\ UNCHANGED readErr
       \/ InputFails /\ readErr' = "input"
       \/ Cancelled /\ readErr' = "ctx"
    /\ rpc' = "closing"
    /\ UNCHANGED <<input, pos, cur, pending, inbox, inboxClosed, workerVars, refs,
                   parentDone, wDone, firstErr, result, table>>

\* The next recipient, in worker order: its reference is taken first.
NextRecipient == CHOOSE w \in pending : \A v \in pending : w <= v

Retain ==
    /\ rpc = "send" /\ pending # {}
    /\ refs' = [refs EXCEPT ![cur] = @ + 1]
    /\ rpc' = "select"
    /\ UNCHANGED <<input, pos, cur, pending, readErr, inbox, inboxClosed, workerVars,
                   parentDone, wDone, firstErr, result, table>>

\* select: the inbox has room.
Send ==
    /\ rpc = "select" /\ Len(inbox[NextRecipient]) < ChanBuf
    /\ inbox' = [inbox EXCEPT ![NextRecipient] = Append(@, cur)]
    /\ pending' = pending \ {NextRecipient}
    /\ rpc' = "send"
    /\ UNCHANGED <<input, pos, cur, readErr, inboxClosed, workerVars, refs,
                   parentDone, wDone, firstErr, result, table>>

\* Mutation: only one of the two references is released.
SendCancelledLeaks ==
    /\ rpc = "select" /\ Cancelled
    /\ refs' = [refs EXCEPT ![cur] = @ - 1]
    /\ cur' = 0 /\ pending' = {}
    /\ readErr' = "ctx"
    /\ rpc' = "closing"
    /\ UNCHANGED <<input, pos, inbox, inboxClosed, workerVars, parentDone, wDone,
                   firstErr, result, table>>

\* select: wctx is done.  The reference just taken and the reader's own are
\* released, and the reader loop returns.
SendCancelled ==
    /\ rpc = "select" /\ Cancelled
    /\ refs' = [refs EXCEPT ![cur] = @ - 2]
    /\ cur' = 0 /\ pending' = {}
    /\ readErr' = "ctx"
    /\ rpc' = "closing"
    /\ UNCHANGED <<input, pos, inbox, inboxClosed, workerVars, parentDone, wDone,
                   firstErr, result, table>>

\* Every recipient has the batch: the reader drops its own reference.
Dispatched ==
    /\ rpc = "send" /\ pending = {}
    /\ refs' = [refs EXCEPT ![cur] = @ - 1]
    /\ cur' = 0
    /\ rpc' = "check"
    /\ UNCHANGED <<input, pos, pending, readErr, inbox, inboxClosed, workerVars,
                   parentDone, wDone, firstErr, result, table>>

\* The reader loop's deferred close of the inboxes.
CloseInboxes ==
    /\ rpc = "closing"
    /\ inboxClosed' = TRUE
    /\ rpc' = "setErr"
    /\ UNCHANGED <<input, pos, cur, pending, readErr, inbox, workerVars, refs,
                   parentDone, wDone, firstErr, result, table>>

\* if readErr != nil { setErr(readErr) }
SetReadErr ==
    /\ rpc = "setErr"
    /\ IF readErr # "none" THEN SetErr(readErr) ELSE UNCHANGED <<firstErr, wDone>>
    /\ rpc' = "wait"
    /\ UNCHANGED <<input, pos, cur, pending, readErr, inbox, inboxClosed, workerVars,
                   refs, parentDone, result, table>>

\* wg.Wait, then the error or the union of the workers' maps; the deferred
\* cancel ends wctx.
Merge ==
    /\ rpc = "wait" /\ \A w \in Workers : wpc[w] = "exit"
    /\ IF firstErr = "none"
       THEN /\ result' = "ok"
            /\ table' = [k \in GroupKeys |->
                            LET having == {w \in Workers : groups[w][k] # <<>>}
                            IN  IF having = {} THEN <<>>
                                ELSE groups[CHOOSE w \in having :
                                              \A v \in having : v <= w][k]]
       ELSE result' = "err" /\ UNCHANGED table
    /\ wDone' = TRUE
    /\ rpc' = "returned"
    /\ UNCHANGED <<input, pos, cur, pending, readErr, inbox, inboxClosed, workerVars,
                   refs, parentDone, firstErr>>

Reader ==
    \/ Check \/ Pull \/ RoutingFails \/ PullEnds \/ Retain \/ Send \/ SendCancelled \/ Dispatched
    \/ CloseInboxes \/ SetReadErr \/ Merge

-----------------------------------------------------------------------------
(* The workers. *)

Receive(w) ==
    /\ wpc[w] = "recv" /\ inbox[w] # <<>>
    /\ msg' = [msg EXCEPT ![w] = Head(inbox[w])]
    /\ inbox' = [inbox EXCEPT ![w] = Tail(@)]
    /\ wpc' = [wpc EXCEPT ![w] = "check"]
    /\ UNCHANGED <<input, readerVars, inboxClosed, groups, refs, parentDone, wDone,
                   firstErr, result, table>>

\* A message received under a cancelled wctx is released unread.
CheckCancelled(w) ==
    /\ wpc[w] = "check"
    /\ wpc' = [wpc EXCEPT ![w] = IF Cancelled THEN "release" ELSE "work"]
    /\ UNCHANGED <<input, readerVars, inbox, inboxClosed, msg, groups, refs, parentDone,
                   wDone, firstErr, result, table>>

Consume(w) ==
    /\ wpc[w] = "work"
    /\ groups' = [groups EXCEPT ![w] = Consumed(w, msg[w], GroupKeys)]
    /\ wpc' = [wpc EXCEPT ![w] = "release"]
    /\ UNCHANGED <<input, readerVars, inbox, inboxClosed, msg, refs, parentDone, wDone,
                   firstErr, result, table>>

\* workerConsume fails after updating some of the groups.
ConsumeFails(w) ==
    /\ wpc[w] = "work" /\ msg[w] \in BadUpdate
    /\ \E ks \in SUBSET GroupKeys :
           groups' = [groups EXCEPT ![w] = Consumed(w, msg[w], ks)]
    /\ SetErr("update")
    /\ wpc' = [wpc EXCEPT ![w] = "release"]
    /\ UNCHANGED <<input, readerVars, inbox, inboxClosed, msg, refs, parentDone,
                   result, table>>

Release(w) ==
    /\ wpc[w] = "release"
    /\ refs' = [refs EXCEPT ![msg[w]] = @ - 1]
    /\ msg' = [msg EXCEPT ![w] = 0]
    /\ wpc' = [wpc EXCEPT ![w] = "recv"]
    /\ UNCHANGED <<input, readerVars, inbox, inboxClosed, groups, parentDone, wDone,
                   firstErr, result, table>>

\* The inbox is closed and empty: publish the groups.
Exit(w) ==
    /\ wpc[w] = "recv" /\ inbox[w] = <<>> /\ inboxClosed
    /\ wpc' = [wpc EXCEPT ![w] = "exit"]
    /\ UNCHANGED <<input, readerVars, inbox, inboxClosed, msg, groups, refs, parentDone,
                   wDone, firstErr, result, table>>

Worker(w) ==
    \/ Receive(w) \/ CheckCancelled(w) \/ Consume(w)
    \/ ConsumeFails(w) \/ Release(w) \/ Exit(w)

\* The caller cancels its context.
Cancel ==
    /\ ~parentDone /\ result = "running"
    /\ parentDone' = TRUE
    /\ UNCHANGED <<input, readerVars, inbox, inboxClosed, workerVars, refs, wDone,
                   firstErr, result, table>>

Returned == rpc = "returned" /\ UNCHANGED vars

Next ==
    \/ Reader
    \/ \E w \in Workers : Worker(w)
    \/ Cancel
    \/ Returned

\* Goroutines that can run do, and the upstream operator answers.
Fairness == WF_vars(Reader) /\ \A w \in Workers : WF_vars(Worker(w))

Spec == Init /\ [][Next]_vars
FairSpec == Spec /\ Fairness

-----------------------------------------------------------------------------
TypeOK ==
    /\ input \in Inputs /\ pos \in 0..Len(input)
    /\ rpc \in {"check", "pull", "send", "select", "closing", "setErr", "wait", "returned"}
    /\ cur \in {0} \union Batches /\ pending \subseteq Workers
    /\ readErr \in {"none", "ctx", "input", "routing"}
    /\ inbox \in [Workers -> Seq(Batches)]
    /\ \A w \in Workers : Len(inbox[w]) <= ChanBuf
    /\ inboxClosed \in BOOLEAN
    /\ wpc \in [Workers -> {"recv", "check", "work", "release", "exit"}]
    /\ msg \in [Workers -> {0} \union Batches]
    /\ groups \in [Workers -> [GroupKeys -> Seq(Batches \X (Nat \ {0}))]]
    /\ refs \in [Batches -> Nat]
    /\ parentDone \in BOOLEAN /\ wDone \in BOOLEAN
    /\ firstErr \in {"none", "ctx", "input", "routing", "update"}
    /\ result \in {"running", "ok", "err"}
    /\ table \in [GroupKeys -> Seq(Batches \X (Nat \ {0}))]

\* A batch's reference count is at every moment the number of its holders:
\* the reader, the reference it is about to send, the inboxes and the
\* workers at work.  No worker reads a batch that was released, and none
\* stays retained after the build, whoever failed or cancelled and when.
RefsMatchHolders ==
    \A b \in Batches :
        refs[b] = Cardinality({w \in Workers : \E i \in 1..Len(inbox[w]) : inbox[w][i] = b})
                  + Cardinality({w \in Workers : msg[w] = b})
                  + (IF cur = b THEN IF rpc = "select" THEN 2 ELSE 1 ELSE 0)

NothingRetained == result # "running" => \A b \in Batches : refs[b] = 0

\* No key ever has groups at two workers: what lets Merge unite the maps
\* without combining values.
ShardsDisjoint ==
    \A v, w \in Workers : \A k \in GroupKeys :
        groups[v][k] # <<>> /\ groups[w][k] # <<>> => v = w

\* The parallel build returns what the serial build does, group for group and
\* each group's rows in the same order, unless the caller cancelled.
MatchesSerial ==
    (result = "ok" /\ ~parentDone) => table = SerialTable(KeyMode, input, GroupKeys)

\* A failure that stopped the build is what it returns: an error of a worker or
\* of the upstream is never replaced by the cancellation it caused, and never
\* lost.
RootCauseReturned ==
    /\ result = "ok" => readErr = "none"
    /\ (firstErr = "ctx") => parentDone

\* Even under errors, cancellation and full inboxes the build returns.
BuildReturns == <>(result # "running")

\* Cancelling the caller's context is reported as an error ("Ctx cancellation
\* from above propagates the same way", src/exec_aggregate_parallel.go:41):
\* a build that returns no error has aggregated all of its input.
CompleteOrError == result = "ok" => table = SerialTable(KeyMode, input, GroupKeys)

\* The streaming aggregate's groups are the eager GroupBy's, null keys
\* included (src/lazy.go:181).
EagerNullSemantics ==
    (result = "ok" /\ ~parentDone) => table = SerialTable("composite", input, GroupKeys)

-----------------------------------------------------------------------------
(* The inductive invariant behind the theorems of ParallelAggregateProofs. *)

Closing == rpc \in {"setErr", "wait", "returned"}

\* The reader holds a batch exactly while it dispatches it, and owes it to
\* the recipients left.
ReaderState ==
    /\ cur # 0 <=> rpc \in {"send", "select"}
    /\ cur # 0 => cur = pos
    /\ rpc = "select" => pending # {}
    /\ rpc \notin {"send", "select"} => pending = {}
    /\ inboxClosed <=> Closing
    /\ result # "running" <=> rpc = "returned"

\* A worker meets the batches in the order the reader pulled them: the one in
\* hand, those in its inbox, the one the reader still owes it.
BatchOrder ==
    \A w \in Workers :
        /\ msg[w] # 0 <=> wpc[w] \in {"check", "work", "release"}
        /\ msg[w] <= pos
        /\ w \in pending => msg[w] < cur
        /\ \A i \in 1..Len(inbox[w]) :
               /\ msg[w] < inbox[w][i] /\ inbox[w][i] <= pos
               /\ w \in pending => inbox[w][i] < cur
        /\ \A i, j \in 1..Len(inbox[w]) : i < j => inbox[w][i] < inbox[w][j]

\* A worker leaves when nothing can arrive any more; the build returns after
\* all of them.
ExitReason ==
    /\ \A w \in Workers : wpc[w] = "exit" => inboxClosed /\ inbox[w] = <<>>
    /\ rpc = "returned" => \A w \in Workers : wpc[w] = "exit"

\* Why the derived context is cancelled, and where an error comes from.
ErrorReason ==
    /\ wDone => firstErr # "none" \/ rpc = "returned"
    /\ rpc \in {"wait", "returned"} /\ readErr # "none" => firstErr # "none"
    /\ readErr = "ctx" => parentDone \/ firstErr # "none"
    /\ rpc \in {"closing", "setErr", "wait", "returned"} /\ readErr = "none" =>
           pos = Len(input)

\* A group lives at the worker its key hashes to.
OwnGroups == \A w \in Workers : \A k \in GroupKeys : groups[w][k] # <<>> => Hash[k] = w

\* The batches worker w has yet to consume.
Todo(w) ==
    {inbox[w][i] : i \in 1..Len(inbox[w])}
    \union (IF wpc[w] \in {"check", "work"} THEN {msg[w]} ELSE {})
    \union (IF w \in pending THEN {cur} ELSE {})

\* Worker w has consumed its part of the first n batches, and its part of
\* those pulled after them is still to come.
Frontier(w, n) ==
    /\ \A k \in GroupKeys : Hash[k] = w =>
           groups[w][k] = SerialTables(KeyMode, input, GroupKeys)[n][k]
    /\ \A b \in Todo(w) : n < b
    /\ \A b \in (n + 1)..pos : w \in Recipients(b) => b \in Todo(w)

Progress ==
    (~Cancelled /\ readErr = "none") =>
        \A w \in Workers : \E n \in 0..pos : Frontier(w, n)

IInv ==
    /\ TypeOK /\ RefsMatchHolders /\ ReaderState /\ BatchOrder /\ ExitReason
    /\ ErrorReason /\ RootCauseReturned /\ OwnGroups /\ Progress /\ MatchesSerial
=============================================================================
