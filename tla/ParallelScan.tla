----------------------------- MODULE ParallelScan -----------------------------
(***************************************************************************)
(* parallelScanFileExec (src/exec_scan_parallel.go): one goroutine per     *)
(* sub-callback fans record batches into one buffered channel, Next pops   *)
(* it, and Close stops the workers and drains it.  The state is the        *)
(* program counters of the goroutines and of the one consumer, the three   *)
(* channels (batches, errs, done) and what became of every batch.          *)
(*                                                                         *)
(* A panic of a goroutine ends the process: panicked disables every step.  *)
(***************************************************************************)
EXTENDS Integers, Sequences, FiniteSets

CONSTANTS Subs,        \* the sub-callbacks, one worker each
          NumBatches,  \* batches every sub reads when nothing stops it
          CanFail,     \* subs whose reads may fail
          HidesAbort   \* subs that return errScanClosed wrapped with %v

ASSUME ScanAssumption ==
    /\ IsFiniteSet(Subs) /\ Subs # {}
    /\ NumBatches \in Nat
    /\ CanFail \subseteq Subs
    /\ HidesAbort \subseteq Subs

VARIABLES wpc,        \* where each worker goroutine is
          made,       \* batches each worker's sub has handed to its callback
          queue,      \* the batches channel
          chanClosed, \* has the closer goroutine closed it?
          errs,       \* the errs channel
          done,       \* has the done channel been closed?
          cpc,        \* where the consumer is
          ctxDone,    \* has the consumer's context been cancelled?
          got,        \* batches Next returned, in order
          dropped,    \* batches the scan itself released
          terminal,   \* what ended the scan for the consumer: the first EOF or error
          panicked    \* close of a closed channel

workerVars == <<wpc, made>>
chanVars   == <<queue, chanClosed, errs, done>>
userVars   == <<cpc, ctxDone, got, dropped, terminal>>
vars == <<workerVars, chanVars, userVars, panicked>>

BatchIds == Subs \X (1..NumBatches)
BatchCap == 2 * Cardinality(Subs)
ErrCap   == Cardinality(Subs)

WorkerPCs   == {"idle", "read", "send", "report", "reportAbort", "signal", "exit"}
ConsumerPCs == {"ready", "select", "closeDone", "drain", "closed"}
Errors      == {"read", "aborted"}

\* The elements of a finite sequence.
Elems(s) == {s[i] : i \in 1..Len(s)}

Started == \A w \in Subs : wpc[w] # "idle"
Held(w) == <<w, made[w]>>   \* the batch worker w is about to send

Init ==
    /\ wpc = [w \in Subs |-> "idle"]
    /\ made = [w \in Subs |-> 0]
    /\ queue = <<>> /\ chanClosed = FALSE /\ errs = <<>> /\ done = FALSE
    /\ cpc = "ready" /\ ctxDone = FALSE
    /\ got = <<>> /\ dropped = {} /\ terminal = "open"
    /\ panicked = FALSE

-----------------------------------------------------------------------------
(* The workers. *)

\* The sub reads its next batch and calls the callback with it.
Produce(w) ==
    /\ wpc[w] = "read" /\ made[w] < NumBatches
    /\ made' = [made EXCEPT ![w] = @ + 1]
    /\ wpc' = [wpc EXCEPT ![w] = "send"]
    /\ UNCHANGED <<chanVars, userVars, panicked>>

\* select: the batches channel has room.
Send(w) ==
    /\ wpc[w] = "send" /\ Len(queue) < BatchCap
    /\ queue' = Append(queue, Held(w))
    /\ wpc' = [wpc EXCEPT ![w] = "read"]
    /\ UNCHANGED <<made, chanClosed, errs, done, userVars, panicked>>

\* Mutation: the callback returns without rec.Release.
AbandonLeaks(w) ==
    /\ wpc[w] = "send" /\ done
    /\ wpc' = [wpc EXCEPT ![w] = IF w \in HidesAbort THEN "reportAbort" ELSE "exit"]
    /\ UNCHANGED <<made, chanVars, userVars, panicked>>

\* select: done is closed.  The callback releases the batch and returns
\* errScanClosed; what the sub makes of it decides whether errors.Is
\* still recognises it.
Abandon(w) ==
    /\ wpc[w] = "send" /\ done
    /\ dropped' = dropped \union {Held(w)}
    /\ wpc' = [wpc EXCEPT ![w] = IF w \in HidesAbort THEN "reportAbort" ELSE "exit"]
    /\ UNCHANGED <<made, chanVars, cpc, ctxDone, got, terminal, panicked>>

\* The sub has no more batches.
Finish(w) ==
    /\ wpc[w] = "read" /\ made[w] = NumBatches
    /\ wpc' = [wpc EXCEPT ![w] = "exit"]
    /\ UNCHANGED <<made, chanVars, userVars, panicked>>

\* Mutation: done is closed but the error is not kept.
ReadFailsSilently(w) ==
    /\ w \in CanFail /\ wpc[w] = "read"
    /\ wpc' = [wpc EXCEPT ![w] = "signal"]
    /\ UNCHANGED <<made, chanVars, userVars, panicked>>

\* The sub's own read, or opening the file, fails.
ReadFails(w) ==
    /\ w \in CanFail /\ wpc[w] = "read"
    /\ wpc' = [wpc EXCEPT ![w] = "report"]
    /\ UNCHANGED <<made, chanVars, userVars, panicked>>

\* The non-blocking send of the error.
Report(w) ==
    /\ wpc[w] \in {"report", "reportAbort"}
    /\ LET err == IF wpc[w] = "report" THEN "read" ELSE "aborted"
           room == Len(errs) < ErrCap
       IN  /\ errs' = IF room THEN Append(errs, err) ELSE errs
           /\ wpc' = [wpc EXCEPT ![w] = IF room THEN "signal" ELSE "exit"]
    /\ UNCHANGED <<made, queue, chanClosed, done, userVars, panicked>>

\* close(done): a second close panics.
Signal(w) ==
    /\ wpc[w] = "signal"
    /\ done' = TRUE /\ panicked' = done
    /\ wpc' = [wpc EXCEPT ![w] = "exit"]
    /\ UNCHANGED <<made, queue, chanClosed, errs, userVars>>

Worker(w) ==
    \/ Produce(w) \/ Send(w) \/ Abandon(w) \/ Finish(w)
    \/ ReadFails(w) \/ Report(w) \/ Signal(w)

\* The closer goroutine, once every worker is done.
CloseBatches ==
    /\ \A w \in Subs : wpc[w] = "exit"
    /\ ~chanClosed
    /\ chanClosed' = TRUE
    /\ UNCHANGED <<workerVars, queue, errs, done, userVars, panicked>>

-----------------------------------------------------------------------------
(* The consumer: one goroutine that calls Next, then Close. *)

\* Next up to its select: the first call starts the workers, even under a
\* cancelled context.
NextBegin ==
    /\ cpc = "ready"
    /\ wpc' = [w \in Subs |-> IF wpc[w] = "idle" THEN "read" ELSE wpc[w]]
    /\ cpc' = IF ctxDone THEN "ready" ELSE "select"
    /\ UNCHANGED <<made, chanVars, ctxDone, got, dropped, terminal, panicked>>

NextCancelled ==
    /\ cpc = "select" /\ ctxDone
    /\ cpc' = "ready"
    /\ UNCHANGED <<workerVars, chanVars, ctxDone, got, dropped, terminal, panicked>>

NextBatch ==
    /\ cpc = "select" /\ queue # <<>>
    /\ got' = Append(got, Head(queue))
    /\ queue' = Tail(queue)
    /\ cpc' = "ready"
    /\ UNCHANGED <<workerVars, chanClosed, errs, done, ctxDone, dropped, terminal, panicked>>

\* Mutation: a closed channel always means io.EOF.
NextAlwaysEOF ==
    /\ cpc = "select" /\ queue = <<>> /\ chanClosed
    /\ terminal' = IF terminal # "open" THEN terminal ELSE "eof"
    /\ cpc' = "ready"
    /\ UNCHANGED <<workerVars, chanVars, ctxDone, got, dropped, panicked>>

\* Mutation: the closed channel is read again instead of answered.
NextRetries ==
    /\ cpc = "select" /\ queue = <<>> /\ chanClosed
    /\ UNCHANGED vars

\* The channel is closed and empty: an error if errs holds one, else io.EOF.
NextTerminal ==
    /\ cpc = "select" /\ queue = <<>> /\ chanClosed
    /\ errs' = IF errs = <<>> THEN errs ELSE Tail(errs)
    /\ terminal' = IF terminal # "open" THEN terminal
                   ELSE IF errs = <<>> THEN "eof" ELSE Head(errs)
    /\ cpc' = "ready"
    /\ UNCHANGED <<workerVars, queue, chanClosed, done, ctxDone, got, dropped, panicked>>

\* Close up to its select on done.
CloseBegin ==
    /\ cpc = "ready"
    /\ cpc' = IF done THEN "drain" ELSE "closeDone"
    /\ UNCHANGED <<workerVars, chanVars, ctxDone, got, dropped, terminal, panicked>>

\* The default branch's close(done).
CloseDone ==
    /\ cpc = "closeDone"
    /\ done' = TRUE /\ panicked' = done
    /\ cpc' = "drain"
    /\ UNCHANGED <<workerVars, queue, chanClosed, errs, ctxDone, got, dropped, terminal>>

DrainOne ==
    /\ cpc = "drain" /\ queue # <<>>
    /\ dropped' = dropped \union {Head(queue)}
    /\ queue' = Tail(queue)
    /\ UNCHANGED <<workerVars, chanClosed, errs, done, cpc, ctxDone, got, terminal, panicked>>

\* Mutation: the drain ends at the first empty read, closed or not.
DrainEndEarly ==
    /\ cpc = "drain" /\ queue = <<>>
    /\ cpc' = "closed"
    /\ UNCHANGED <<workerVars, chanVars, ctxDone, got, dropped, terminal, panicked>>

\* Mutation: the drain does not stop at the closed channel.
DrainLoops ==
    /\ cpc = "drain" /\ queue = <<>> /\ chanClosed
    /\ UNCHANGED vars

DrainEnd ==
    /\ cpc = "drain" /\ queue = <<>> /\ chanClosed
    /\ cpc' = "closed"
    /\ UNCHANGED <<workerVars, chanVars, ctxDone, got, dropped, terminal, panicked>>

Cancel ==
    /\ ~ctxDone
    /\ ctxDone' = TRUE
    /\ UNCHANGED <<workerVars, chanVars, cpc, got, dropped, terminal, panicked>>

NextReturns  == NextCancelled \/ NextBatch \/ NextTerminal
CloseReturns == CloseDone \/ DrainOne \/ DrainEnd
Consumer == NextBegin \/ NextReturns \/ CloseBegin \/ CloseReturns

\* Close came before the first Next: there is no closer goroutine, and the
\* range over the batches channel waits for ever.
Hung == cpc = "drain" /\ ~Started

\* The process has panicked, the scan is closed, or its consumer hangs.
Over ==
    /\ panicked \/ cpc = "closed" \/ Hung
    /\ UNCHANGED vars

Next ==
    \/ ~panicked /\ (\E w \in Subs : Worker(w))
    \/ ~panicked /\ CloseBatches
    \/ ~panicked /\ Consumer
    \/ ~panicked /\ Cancel
    \/ Over

\* The Go scheduler runs every goroutine that can run; a sub's reads end.
\* The consumer owes a step only inside a call it has made.
Fairness ==
    /\ \A w \in Subs : WF_vars(~panicked /\ Worker(w))
    /\ WF_vars(~panicked /\ CloseBatches)
    /\ WF_vars(~panicked /\ NextReturns)
    /\ WF_vars(~panicked /\ CloseReturns)

Spec == Init /\ [][Next]_vars
FairSpec == Spec /\ Fairness

-----------------------------------------------------------------------------
(* What must hold. *)

TypeOK ==
    /\ wpc \in [Subs -> WorkerPCs]
    /\ made \in [Subs -> 0..NumBatches]
    /\ \A w \in Subs : wpc[w] = "send" => Held(w) \in BatchIds
    /\ queue \in Seq(BatchIds) /\ Len(queue) <= BatchCap
    /\ errs \in Seq(Errors) /\ Len(errs) <= ErrCap
    /\ chanClosed \in BOOLEAN /\ done \in BOOLEAN
    /\ cpc \in ConsumerPCs /\ ctxDone \in BOOLEAN
    /\ got \in Seq(BatchIds)
    /\ dropped \subseteq BatchIds
    /\ terminal \in {"open", "eof"} \union Errors
    /\ panicked \in BOOLEAN

\* How many owners a batch has: the worker sending it, the channel, the
\* consumer, or nobody any more.
Owners(b) ==
    Cardinality({w \in Subs : wpc[w] = "send" /\ Held(w) = b})
    + Cardinality({i \in 1..Len(queue) : queue[i] = b})
    + Cardinality({i \in 1..Len(got) : got[i] = b})
    + (IF b \in dropped THEN 1 ELSE 0)

\* Every batch a callback was handed has exactly one owner, whatever the
\* order in which sends, Close's drain and the abandoning workers run: no
\* record batch leaks and none is released twice.
OneOwner ==
    \A b \in BatchIds : Owners(b) = (IF b[2] <= made[b[1]] THEN 1 ELSE 0)

\* The batches of one sub come out of Next in the order the sub read them,
\* with no gap and no repetition, although sends of several workers, errors
\* and cancelled calls of Next interleave.
DeliveredInOrder ==
    \A j \in 1..Len(got) :
        /\ got[j][2] > 1 => \E i \in 1..(j - 1) : got[i] = <<got[j][1], got[j][2] - 1>>
        /\ \A i \in 1..(j - 1) : got[i] # got[j]

\* io.EOF as the first answer means that the consumer has every batch of
\* every sub: a failed worker's batches are never silently missing.
CompleteAtEOF == terminal = "eof" => Elems(got) = BatchIds

\* When Close has returned, no goroutine runs and every batch is with the
\* consumer or released.
ClosedReleasesAll ==
    cpc = "closed" =>
        /\ \A w \in Subs : wpc[w] = "exit"
        /\ queue = <<>>
        /\ \A w \in Subs : \A i \in 1..made[w] : <<w, i>> \in Elems(got) \union dropped

\* Close's select on done and startWorkers' error path never close done
\* twice (the comment at src/exec_scan_parallel.go:155 says that closeOnce
\* sees to it).
DoneClosedOnce == ~panicked

\* A call of Next returns.
NextReturnsEventually == (cpc = "select") ~> (cpc # "select" \/ panicked)

\* A Close returns once a Next has started the workers, however they, their
\* errors and the closer goroutine interleave; a Close before the first Next
\* never returns.
CloseReturnsEventually ==
    /\ (cpc = "drain" /\ Started) ~> (cpc = "closed" \/ panicked)
    /\ [](Hung => []Hung)

\* Close returns whenever it is called, as the comments at src/exec.go:40 and
\* src/exec_scan_parallel.go:43 promise: not so before the first Next.
CloseAlwaysReturns == (cpc = "drain") ~> (cpc = "closed" \/ panicked)

\* The scan implements BatchSource.
Outcome == IF cpc \in {"closeDone", "drain", "closed"} THEN "closed"
           ELSE IF terminal = "open" THEN "open"
           ELSE IF terminal = "eof" THEN "complete" ELSE "failed"

Source == INSTANCE BatchSource WITH
    Batches <- BatchIds, delivered <- Elems(got), outcome <- Outcome

ImplementsBatchSource == Source!Spec

-----------------------------------------------------------------------------
(* The inductive invariant behind the theorems of ParallelScanProofs. *)

Closing == cpc \in {"closeDone", "drain", "closed"}
InFlight(b) == wpc[b[1]] = "send" /\ b[2] = made[b[1]]

\* Nothing a callback was handed disappears.
NothingLost ==
    \A b \in BatchIds : b[2] <= made[b[1]] =>
        b \in Elems(got) \/ b \in Elems(queue) \/ b \in dropped \/ InFlight(b)

\* The channel keeps the order of each worker, behind what was delivered
\* and ahead of what the worker holds.
ChannelOrder ==
    /\ \A i, j \in 1..Len(queue) :
           i < j /\ queue[i][1] = queue[j][1] => queue[i][2] < queue[j][2]
    /\ \A i \in 1..Len(got), j \in 1..Len(queue) :
           got[i][1] = queue[j][1] => got[i][2] < queue[j][2]
    /\ \A b \in Elems(got) \union Elems(queue) :
           b[2] <= made[b[1]] /\ ~InFlight(b)

\* Batches are dropped only after done, and done is closed for a reason.
DropReason == (dropped # {} \/ cpc \in {"drain", "closed"}) => done
DoneReason == done => Closing \/ errs # <<>> \/ terminal \in Errors

\* Why a worker is where it is.
WorkerReason ==
    \A w \in Subs :
        /\ wpc[w] = "signal" => errs # <<>> \/ terminal \in Errors
        /\ wpc[w] = "reportAbort" => done
        /\ wpc[w] = "exit" =>
               made[w] = NumBatches \/ done \/ errs # <<>> \/ terminal \in Errors

ClosedReason ==
    /\ chanClosed => \A w \in Subs : wpc[w] = "exit"
    /\ cpc = "closed" => chanClosed /\ queue = <<>>

TerminalReason ==
    /\ terminal # "open" => chanClosed /\ queue = <<>>
    /\ terminal = "eof" => errs = <<>>

IInv ==
    /\ TypeOK /\ NothingLost /\ ChannelOrder /\ DropReason /\ DoneReason
    /\ WorkerReason /\ ClosedReason /\ TerminalReason
    /\ CompleteAtEOF

\* No batch is in two places: Next returned each once, and what the scan
\* released is with nobody else.
OwnersApart ==
    /\ \A i, j \in 1..Len(got) : i < j => got[i] # got[j]
    /\ \A b \in dropped :
           b[2] <= made[b[1]] /\ ~InFlight(b) /\ b \notin Elems(got) \union Elems(queue)

\* Until Close drains the channel, the scan only releases the last batch of a
\* worker that reads no more.
AbandonedLast ==
    cpc \notin {"drain", "closed"} =>
        \A b \in dropped : b[2] = made[b[1]] /\ wpc[b[1]] \in {"reportAbort", "signal", "exit"}

OInv == OwnersApart /\ AbandonedLast /\ DeliveredInOrder

=============================================================================
