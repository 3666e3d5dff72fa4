------------------------------- MODULE FileScan -------------------------------
(***************************************************************************)
(* scanFileExec (src/exec_ops.go): one producer goroutine, started when    *)
(* the operator is built, pushes the batches of a file into a channel of   *)
(* two; Next pops it, Close stops the producer and drains the channel.     *)
(***************************************************************************)
EXTENDS Integers, Sequences

CONSTANTS NumBatches,  \* batches of the source
          CanFail,     \* may reading the source fail?
          HidesAbort   \* is errScanClosed returned wrapped with %v?

ASSUME FileScanAssumption ==
    NumBatches \in Nat /\ CanFail \in BOOLEAN /\ HidesAbort \in BOOLEAN

VARIABLES ppc, made,                      \* the producer, and the batches it has read
          queue, chanClosed, errs, done,  \* the channels
          cpc, ctxDone,                   \* the consumer and its context
          got, dropped, terminal          \* what came out, was released, ended the scan

chanVars == <<queue, chanClosed, errs, done>>
userVars == <<cpc, ctxDone, got, dropped, terminal>>
vars == <<ppc, made, chanVars, userVars>>

BatchIds == 1..NumBatches
BatchCap == 2
Errors   == {"read", "aborted"}
Elems(s) == {s[i] : i \in 1..Len(s)}

\* newScanFileExec: the producer runs before the first Next.
Init ==
    /\ ppc = "read" /\ made = 0
    /\ queue = <<>> /\ chanClosed = FALSE /\ errs = <<>> /\ done = FALSE
    /\ cpc = "ready" /\ ctxDone = FALSE
    /\ got = <<>> /\ dropped = {} /\ terminal = "open"

Produce ==
    /\ ppc = "read" /\ made < NumBatches
    /\ made' = made + 1
    /\ ppc' = "send"
    /\ UNCHANGED <<chanVars, userVars>>

Send ==
    /\ ppc = "send" /\ Len(queue) < BatchCap
    /\ queue' = Append(queue, made)
    /\ ppc' = "read"
    /\ UNCHANGED <<made, chanClosed, errs, done, userVars>>

\* The callback sees done and releases its batch.
Abandon ==
    /\ ppc = "send" /\ done
    /\ dropped' = dropped \union {made}
    /\ ppc' = IF HidesAbort THEN "reportAbort" ELSE "exit"
    /\ UNCHANGED <<made, chanVars, cpc, ctxDone, got, terminal>>

Finish ==
    /\ ppc = "read" /\ made = NumBatches
    /\ ppc' = "exit"
    /\ UNCHANGED <<made, chanVars, userVars>>

\* Mutation: the error is dropped.
ReadFailsSilently ==
    /\ CanFail /\ ppc = "read"
    /\ ppc' = "exit"
    /\ UNCHANGED <<made, chanVars, userVars>>

ReadFails ==
    /\ CanFail /\ ppc = "read"
    /\ ppc' = "report"
    /\ UNCHANGED <<made, chanVars, userVars>>

\* The send on errs blocks: its buffer of one is empty.
Report ==
    /\ ppc \in {"report", "reportAbort"} /\ Len(errs) < 1
    /\ errs' = Append(errs, IF ppc = "report" THEN "read" ELSE "aborted")
    /\ ppc' = "exit"
    /\ UNCHANGED <<made, queue, chanClosed, done, userVars>>

\* The deferred close(e.batches).
CloseBatches ==
    /\ ppc = "exit" /\ ~chanClosed
    /\ chanClosed' = TRUE
    /\ UNCHANGED <<ppc, made, queue, errs, done, userVars>>

Producer == Produce \/ Send \/ Abandon \/ Finish \/ ReadFails \/ Report \/ CloseBatches

NextBegin ==
    /\ cpc = "ready" /\ ~ctxDone
    /\ cpc' = "select"
    /\ UNCHANGED <<ppc, made, chanVars, ctxDone, got, dropped, terminal>>

NextCancelled ==
    /\ cpc = "select" /\ ctxDone
    /\ cpc' = "ready"
    /\ UNCHANGED <<ppc, made, chanVars, ctxDone, got, dropped, terminal>>

NextBatch ==
    /\ cpc = "select" /\ queue # <<>>
    /\ got' = Append(got, Head(queue))
    /\ queue' = Tail(queue)
    /\ cpc' = "ready"
    /\ UNCHANGED <<ppc, made, chanClosed, errs, done, ctxDone, dropped, terminal>>

\* Mutation: the closed channel is read again instead of answered.
NextRetries ==
    /\ cpc = "select" /\ queue = <<>> /\ chanClosed
    /\ UNCHANGED vars

NextTerminal ==
    /\ cpc = "select" /\ queue = <<>> /\ chanClosed
    /\ errs' = IF errs = <<>> THEN errs ELSE Tail(errs)
    /\ terminal' = IF terminal # "open" THEN terminal
                   ELSE IF errs = <<>> THEN "eof" ELSE Head(errs)
    /\ cpc' = "ready"
    /\ UNCHANGED <<ppc, made, queue, chanClosed, done, ctxDone, got, dropped>>

\* Close up to its drain loop: only Close closes done.
CloseBegin ==
    /\ cpc = "ready"
    /\ done' = TRUE
    /\ cpc' = "drain"
    /\ UNCHANGED <<ppc, made, queue, chanClosed, errs, ctxDone, got, dropped, terminal>>

DrainOne ==
    /\ cpc = "drain" /\ queue # <<>>
    /\ dropped' = dropped \union {Head(queue)}
    /\ queue' = Tail(queue)
    /\ UNCHANGED <<ppc, made, chanClosed, errs, done, cpc, ctxDone, got, terminal>>

\* Mutation: the drain ends at the first empty read, closed or not.
DrainEndEarly ==
    /\ cpc = "drain" /\ queue = <<>>
    /\ cpc' = "closed"
    /\ UNCHANGED <<ppc, made, chanVars, ctxDone, got, dropped, terminal>>

\* Mutation: the drain does not stop at the closed channel.
DrainLoops ==
    /\ cpc = "drain" /\ queue = <<>> /\ chanClosed
    /\ UNCHANGED vars

DrainEnd ==
    /\ cpc = "drain" /\ queue = <<>> /\ chanClosed
    /\ cpc' = "closed"
    /\ UNCHANGED <<ppc, made, chanVars, ctxDone, got, dropped, terminal>>

Cancel ==
    /\ ~ctxDone
    /\ ctxDone' = TRUE
    /\ UNCHANGED <<ppc, made, chanVars, cpc, got, dropped, terminal>>

NextReturns  == NextCancelled \/ NextBatch \/ NextTerminal
CloseReturns == DrainOne \/ DrainEnd
Over == cpc = "closed" /\ UNCHANGED vars

Next ==
    \/ Producer
    \/ NextBegin
    \/ NextReturns
    \/ CloseBegin
    \/ CloseReturns
    \/ Cancel
    \/ Over

\* As in ParallelScan: goroutines run, reads end, calls are finished.
Fairness == WF_vars(Producer) /\ WF_vars(NextReturns) /\ WF_vars(CloseReturns)

Spec == Init /\ [][Next]_vars
FairSpec == Spec /\ Fairness

-----------------------------------------------------------------------------
TypeOK ==
    /\ ppc \in {"read", "send", "report", "reportAbort", "exit"}
    /\ made \in 0..NumBatches
    /\ ppc = "send" => made \in BatchIds
    /\ queue \in Seq(BatchIds) /\ Len(queue) <= BatchCap
    /\ errs \in Seq(Errors) /\ Len(errs) <= 1
    /\ chanClosed \in BOOLEAN /\ done \in BOOLEAN
    /\ cpc \in {"ready", "select", "drain", "closed"} /\ ctxDone \in BOOLEAN
    /\ got \in Seq(BatchIds) /\ dropped \subseteq BatchIds
    /\ terminal \in {"open", "eof"} \union Errors

\* The batches come out in file order, from the first, none missing and
\* none twice: what Limit and the first/last aggregates rely on.
InFileOrder == got = [i \in 1..Len(got) |-> i]

\* No batch read is ever without an owner, or with two: what was read is
\* with the consumer, then in the channel, then held by the producer, and
\* only after Close released.
OneOwner ==
    LET held == IF ppc = "send" THEN <<made>> ELSE <<>>
        line == got \o queue \o held
    IN  /\ Elems(line) \union dropped = 1..made
        /\ Elems(line) \intersect dropped = {}
        /\ \A i, j \in 1..Len(line) : i < j => line[i] < line[j]
        /\ dropped # {} => cpc \in {"drain", "closed"}

\* An error the source met reaches the consumer before io.EOF can, unless
\* the consumer closes first; an abort caused by Close never does.
ErrorBeforeEOF ==
    /\ terminal = "eof" => made = NumBatches /\ errs = <<>>
    /\ terminal # "aborted"

\* When Close has returned the producer is gone and the channel is empty.
ClosedReleasesAll ==
    cpc = "closed" =>
        /\ ppc = "exit" /\ queue = <<>>
        /\ 1..made = Elems(got) \union dropped

\* A call of Next returns, and so does a call of Close.
NextReturnsEventually  == (cpc = "select") ~> (cpc # "select")
CloseReturnsEventually == (cpc = "drain") ~> (cpc = "closed")

\* The scan implements BatchSource.
Outcome == IF cpc \in {"drain", "closed"} THEN "closed"
           ELSE IF terminal = "open" THEN "open"
           ELSE IF terminal = "eof" THEN "complete" ELSE "failed"

Source == INSTANCE BatchSource WITH
    Batches <- BatchIds, delivered <- Elems(got), outcome <- Outcome

ImplementsBatchSource == Source!Spec

-----------------------------------------------------------------------------
(* The inductive invariant behind the theorems of FileScanProofs. *)

Closing == cpc \in {"drain", "closed"}

\* The consumer has the batches up to Len(got), the drain released those up
\* to lo, the channel holds those up to hi, and the one left of what was read
\* is with the producer, or was released by its callback.
Line(lo, hi) ==
    /\ got = [i \in 1..Len(got) |-> i]
    /\ queue = [i \in 1..(hi - lo) |-> lo + i]
    /\ ppc \in {"read", "report"} => hi = made
    /\ ppc = "send" => hi = made - 1
    /\ made - 1 <= hi
    /\ dropped = ((Len(got) + 1)..lo) \union (IF ppc = "send" THEN {} ELSE (hi + 1)..made)
    /\ lo # Len(got) => Closing

InLine == \E lo \in Len(got)..made : \E hi \in lo..made : Line(lo, hi)

\* Only Close closes done, and only then does a callback release its batch.
DoneReason == (done <=> Closing) /\ (dropped # {} => done)

\* Why the producer is where it is, and what its end leaves behind.
ProducerReason ==
    /\ ppc = "reportAbort" => done
    /\ ppc = "exit" => made = NumBatches \/ done \/ errs # <<>> \/ terminal \in Errors
    /\ ppc # "exit" => errs = <<>>
    /\ chanClosed => ppc = "exit"
    /\ (errs # <<>> /\ Head(errs) = "aborted") => done

ConsumerReason ==
    /\ cpc = "closed" => chanClosed /\ queue = <<>>
    /\ terminal # "open" => chanClosed /\ queue = <<>>

IInv ==
    /\ TypeOK /\ InLine /\ DoneReason /\ ProducerReason /\ ConsumerReason
    /\ ErrorBeforeEOF
=============================================================================
