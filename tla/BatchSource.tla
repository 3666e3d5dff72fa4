----------------------------- MODULE BatchSource -----------------------------
(***************************************************************************)
(* What a scan operator of the streaming executor promises the operator    *)
(* above it (ExecOperator, src/exec.go): the batches of the source come    *)
(* out of Next one at a time, none twice; io.EOF is reported only when     *)
(* every batch came out; an error or a Close ends the delivery.  The two   *)
(* concurrent scans, FileScan and ParallelScan, implement this machine.    *)
(***************************************************************************)

CONSTANT Batches      \* the batches the source holds

VARIABLES delivered,  \* batches Next has returned
          outcome     \* how the scan ended, "open" while it has not

sourceVars == <<delivered, outcome>>

Init == delivered = {} /\ outcome = "open"

\* Next returns a batch the consumer has not seen.
Deliver(b) ==
    /\ outcome = "open"
    /\ b \in Batches \ delivered
    /\ delivered' = delivered \union {b}
    /\ UNCHANGED outcome

\* Next reports io.EOF: nothing is missing.
End ==
    /\ outcome = "open"
    /\ delivered = Batches
    /\ outcome' = "complete"
    /\ UNCHANGED delivered

\* Next reports the error of a producer.
Fail ==
    /\ outcome = "open"
    /\ outcome' = "failed"
    /\ UNCHANGED delivered

\* The consumer calls Close, before or after the end.
Close ==
    /\ outcome # "closed"
    /\ outcome' = "closed"
    /\ UNCHANGED delivered

Next ==
    \/ \E b \in Batches : Deliver(b)
    \/ End
    \/ Fail
    \/ Close

Spec == Init /\ [][Next]_sourceVars
=============================================================================
