---------------------------- MODULE FileScanProofs ----------------------------
(***************************************************************************)
(* Theorems about FileScan for every number of batches, with and without   *)
(* reads that fail, and both ways the producer can return the callback's   *)
(* error.                                                                  *)
(***************************************************************************)
EXTENDS FileScan, SequenceTheorems, TLAPS

LEMMA HeadAndTail ==
    ASSUME NEW S, NEW s \in Seq(S), s # <<>>
    PROVE  /\ Head(s) \in S /\ Head(s) = s[1] /\ Tail(s) \in Seq(S)
           /\ Len(Tail(s)) = Len(s) - 1 /\ Len(s) \in Nat \ {0}
           /\ Tail(s) = [i \in 1..(Len(s) - 1) |-> s[i + 1]]
  <1>1. /\ Head(s) \in S /\ Head(s) = s[1] /\ Tail(s) \in Seq(S)
        /\ Len(Tail(s)) = Len(s) - 1 /\ Len(s) \in Nat \ {0}
        /\ \A i \in 1..Len(Tail(s)) : Tail(s)[i] = s[i + 1]
    OBVIOUS
  <1>2. Tail(s) \in [1..Len(Tail(s)) -> S]
    BY <1>1, LenProperties
  <1> QED
    BY <1>1, <1>2

LEMMA ShortTail ==
    ASSUME NEW S, NEW s \in Seq(S), s # <<>>, Len(s) <= 1
    PROVE  Head(s) \in S /\ Tail(s) = <<>>
  <1>0. Len(s) \in Nat \ {0} /\ Len(Tail(s)) = Len(s) - 1 /\ Tail(s) \in Seq(S)
    BY HeadAndTail
  <1>1. Len(s) = 1 /\ Tail(s) \in Seq(S) /\ Len(Tail(s)) = 0
    BY <1>0
  <1> QED
    BY <1>1, HeadAndTail, EmptySeq

-----------------------------------------------------------------------------
(* Type correctness. *)

LEMMA InitTypeOK == Init => TypeOK
  <1> SUFFICES ASSUME Init
               PROVE  TypeOK
    OBVIOUS
  <1>1. queue \in Seq(BatchIds) /\ errs \in Seq(Errors) /\ got \in Seq(BatchIds)
        /\ Len(queue) <= BatchCap /\ Len(errs) <= 1
    BY DEF Init, BatchCap
  <1>2. made \in 0..NumBatches /\ dropped \subseteq BatchIds
    BY FileScanAssumption DEF Init
  <1>3. chanClosed \in BOOLEAN /\ done \in BOOLEAN /\ ctxDone \in BOOLEAN
    BY DEF Init
  <1> QED
    BY <1>1, <1>2, <1>3 DEF Init, TypeOK

LEMMA NextTypeOK == TypeOK /\ [Next]_vars => TypeOK'
  <1> SUFFICES ASSUME TypeOK, [Next]_vars
               PROVE  TypeOK'
    OBVIOUS
  <1> USE FileScanAssumption DEF TypeOK
  <1>1. CASE Produce
    BY <1>1 DEF Produce, chanVars, userVars, BatchIds
  <1>2. CASE Send
    BY <1>2 DEF Send, userVars, BatchCap
  <1>3. CASE Abandon
    BY <1>3 DEF Abandon, chanVars
  <1>4. CASE Finish
    BY <1>4 DEF Finish, chanVars, userVars
  <1>5. CASE ReadFails
    BY <1>5 DEF ReadFails, chanVars, userVars
  <1>6. CASE Report
    BY <1>6 DEF Report, userVars, Errors
  <1>7. CASE CloseBatches
    BY <1>7 DEF CloseBatches, userVars
  <1>8. CASE NextBegin
    BY <1>8 DEF NextBegin, chanVars
  <1>9. CASE NextCancelled
    BY <1>9 DEF NextCancelled, chanVars
  <1>10. CASE NextBatch
    BY <1>10, HeadAndTail DEF NextBatch, BatchCap
  <1>11. CASE NextTerminal
    BY <1>11, HeadAndTail DEF NextTerminal
  <1>12. CASE CloseBegin
    BY <1>12 DEF CloseBegin
  <1>13. CASE DrainOne
    BY <1>13, HeadAndTail DEF DrainOne, BatchCap
  <1>14. CASE DrainEnd
    BY <1>14 DEF DrainEnd, chanVars
  <1>15. CASE Cancel
    BY <1>15 DEF Cancel, chanVars
  <1>16. CASE UNCHANGED vars
    BY <1>16 DEF vars, chanVars, userVars
  <1> QED
    BY <1>1, <1>2, <1>3, <1>4, <1>5, <1>6, <1>7, <1>8, <1>9, <1>10, <1>11, <1>12,
       <1>13, <1>14, <1>15, <1>16 DEF Next, Producer, NextReturns, CloseReturns, Over

(* Every variable keeps its type: the batches channel holds at most two
   batches and the errs channel one error. *)
THEOREM TypeCorrect == Spec => []TypeOK
  BY InitTypeOK, NextTypeOK, PTL DEF Spec

-----------------------------------------------------------------------------
(* The inductive invariant. *)

LEMMA InitIInv == Init => IInv
  <1> SUFFICES ASSUME Init
               PROVE  IInv
    OBVIOUS
  <1>1. TypeOK
    BY InitTypeOK
  <1>2. InLine
    <2>1. Line(0, 0)
      BY DEF Init, Line
    <2>2. 0 \in Len(got)..made /\ 0 \in 0..made
      BY DEF Init
    <2> QED
      BY <2>1, <2>2 DEF InLine
  <1> QED
    BY <1>1, <1>2 DEF Init, IInv, DoneReason, ProducerReason, ConsumerReason, ErrorBeforeEOF,
       Closing

LEMMA ProducerInLine ==
    ASSUME IInv, TypeOK', Producer
    PROVE  InLine'
  <1>0. PICK lo \in Len(got)..made : \E hi \in lo..made : Line(lo, hi)
    BY DEF IInv, InLine
  <1>1. PICK hi \in lo..made : Line(lo, hi)
    BY <1>0
  <1>2. Len(got) \in Nat /\ made \in Int /\ lo \in Int /\ hi \in Int /\ made \in 0..NumBatches
    BY FileScanAssumption, LenProperties DEF IInv, TypeOK
  <1>3. got' = got /\ cpc' = cpc
    BY DEF Producer, Produce, Send, Abandon, Finish, ReadFails, Report, CloseBatches, userVars
  <1>4. CASE Produce
    <2>0. (hi + 1)..made = {} /\ made' - 1 = hi
      <3>1. hi = made /\ made' = made + 1
        BY <1>1, <1>4 DEF Line, Produce
      <3> QED
        BY <1>2, <3>1
    <2>1. Line(lo, hi)'
      <3>1. /\ queue' = queue /\ dropped' = dropped /\ got' = got /\ cpc' = cpc
            /\ ppc' = "send" /\ ppc = "read"
        BY <1>4 DEF Produce, chanVars, userVars
      <3>2. dropped = (Len(got) + 1)..lo
        BY <1>1, <2>0, <3>1 DEF Line
      <3>3. dropped = ((Len(got) + 1)..lo) \union {}
        BY <3>2
      <3> QED
        <4>1. got' = [i \in 1..Len(got') |-> i] /\ queue' = [i \in 1..(hi - lo) |-> lo + i]
          BY <1>1, <3>1 DEF Line
        <4>2. ppc' = "send" /\ hi = made' - 1 /\ made' - 1 <= hi
          BY <1>2, <2>0, <3>1
        <4>3. dropped' = ((Len(got') + 1)..lo) \union (IF ppc' = "send" THEN {} ELSE (hi + 1)..made')
          BY <3>1, <3>3
        <4>4. lo # Len(got') => Closing'
          BY <1>1, <3>1 DEF Line, Closing
        <4> QED
          BY <4>1, <4>2, <4>3, <4>4 DEF Line
    <2>2. lo \in (Len(got)..made)' /\ hi \in (lo..made)'
      BY <1>2, <1>4 DEF Produce, userVars
    <2> QED
      BY <2>1, <2>2 DEF InLine
  <1>5. CASE Send
    <2>1. made = hi + 1 /\ made' = made
      <3>1. hi = made - 1 /\ made' = made
        BY <1>1, <1>5 DEF Line, Send
      <3> QED
        BY <1>2, <3>1
    <2>2. Line(lo, hi + 1)'
      <3>1. queue' = [i \in 1..((hi + 1) - lo) |-> lo + i]
        <4>1. queue = [i \in 1..(hi - lo) |-> lo + i] /\ queue' = Append(queue, made)
          BY <1>1, <1>5 DEF Line, Send
        <4>2. Len(queue) = hi - lo
          BY <1>2, <4>1
        <4>3. queue \in Seq(Int) /\ Len(queue') = (hi + 1) - lo /\ queue' \in Seq(Int)
          BY <1>2, <2>1, <4>1, <4>2
        <4>4. \A i \in 1..((hi + 1) - lo) : queue'[i] = lo + i
          <5>1. \A i \in 1..Len(queue) : queue'[i] = queue[i] /\ queue[i] = lo + i
            BY <4>1, <4>2, <4>3
          <5>2. queue'[Len(queue) + 1] = made /\ lo + (Len(queue) + 1) = made
            BY <1>2, <2>1, <4>1, <4>2, <4>3
          <5> QED
            BY <1>2, <2>1, <4>2, <5>1, <5>2
        <4>5. queue' \in [1..((hi + 1) - lo) -> Int]
          BY <4>3, LenProperties
        <4> QED
          BY <4>4, <4>5
      <3>2. dropped' = ((Len(got) + 1)..lo) \union (((hi + 1) + 1)..made)
        <4>1. ((hi + 1) + 1)..made = {}
          BY <1>2, <2>1
        <4>2. dropped' = dropped /\ dropped = (Len(got) + 1)..lo
          BY <1>1, <1>5 DEF Line, Send, userVars
        <4> QED
          BY <4>1, <4>2
      <3>3. made' = made /\ ppc' = "read"
        BY <1>5 DEF Send
      <3> QED
        <4>1. got' = [i \in 1..Len(got') |-> i]
          BY <1>1, <1>3 DEF Line
        <4>2. ppc' = "read" /\ hi + 1 = made' /\ made' - 1 <= hi + 1
          BY <1>2, <2>1, <3>3
        <4>3. dropped' = ((Len(got') + 1)..lo)
                  \union (IF ppc' = "send" THEN {} ELSE ((hi + 1) + 1)..made')
          BY <1>3, <3>2, <3>3
        <4>4. lo # Len(got') => Closing'
          BY <1>1, <1>3 DEF Line, Closing
        <4> QED
          BY <3>1, <4>1, <4>2, <4>3, <4>4 DEF Line
    <2>3. lo \in (Len(got)..made)' /\ hi + 1 \in (lo..made)'
      BY <1>2, <1>3, <2>1
    <2> QED
      BY <2>2, <2>3 DEF InLine
  <1>6. CASE Abandon
    <2>1. hi = made - 1
      BY <1>1, <1>6 DEF Line, Abandon
    <2>2. dropped' = ((Len(got) + 1)..lo) \union ((hi + 1)..made)
      <3>1. (hi + 1)..made = {made}
        BY <1>2, <2>1
      <3>2. dropped' = dropped \union {made} /\ dropped = (Len(got) + 1)..lo
        BY <1>1, <1>6 DEF Line, Abandon
      <3> QED
        BY <3>1, <3>2
    <2>3. Line(lo, hi)'
      BY <1>1, <1>2, <1>3, <1>6, <2>1, <2>2 DEF Line, Abandon, chanVars, Closing
    <2>4. lo \in (Len(got)..made)' /\ hi \in (lo..made)'
      BY <1>3, <1>6 DEF Abandon
    <2> QED
      BY <2>3, <2>4 DEF InLine
  <1>7. CASE Finish \/ ReadFails \/ Report \/ CloseBatches
    <2>1. /\ made' = made /\ queue' = queue /\ dropped' = dropped
          /\ ppc # "send" /\ ppc' \notin {"read", "send"}
          /\ ppc' = "report" => ppc = "read"
      BY <1>7 DEF Finish, ReadFails, Report, CloseBatches, chanVars, userVars
    <2>2. Line(lo, hi)'
      BY <1>1, <1>2, <1>3, <2>1 DEF Line, Closing
    <2> QED
      BY <1>3, <2>1, <2>2 DEF InLine
  <1> QED
    BY <1>4, <1>5, <1>6, <1>7 DEF Producer

LEMMA ConsumerInLine ==
    ASSUME IInv, TypeOK',
           NextBegin \/ NextReturns \/ CloseBegin \/ CloseReturns \/ Cancel \/ UNCHANGED vars
    PROVE  InLine'
  <1>0. PICK lo \in Len(got)..made : \E hi \in lo..made : Line(lo, hi)
    BY DEF IInv, InLine
  <1>1. PICK hi \in lo..made : Line(lo, hi)
    BY <1>0
  <1>2. Len(got) \in Nat /\ made \in Int /\ lo \in Int /\ hi \in Int /\ got \in Seq(BatchIds)
    BY FileScanAssumption, LenProperties DEF IInv, TypeOK
  <1>3. made' = made /\ ppc' = ppc
    BY DEF NextBegin, NextReturns, NextCancelled, NextBatch, NextTerminal, CloseBegin,
           CloseReturns, DrainOne, DrainEnd, Cancel, vars
  <1>4. CASE NextBatch \/ DrainOne
    <2>1. /\ queue = [i \in 1..(hi - lo) |-> lo + i] /\ queue # <<>>
          /\ queue \in Seq(BatchIds) /\ queue' = Tail(queue)
      BY <1>1, <1>4 DEF Line, NextBatch, DrainOne, IInv, TypeOK
    <2>2. Len(queue) = hi - lo /\ hi - lo >= 1
      BY <1>2, <2>1, HeadAndTail
    <2>3. Head(queue) = lo + 1
      BY <1>2, <2>1, <2>2, HeadAndTail
    <2>4. queue' = [i \in 1..(hi - (lo + 1)) |-> (lo + 1) + i]
      <3>1. queue' = [i \in 1..(hi - lo - 1) |-> queue[i + 1]]
        BY <2>1, <2>2, HeadAndTail
      <3>2. \A i \in 1..(hi - lo - 1) : queue[i + 1] = (lo + 1) + i
        BY <1>2, <2>1
      <3>3. hi - lo - 1 = hi - (lo + 1)
        BY <1>2
      <3> QED
        BY <3>1, <3>2, <3>3
    <2>5. CASE NextBatch
      <3>1. lo = Len(got) /\ ~Closing /\ ~Closing'
        BY <1>1, <2>5 DEF Line, NextBatch, Closing
      <3>2. /\ got' = Append(got, lo + 1) /\ Len(got') = lo + 1 /\ got' \in Seq(BatchIds)
            /\ \A i \in 1..(lo + 1) : got'[i] = i
        <4>1. got' = Append(got, lo + 1) /\ got' \in Seq(BatchIds)
          BY <2>3, <2>5 DEF NextBatch, TypeOK
        <4>2. \A i \in 1..Len(got) : got[i] = i
          BY <1>1 DEF Line
        <4> QED
          BY <1>2, <3>1, <4>1, <4>2
      <3>3. got' = [i \in 1..Len(got') |-> i]
        BY <3>2, LenProperties
      <3>4. Line(lo + 1, hi)'
        BY <1>1, <1>2, <1>3, <2>4, <2>5, <3>1, <3>2, <3>3 DEF Line, NextBatch
      <3>5. lo + 1 \in (Len(got)..made)' /\ hi \in ((lo + 1)..made)'
        BY <1>2, <1>3, <2>2, <3>2
      <3> QED
        BY <3>4, <3>5 DEF InLine
    <2>6. CASE DrainOne
      <3>1. got' = got /\ dropped' = dropped \union {lo + 1} /\ Closing'
        BY <2>3, <2>6 DEF DrainOne, Closing
      <3>2. dropped' = ((Len(got) + 1)..(lo + 1))
                          \union (IF ppc = "send" THEN {} ELSE (hi + 1)..made)
        <4>1. ((Len(got) + 1)..lo) \union {lo + 1} = (Len(got) + 1)..(lo + 1)
          BY <1>2
        <4> QED
          BY <1>1, <3>1, <4>1 DEF Line
      <3>3. Line(lo + 1, hi)'
        BY <1>1, <1>2, <1>3, <2>4, <3>1, <3>2 DEF Line
      <3>4. lo + 1 \in (Len(got)..made)' /\ hi \in ((lo + 1)..made)'
        BY <1>2, <1>3, <2>2, <3>1
      <3> QED
        BY <3>3, <3>4 DEF InLine
    <2> QED
      BY <1>4, <2>5, <2>6
  <1>5. CASE ~(NextBatch \/ DrainOne)
    <2>1. got' = got /\ queue' = queue /\ dropped' = dropped /\ (Closing => Closing')
      BY <1>5 DEF NextBegin, NextReturns, NextCancelled, NextTerminal, CloseBegin,
           CloseReturns, DrainEnd, Cancel, vars, chanVars, userVars, Closing
    <2>2. Line(lo, hi)'
      BY <1>1, <1>3, <2>1 DEF Line
    <2> QED
      BY <1>3, <2>1, <2>2 DEF InLine
  <1> QED
    BY <1>4, <1>5

(* Why the producer and the consumer are where they are. *)
LEMMA NextReasons ==
    ASSUME IInv, [Next]_vars
    PROVE  (DoneReason /\ ProducerReason /\ ConsumerReason /\ ErrorBeforeEOF)'
  <1> USE DEF IInv, TypeOK, DoneReason, ProducerReason, ConsumerReason, ErrorBeforeEOF,
              Closing, Errors
  <1>1. CASE Produce
    BY <1>1 DEF Produce, chanVars, userVars
  <1>2. CASE Send
    BY <1>2 DEF Send, userVars
  <1>3. CASE Abandon
    BY <1>3 DEF Abandon, chanVars
  <1>4. CASE Finish
    BY <1>4 DEF Finish, chanVars, userVars
  <1>5. CASE ReadFails
    BY <1>5 DEF ReadFails, chanVars, userVars
  <1>6. CASE Report
    <2>1. errs = <<>> /\ ~chanClosed
      BY <1>6 DEF Report
    <2>2. /\ errs' # <<>>
          /\ Head(errs') = IF ppc = "report" THEN "read" ELSE "aborted"
      BY <1>6, <2>1 DEF Report
    <2> QED
      BY <1>6, <2>1, <2>2 DEF Report, userVars
  <1>7. CASE CloseBatches
    BY <1>7 DEF CloseBatches, userVars
  <1>8. CASE NextBegin
    BY <1>8 DEF NextBegin, chanVars
  <1>9. CASE NextCancelled
    BY <1>9 DEF NextCancelled, chanVars
  <1>10. CASE NextBatch
    BY <1>10 DEF NextBatch
  <1>11. CASE NextTerminal
    <2>1. errs # <<>> => Head(errs) \in Errors /\ errs' = <<>>
      <3>1. errs \in Seq(Errors) /\ Len(errs) <= 1
        OBVIOUS
      <3> QED
        BY <1>11, <3>1, ShortTail DEF NextTerminal
    <2>2. ~done /\ ppc = "exit"
      BY <1>11 DEF NextTerminal
    <2> QED
      BY <1>11, <2>1, <2>2 DEF NextTerminal
  <1>12. CASE CloseBegin
    BY <1>12 DEF CloseBegin
  <1>13. CASE DrainOne
    BY <1>13 DEF DrainOne
  <1>14. CASE DrainEnd
    BY <1>14 DEF DrainEnd, chanVars
  <1>15. CASE Cancel
    BY <1>15 DEF Cancel, chanVars
  <1>16. CASE UNCHANGED vars
    BY <1>16 DEF vars, chanVars, userVars
  <1> QED
    BY <1>1, <1>2, <1>3, <1>4, <1>5, <1>6, <1>7, <1>8, <1>9, <1>10, <1>11, <1>12,
       <1>13, <1>14, <1>15, <1>16 DEF Next, Producer, NextReturns, CloseReturns, Over

LEMMA NextIInv == IInv /\ [Next]_vars => IInv'
  <1> SUFFICES ASSUME IInv, [Next]_vars
               PROVE  IInv'
    OBVIOUS
  <1>1. TypeOK'
    BY NextTypeOK DEF IInv
  <1>2. InLine'
    BY <1>1, ProducerInLine, ConsumerInLine DEF Next, Over
  <1> QED
    BY <1>1, <1>2, NextReasons DEF IInv

LEMMA Invariance == Spec => []IInv
  BY InitIInv, NextIInv, PTL DEF Spec

-----------------------------------------------------------------------------
(* What the consumer relies on. *)

(* The batches come out of Next in file order, from the first one, with no
   gap and no repetition. *)
THEOREM BatchesInFileOrder == Spec => []InFileOrder
  <1>1. IInv => InFileOrder
    BY DEF IInv, InLine, Line, InFileOrder
  <1> QED
    BY <1>1, Invariance, PTL

(* Neither the end of the file nor an abort hides an error: io.EOF means that
   the whole file was read, and errScanClosed never reaches the consumer. *)
THEOREM EOFIsWholeFile == Spec => []ErrorBeforeEOF
  <1>1. IInv => ErrorBeforeEOF
    BY DEF IInv
  <1> QED
    BY <1>1, Invariance, PTL

LEMMA LineElems ==
    ASSUME TypeOK, NEW lo \in Len(got)..made, NEW hi \in lo..made, Line(lo, hi)
    PROVE  /\ Elems(got) = 1..Len(got)
           /\ Elems(queue) = (lo + 1)..hi
           /\ Len(queue) = hi - lo /\ Len(got) \in Nat
           /\ made \in Nat
  <1>1. /\ Len(got) \in Nat /\ made \in Nat /\ lo \in Int /\ hi \in Int
        /\ hi - lo \in Nat
    BY FileScanAssumption, LenProperties DEF TypeOK
  <1>2. got = [i \in 1..Len(got) |-> i] /\ queue = [i \in 1..(hi - lo) |-> lo + i]
    BY DEF Line
  <1>3. Len(queue) = hi - lo
    BY <1>1, <1>2
  <1>4. Elems(got) = 1..Len(got)
    BY <1>1, <1>2 DEF Elems
  <1>5. Elems(queue) = (lo + 1)..hi
    <2>1. ASSUME NEW b \in (lo + 1)..hi
          PROVE  b \in Elems(queue)
      <3>1. b - lo \in 1..Len(queue) /\ queue[b - lo] = b
        BY <1>1, <1>2, <1>3
      <3> QED
        BY <3>1 DEF Elems
    <2>2. ASSUME NEW b \in Elems(queue)
          PROVE  b \in (lo + 1)..hi
      <3>1. PICK i \in 1..Len(queue) : b = queue[i]
        BY DEF Elems
      <3>2. b = lo + i
        BY <1>2, <1>3, <3>1
      <3> QED
        BY <1>1, <1>3, <3>2
    <2> QED
      BY <2>1, <2>2
  <1> QED
    BY <1>1, <1>3, <1>4, <1>5

(* When Close has returned the producer has exited, the channel is empty, and
   every batch it read is with the consumer or was released. *)
THEOREM CloseReleasesAll == Spec => []ClosedReleasesAll
  <1>1. IInv => ClosedReleasesAll
    <2> SUFFICES ASSUME IInv, cpc = "closed"
                 PROVE  /\ ppc = "exit" /\ queue = <<>>
                        /\ 1..made = Elems(got) \union dropped
      BY DEF ClosedReleasesAll
    <2>1. ppc = "exit" /\ queue = <<>>
      BY DEF IInv, ConsumerReason, ProducerReason
    <2>2. PICK lo \in Len(got)..made : \E hi \in lo..made : Line(lo, hi)
      BY DEF IInv, InLine
    <2>3. PICK hi \in lo..made : Line(lo, hi)
      BY <2>2
    <2>4. /\ Elems(got) = 1..Len(got) /\ Len(queue) = hi - lo
          /\ Len(got) \in Nat /\ made \in Nat
      BY <2>3, LineElems DEF IInv
    <2>5. hi = lo
      BY <2>1, <2>4
    <2>6. dropped = ((Len(got) + 1)..lo) \union ((hi + 1)..made)
      BY <2>1, <2>3 DEF Line
    <2> QED
      BY <2>1, <2>4, <2>5, <2>6
  <1> QED
    BY <1>1, Invariance, PTL

LEMMA LineOwners ==
    ASSUME TypeOK, NEW lo \in Len(got)..made, NEW hi \in lo..made, Line(lo, hi)
    PROVE  LET held == IF ppc = "send" THEN <<made>> ELSE <<>>
               line == got \o queue \o held
           IN  /\ Elems(line) \union dropped = 1..made
               /\ Elems(line) \intersect dropped = {}
               /\ \A i, j \in 1..Len(line) : i < j => line[i] < line[j]
  <1> DEFINE held == IF ppc = "send" THEN <<made>> ELSE <<>>
             line == got \o queue \o held
             top  == IF ppc = "send" THEN hi + 1 ELSE hi
             g    == Len(got)
  <1>1. /\ g \in Nat /\ made \in Nat /\ lo \in Int /\ hi \in Int
        /\ Len(queue) = hi - lo /\ g <= lo /\ lo <= hi /\ hi <= made
    <2>1. g \in Nat /\ made \in Nat /\ Len(queue) = hi - lo
      BY LineElems
    <2> QED
      BY <2>1
  <1>2. /\ \A i \in 1..g : got[i] = i
        /\ \A i \in 1..(hi - lo) : queue[i] = lo + i
        /\ ppc = "send" => made = hi + 1
    <2>1. /\ got = [i \in 1..g |-> i] /\ queue = [i \in 1..(hi - lo) |-> lo + i]
          /\ ppc = "send" => hi = made - 1
      BY DEF Line
    <2> QED
      BY <1>1, <2>1
  <1>3. /\ got \in Seq(Int) /\ queue \in Seq(Int) /\ held \in Seq(Int)
        /\ Len(held) = top - hi /\ (ppc = "send" => held[1] = made)
    <2>1. held \in Seq(Int) /\ Len(held) = top - hi
      BY <1>1
    <2> QED
      <3>1. BatchIds \subseteq Int /\ got \in Seq(BatchIds) /\ queue \in Seq(BatchIds)
        BY FileScanAssumption DEF BatchIds, TypeOK
      <3>2. got \in Seq(Int) /\ queue \in Seq(Int)
        BY <3>1, SeqMonotonic
      <3> QED
        BY <2>1, <3>2
  <1>4. /\ Len(line) = g + (top - lo)
        /\ \A i \in 1..Len(line) : line[i] = IF i <= g THEN i ELSE lo + (i - g)
    <2> DEFINE front == got \o queue
    <2>1. /\ front \in Seq(Int) /\ Len(front) = g + (hi - lo)
          /\ \A i \in 1..Len(front) :
                 front[i] = IF i <= g THEN got[i] ELSE queue[i - g]
      BY <1>1, <1>3, ConcatProperties
    <2> HIDE DEF front
    <2>2. /\ Len(front \o held) = Len(front) + (top - hi)
          /\ \A i \in 1..Len(front \o held) :
                 (front \o held)[i] = IF i <= Len(front) THEN front[i] ELSE held[i - Len(front)]
      <3>1. held \in Seq(Int) /\ Len(held) = top - hi
        BY <1>3
      <3> HIDE DEF held, top, line, g
      <3> QED
        <4>1. /\ Len(front \o held) = Len(front) + Len(held)
              /\ \A i \in 1..(Len(front) + Len(held)) : (front \o held)[i] =
                     IF i <= Len(front) THEN front[i] ELSE held[i - Len(front)]
          BY <2>1, <3>1, ConcatProperties
        <4> QED
          BY <3>1, <4>1
    <2>3. line = front \o held
      BY DEF front
    <2>4. Len(line) = g + (top - lo) /\ top \in {hi, hi + 1} /\ (top = hi + 1 => ppc = "send")
      BY <1>1, <2>1, <2>2, <2>3
    <2>5. ASSUME NEW i \in 1..Len(line)
          PROVE  line[i] = IF i <= g THEN i ELSE lo + (i - g)
      <3> HIDE DEF line, held, top, g
      <3>1. CASE i <= g
        <4>1. i \in 1..Len(front) /\ i \in 1..g
          BY <1>1, <2>1, <2>4, <3>1
        <4> QED
          BY <1>2, <2>1, <2>2, <2>3, <3>1, <4>1
      <3>2. CASE g < i /\ i <= g + (hi - lo)
        <4>1. i \in 1..Len(front) /\ ~(i <= g) /\ i - g \in 1..(hi - lo)
          BY <1>1, <2>1, <2>4, <3>2
        <4>2. line[i] = front[i]
          BY <2>1, <2>2, <2>3, <2>4, <3>2, <1>1
        <4>3. front[i] = queue[i - g] /\ queue[i - g] = lo + (i - g)
          BY <1>2, <2>1, <4>1
        <4> QED
          BY <4>1, <4>2, <4>3
      <3>3. CASE g + (hi - lo) < i
        <4>1. /\ i = g + (hi - lo) + 1 /\ top = hi + 1 /\ ~(i <= g)
              /\ i - Len(front) = 1 /\ ~(i <= Len(front)) /\ lo + (i - g) = hi + 1
          BY <1>1, <2>1, <2>4, <3>3
        <4> QED
          BY <1>2, <1>3, <2>2, <2>3, <2>4, <4>1
      <3> QED
        BY <1>1, <2>4, <3>1, <3>2, <3>3
    <2> QED
      BY <2>4, <2>5
  <1>5. top \in Int /\ lo <= top /\ top <= made /\ (ppc = "send" => top = made)
        /\ (ppc # "send" => top = hi)
    BY <1>1, <1>2
  <1>6. dropped = ((g + 1)..lo) \union ((top + 1)..made)
    <2>1. dropped = ((g + 1)..lo) \union (IF ppc = "send" THEN {} ELSE (hi + 1)..made)
      BY DEF Line
    <2>2. (IF ppc = "send" THEN {} ELSE (hi + 1)..made) = (top + 1)..made
      BY <1>1, <1>5
    <2> QED
      BY <2>1, <2>2
  <1> HIDE DEF line, held, top, g
  <1>7. Elems(line) = (1..g) \union ((lo + 1)..top)
    <2>1. ASSUME NEW b \in Elems(line)
          PROVE  b \in (1..g) \union ((lo + 1)..top)
      <3>1. PICK i \in 1..Len(line) : b = line[i]
        BY DEF Elems
      <3> QED
        BY <1>1, <1>4, <1>5, <3>1
    <2>2. ASSUME NEW b \in 1..g
          PROVE  b \in Elems(line)
      <3>1. b \in 1..Len(line) /\ line[b] = b
        BY <1>1, <1>4, <1>5
      <3> QED
        BY <3>1 DEF Elems
    <2>3. ASSUME NEW b \in (lo + 1)..top
          PROVE  b \in Elems(line)
      <3>1. /\ g + (b - lo) \in 1..Len(line) /\ ~(g + (b - lo) <= g)
            /\ lo + ((g + (b - lo)) - g) = b
        BY <1>1, <1>4, <1>5
      <3>2. line[g + (b - lo)] = b
        BY <1>4, <3>1
      <3> QED
        BY <3>1, <3>2 DEF Elems
    <2> QED
      BY <2>1, <2>2, <2>3
  <1>8. Elems(line) \union dropped = 1..made /\ Elems(line) \intersect dropped = {}
    BY <1>1, <1>5, <1>6, <1>7
  <1>9. \A i, j \in 1..Len(line) : i < j => line[i] < line[j]
    BY <1>1, <1>4, <1>5
  <1> QED
    BY <1>8, <1>9 DEF line, held

(* Every batch that was read has exactly one owner: the consumer, the channel,
   the producer, or, only after Close began, nobody any more. *)
THEOREM EveryBatchHasOneOwner == Spec => []OneOwner
  <1>1. IInv => OneOwner
    <2> SUFFICES ASSUME IInv
                 PROVE  OneOwner
      OBVIOUS
    <2>1. PICK lo \in Len(got)..made : \E hi \in lo..made : Line(lo, hi)
      BY DEF IInv, InLine
    <2>2. PICK hi \in lo..made : Line(lo, hi)
      BY <2>1
    <2>3. dropped # {} => cpc \in {"drain", "closed"}
      BY DEF IInv, DoneReason, Closing
    <2> QED
      BY <2>2, <2>3, LineOwners DEF OneOwner, IInv
  <1> QED
    BY <1>1, Invariance, PTL

-----------------------------------------------------------------------------
(* The scan implements BatchSource. *)

LEMMA InitMaps == Init => Source!Init
  BY DEF Init, Source!Init, Outcome, Elems

LEMMA StepMaps ==
    ASSUME IInv, [Next]_vars
    PROVE  [Source!Next]_(Source!sourceVars)
  <1> USE DEF Source!sourceVars
  <1>0. PICK lo \in Len(got)..made : \E hi \in lo..made : Line(lo, hi)
    BY DEF IInv, InLine
  <1>1. PICK hi \in lo..made : Line(lo, hi)
    BY <1>0
  <1>2. /\ Elems(got) = 1..Len(got) /\ Len(queue) = hi - lo
        /\ Len(got) \in Nat /\ made \in Nat /\ lo \in Int /\ hi \in Int
    BY <1>1, LineElems DEF IInv
  <1>3. CASE UNCHANGED <<got, cpc, terminal>>
    <2>1. Outcome' = Outcome
      BY <1>3 DEF Outcome
    <2> QED
      BY <1>3, <2>1
  <1>4. CASE NextBegin \/ NextCancelled \/ DrainOne \/ DrainEnd
    <2>1. got' = got /\ terminal' = terminal /\ (Closing' <=> Closing)
      BY <1>4 DEF NextBegin, NextCancelled, DrainOne, DrainEnd, Closing
    <2>2. Outcome' = Outcome
      BY <2>1 DEF Outcome, Closing
    <2> QED
      BY <2>1, <2>2
  <1>5. CASE NextBatch
    <2>1. /\ lo = Len(got) /\ queue # <<>> /\ queue \in Seq(BatchIds)
          /\ queue = [i \in 1..(hi - lo) |-> lo + i]
          /\ got' = Append(got, Head(queue)) /\ got \in Seq(BatchIds)
          /\ terminal' = terminal /\ cpc = "select" /\ cpc' = "ready"
      BY <1>1, <1>5 DEF NextBatch, Line, Closing, IInv, TypeOK
    <2>2. Head(queue) = lo + 1 /\ lo + 1 \in BatchIds
      <3>1. Head(queue) = queue[1] /\ Len(queue) \in Nat \ {0} /\ Head(queue) \in BatchIds
        BY <2>1, HeadAndTail
      <3>2. 1 \in 1..(hi - lo)
        BY <1>2, <3>1
      <3> QED
        BY <2>1, <3>1, <3>2
    <2>3. Elems(got') = Elems(got) \union {lo + 1}
      <3>1. /\ Len(got') = lo + 1 /\ got'[lo + 1] = lo + 1
            /\ \A i \in 1..lo : got'[i] = got[i]
        BY <1>2, <2>1, <2>2
      <3>2. 1..(lo + 1) = (1..lo) \union {lo + 1}
        BY <1>2, <2>1
      <3>3. Elems(got) = {got[i] : i \in 1..lo}
        BY <2>1 DEF Elems
      <3>4. Elems(got') = {got'[i] : i \in (1..lo) \union {lo + 1}}
        BY <3>1, <3>2 DEF Elems
      <3> QED
        BY <3>1, <3>3, <3>4
    <2>4. lo + 1 \notin Elems(got)
      BY <1>2, <2>1
    <2>5. terminal = "open"
      BY <2>1 DEF IInv, ConsumerReason
    <2>6. Outcome = "open" /\ Outcome' = "open"
      BY <2>1, <2>5 DEF Outcome
    <2>7. Source!Deliver(lo + 1)
      BY <2>2, <2>3, <2>4, <2>6 DEF Source!Deliver
    <2> QED
      BY <2>2, <2>7 DEF Source!Next
  <1>6. CASE NextTerminal
    <2>1. /\ got' = got /\ cpc = "select" /\ cpc' = "ready" /\ queue = <<>> /\ chanClosed
          /\ terminal' = IF terminal # "open" THEN terminal
                         ELSE IF errs = <<>> THEN "eof" ELSE Head(errs)
          /\ terminal \in {"open", "eof"} \union Errors
          /\ errs # <<>> => Head(errs) \in Errors
      <3>1. errs # <<>> => Head(errs) \in Errors
        BY HeadAndTail DEF IInv, TypeOK
      <3> QED
        BY <1>6, <3>1 DEF NextTerminal, IInv, TypeOK
    <2>2. CASE terminal # "open"
      BY <1>3, <2>1, <2>2 DEF Outcome, Errors
    <2>3. CASE terminal = "open" /\ errs = <<>>
      <3>1. made = NumBatches /\ ppc = "exit"
        BY <2>1, <2>3 DEF IInv, ConsumerReason, ProducerReason, DoneReason, Closing, Errors
      <3>2. lo = Len(got) /\ hi = lo
        <4>1. Len(queue) = 0
          BY <2>1
        <4>2. lo = Len(got)
          BY <1>1, <2>1 DEF Line, Closing
        <4> QED
          BY <1>2, <4>1, <4>2
      <3>3. dropped = {} /\ (hi + 1)..made \subseteq dropped
        BY <1>1, <2>1, <3>1 DEF Line, IInv, DoneReason, Closing
      <3>4. Elems(got) = BatchIds
        <4>1. ~(hi < made)
          BY <1>2, <3>3
        <4>2. Len(got) = made
          BY <1>2, <3>2, <4>1
        <4> QED
          BY <1>2, <3>1, <4>2 DEF BatchIds
      <3>5. Source!End
        BY <2>1, <2>3, <3>4 DEF Source!End, Outcome
      <3> QED
        BY <3>5 DEF Source!Next
    <2>4. CASE terminal = "open" /\ errs # <<>>
      <3>1. Source!Fail
        BY <2>1, <2>4 DEF Source!Fail, Outcome, Errors
      <3> QED
        BY <3>1 DEF Source!Next
    <2> QED
      BY <2>2, <2>3, <2>4
  <1>7. CASE CloseBegin
    <2>1. cpc = "ready" /\ cpc' = "drain" /\ got' = got
      BY <1>7 DEF CloseBegin
    <2>2. Outcome # "closed" /\ Outcome' = "closed"
      BY <2>1 DEF Outcome
    <2>3. Source!Close
      BY <2>1, <2>2 DEF Source!Close
    <2> QED
      BY <2>3 DEF Source!Next
  <1>8. CASE Producer \/ Cancel \/ UNCHANGED vars
    <2>1. UNCHANGED <<got, cpc, terminal>>
      BY <1>8 DEF Producer, Produce, Send, Abandon, Finish, ReadFails, Report,
                  CloseBatches, Cancel, vars, userVars
    <2> QED
      BY <1>3, <2>1
  <1> QED
    BY <1>3, <1>4, <1>5, <1>6, <1>7, <1>8 DEF Next, NextReturns, CloseReturns, Over

(* The single-producer scan is a BatchSource: the consumer sees the batches of
   the source at most once each, and io.EOF only after all of them. *)
THEOREM ScanIsBatchSource == Spec => ImplementsBatchSource
  <1>1. IInv /\ [Next]_vars => [Source!Next]_(Source!sourceVars)
    BY StepMaps
  <1> QED
    BY <1>1, InitMaps, Invariance, PTL DEF Spec, ImplementsBatchSource, Source!Spec
=============================================================================
