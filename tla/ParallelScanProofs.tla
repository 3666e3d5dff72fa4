-------------------------- MODULE ParallelScanProofs --------------------------
(***************************************************************************)
(* Theorems about ParallelScan for every number of workers and batches,    *)
(* every set of failing subs, and both ways a sub can return the callback's*)
(* error.                                                                  *)
(***************************************************************************)
EXTENDS ParallelScan, FiniteSetTheorems, TLAPS

(* What Append, Head and Tail do to the elements of a sequence. *)
LEMMA ElemsAppend ==
    ASSUME NEW S, NEW s \in Seq(S), NEW e \in S
    PROVE  Elems(Append(s, e)) = Elems(s) \union {e}
  <1>1. /\ Len(Append(s, e)) = Len(s) + 1
        /\ Append(s, e)[Len(s) + 1] = e
        /\ \A i \in 1..Len(s) : Append(s, e)[i] = s[i]
    OBVIOUS
  <1>2. Len(s) \in Nat
    OBVIOUS
  <1>3. 1..Len(Append(s, e)) = 1..Len(s) \union {Len(s) + 1}
    BY <1>1, <1>2
  <1> QED
    BY <1>1, <1>2, <1>3 DEF Elems

LEMMA ElemsHeadTail ==
    ASSUME NEW S, NEW s \in Seq(S), s # <<>>
    PROVE  /\ Head(s) \in S /\ Head(s) = s[1] /\ Tail(s) \in Seq(S)
           /\ Len(Tail(s)) = Len(s) - 1 /\ Len(s) \in Nat \ {0}
           /\ \A i \in 1..Len(Tail(s)) : Tail(s)[i] = s[i + 1]
           /\ Elems(s) = {Head(s)} \union Elems(Tail(s))
  <1>1. /\ Head(s) \in S /\ Head(s) = s[1] /\ Tail(s) \in Seq(S)
        /\ Len(Tail(s)) = Len(s) - 1 /\ Len(s) \in Nat \ {0}
        /\ \A i \in 1..Len(Tail(s)) : Tail(s)[i] = s[i + 1]
    OBVIOUS
  <1>2. Elems(s) \subseteq {Head(s)} \union Elems(Tail(s))
    <2> SUFFICES ASSUME NEW i \in 1..Len(s), i # 1
                 PROVE  s[i] \in Elems(Tail(s))
      BY <1>1 DEF Elems
    <2>1. i - 1 \in 1..Len(Tail(s)) /\ Tail(s)[i - 1] = s[i]
      BY <1>1
    <2> QED
      BY <2>1 DEF Elems
  <1>3. {Head(s)} \union Elems(Tail(s)) \subseteq Elems(s)
    <2>1. Head(s) \in Elems(s)
      BY <1>1 DEF Elems
    <2>2. ASSUME NEW i \in 1..Len(Tail(s))
          PROVE  Tail(s)[i] \in Elems(s)
      <3>1. i + 1 \in 1..Len(s) /\ Tail(s)[i] = s[i + 1]
        BY <1>1
      <3> QED
        BY <3>1 DEF Elems
    <2> QED
      BY <2>1, <2>2 DEF Elems
  <1> QED
    BY <1>1, <1>2, <1>3

LEMMA ElemsTyped ==
    ASSUME NEW S, NEW s \in Seq(S)
    PROVE  Elems(s) \subseteq S /\ Elems(<<>>) = {}
  BY DEF Elems

(* The capacities of the two channels are natural numbers, and errs has room
   for at least one error. *)
LEMMA Capacities == BatchCap \in Nat /\ ErrCap \in Nat \ {0}
  <1>1. Cardinality(Subs) \in Nat
    BY ScanAssumption, FS_CardinalityType
  <1>2. Cardinality(Subs) # 0
    BY ScanAssumption, FS_EmptySet
  <1> QED
    BY <1>1, <1>2 DEF BatchCap, ErrCap

-----------------------------------------------------------------------------
(* Type correctness. *)

LEMMA InitTypeOK == Init => TypeOK
  <1> SUFFICES ASSUME Init
               PROVE  TypeOK
    OBVIOUS
  <1> USE ScanAssumption, Capacities DEF Init
  <1>1. /\ queue \in Seq(BatchIds) /\ Len(queue) <= BatchCap
        /\ errs \in Seq(Errors) /\ Len(errs) <= ErrCap
        /\ got \in Seq(BatchIds)
    OBVIOUS
  <1>2. wpc \in [Subs -> WorkerPCs] /\ made \in [Subs -> 0..NumBatches]
    BY DEF WorkerPCs
  <1> QED
    BY <1>1, <1>2 DEF TypeOK, ConsumerPCs

LEMMA NextTypeOK == TypeOK /\ [Next]_vars => TypeOK'
  <1> SUFFICES ASSUME TypeOK, [Next]_vars
               PROVE  TypeOK'
    OBVIOUS
  <1> USE ScanAssumption, Capacities DEF TypeOK, WorkerPCs, ConsumerPCs, Held
  <1>1. ASSUME NEW w \in Subs, Worker(w)
        PROVE  TypeOK'
    <2>1. CASE Produce(w)
      BY <2>1 DEF Produce, chanVars, userVars, BatchIds
    <2>2. CASE Send(w)
      BY <2>2 DEF Send, userVars
    <2>3. CASE Abandon(w)
      BY <2>3 DEF Abandon, chanVars
    <2>4. CASE Finish(w)
      BY <2>4 DEF Finish, chanVars, userVars
    <2>5. CASE ReadFails(w)
      BY <2>5 DEF ReadFails, chanVars, userVars
    <2>6. CASE Report(w)
      BY <2>6 DEF Report, Errors, userVars
    <2>7. CASE Signal(w)
      BY <2>7 DEF Signal, userVars
    <2> QED
      BY <1>1, <2>1, <2>2, <2>3, <2>4, <2>5, <2>6, <2>7 DEF Worker
  <1>2. CASE CloseBatches
    BY <1>2 DEF CloseBatches, workerVars, userVars
  <1>3. CASE NextBegin
    BY <1>3 DEF NextBegin, chanVars
  <1>4. CASE NextCancelled
    BY <1>4 DEF NextCancelled, workerVars, chanVars
  <1>5. CASE NextBatch
    BY <1>5, ElemsHeadTail DEF NextBatch, workerVars
  <1>6. CASE NextTerminal
    BY <1>6, ElemsHeadTail DEF NextTerminal, workerVars, Errors
  <1>7. CASE CloseBegin
    BY <1>7 DEF CloseBegin, workerVars, chanVars
  <1>8. CASE CloseDone
    BY <1>8 DEF CloseDone, workerVars
  <1>9. CASE DrainOne
    BY <1>9, ElemsHeadTail DEF DrainOne, workerVars
  <1>10. CASE DrainEnd
    BY <1>10 DEF DrainEnd, workerVars, chanVars
  <1>11. CASE Cancel
    BY <1>11 DEF Cancel, workerVars, chanVars
  <1>12. CASE UNCHANGED vars
    BY <1>12 DEF vars, workerVars, chanVars, userVars
  <1> QED
    BY <1>1, <1>2, <1>3, <1>4, <1>5, <1>6, <1>7, <1>8, <1>9, <1>10, <1>11, <1>12
       DEF Next, Consumer, NextReturns, CloseReturns, Over

(* Every variable keeps its type: the errs channel and the batches channel
   never exceed the capacity they are made with. *)
THEOREM TypeCorrect == Spec => []TypeOK
  BY InitTypeOK, NextTypeOK, PTL DEF Spec

-----------------------------------------------------------------------------
(* The inductive invariant. *)

LEMMA InitIInv == Init => IInv
  <1> SUFFICES ASSUME Init
               PROVE  IInv
    OBVIOUS
  <1>1. TypeOK
    BY InitTypeOK
  <1>2. Elems(got) = {} /\ Elems(queue) = {} /\ Len(queue) = 0 /\ Len(got) = 0
    BY DEF Init, Elems
  <1>3. NothingLost
    BY DEF Init, NothingLost, BatchIds
  <1>4. ChannelOrder
    BY <1>2 DEF ChannelOrder
  <1> QED
    BY <1>1, <1>3, <1>4
       DEF Init, IInv, DropReason, DoneReason, WorkerReason, ClosedReason,
           TerminalReason, CompleteAtEOF, Errors, Closing

(* What Send does to the channel. *)
LEMMA SendElems ==
    ASSUME TypeOK, NEW w \in Subs, Send(w)
    PROVE  /\ <<w, made[w]>> \in BatchIds
           /\ Elems(queue') = Elems(queue) \union {<<w, made[w]>>}
           /\ Len(queue') = Len(queue) + 1 /\ Len(queue) \in Nat
           /\ queue'[Len(queue) + 1] = <<w, made[w]>>
           /\ \A i \in 1..Len(queue) : queue'[i] = queue[i]
  <1>1. <<w, made[w]>> \in BatchIds /\ queue \in Seq(BatchIds)
    BY DEF TypeOK, Send, Held
  <1>2. PICK e \in BatchIds : e = <<w, made[w]>>
    BY <1>1
  <1>3. queue' = Append(queue, e)
    BY <1>2 DEF Send, Held
  <1>4. Elems(queue') = Elems(queue) \union {e}
    BY <1>1, <1>3, ElemsAppend
  <1>5. /\ Len(queue') = Len(queue) + 1 /\ Len(queue) \in Nat
        /\ queue'[Len(queue) + 1] = e
        /\ \A i \in 1..Len(queue) : queue'[i] = queue[i]
    BY <1>1, <1>3
  <1> QED
    BY <1>1, <1>2, <1>4, <1>5

LEMMA SendChannelOrder ==
    ASSUME TypeOK, ChannelOrder, NEW w \in Subs, Send(w)
    PROVE  ChannelOrder'
  <1> DEFINE L == Len(queue)
             Sent == Elems(got) \union Elems(queue)
  <1>1. ASSUME NEW b \in Sent
        PROVE  /\ b[1] \in Subs /\ b[2] \in Int
               /\ b[2] <= made[b[1]] /\ ~InFlight(b) /\ ~InFlight(b)'
               /\ b[1] = w => b[2] < made[w]
    <2>1. b \in BatchIds
      BY ElemsTyped DEF TypeOK
    <2>2. b[1] \in Subs /\ b[2] \in Int /\ made[b[1]] \in Int
      BY <2>1 DEF BatchIds, TypeOK
    <2>3. b[2] <= made[b[1]] /\ ~InFlight(b)
      BY DEF ChannelOrder
    <2>4. ~InFlight(b)'
      BY <2>2, <2>3 DEF InFlight, Send, TypeOK
    <2>5. b[1] = w => b[2] # made[w]
      BY <2>3 DEF InFlight, Send
    <2> QED
      BY <2>2, <2>3, <2>4, <2>5
  <1>2. /\ \A i \in 1..L : queue[i] \in Sent
        /\ \A i \in 1..Len(got) : got[i] \in Sent
    BY DEF Elems
  <1>3. got' = got /\ made' = made
    BY DEF Send, userVars
  <1>4. PICK m \in Int : m = made[w]
    BY DEF TypeOK
  <1>5. /\ Len(queue') = L + 1 /\ L \in Nat
        /\ queue'[L + 1][1] = w /\ queue'[L + 1][2] = m
        /\ \A i \in 1..L : queue'[i] = queue[i]
    <2>1. queue'[L + 1] = <<w, m>>
      BY <1>4, SendElems
    <2>2. /\ Len(queue') = L + 1 /\ L \in Nat
          /\ \A i \in 1..L : queue'[i] = queue[i]
      BY SendElems
    <2>3. <<w, m>>[1] = w /\ <<w, m>>[2] = m
      OBVIOUS
    <2> QED
      BY <2>1, <2>2, <2>3
  <1>6. \A i, j \in 1..Len(queue') :
          i < j /\ queue'[i][1] = queue'[j][1] => queue'[i][2] < queue'[j][2]
    <2> SUFFICES ASSUME NEW i \in 1..Len(queue'), NEW j \in 1..Len(queue'),
                        i < j, queue'[i][1] = queue'[j][1]
                 PROVE  queue'[i][2] < queue'[j][2]
      OBVIOUS
    <2>1. i \in 1..L /\ queue'[i] = queue[i] /\ queue[i] \in Sent
      BY <1>2, <1>5
    <2>2. CASE j \in 1..L
      BY <1>5, <2>1, <2>2 DEF ChannelOrder
    <2>3. CASE j = L + 1
      BY <1>1, <1>4, <1>5, <2>1, <2>3
    <2> QED
      BY <1>5, <2>2, <2>3
  <1>7. \A i \in 1..Len(got), j \in 1..Len(queue') :
          got[i][1] = queue'[j][1] => got[i][2] < queue'[j][2]
    <2> SUFFICES ASSUME NEW i \in 1..Len(got), NEW j \in 1..Len(queue'),
                        got[i][1] = queue'[j][1]
                 PROVE  got[i][2] < queue'[j][2]
      OBVIOUS
    <2>2. CASE j \in 1..L
      BY <1>5, <2>2 DEF ChannelOrder
    <2>3. CASE j = L + 1
      BY <1>1, <1>2, <1>4, <1>5, <2>3
    <2> QED
      BY <1>5, <2>2, <2>3
  <1>8. LET b == <<w, made[w]>> IN b[2] <= made[b[1]] /\ ~InFlight(b)'
    BY <1>4 DEF InFlight, Send, TypeOK
  <1>9. \A b \in Elems(got') \union Elems(queue') : b[2] <= made'[b[1]] /\ ~InFlight(b)'
    BY <1>1, <1>3, <1>8, SendElems
  <1> HIDE DEF L, Sent
  <1> QED
    BY <1>3, <1>6, <1>7, <1>9 DEF ChannelOrder

LEMMA WorkerIInv ==
    ASSUME IInv, TypeOK', NEW w \in Subs, Worker(w)
    PROVE  IInv'
  <1> USE ScanAssumption DEF IInv, TypeOK, WorkerPCs, Held, InFlight
  <1>0. ~chanClosed
    BY DEF Worker, Produce, Send, Abandon, Finish, ReadFails, Report, Signal,
           ClosedReason
  <1>1. CASE Produce(w)
    <2> USE <1>1 DEF Produce, chanVars, userVars
    <2>1. NothingLost'
      <3> SUFFICES ASSUME NEW b \in BatchIds, b[2] <= made'[b[1]], ~InFlight(b)'
                   PROVE  b \in Elems(got) \/ b \in Elems(queue) \/ b \in dropped
        BY DEF NothingLost
      <3>1. b[1] \in Subs /\ b[2] \in 1..NumBatches
        BY DEF BatchIds
      <3>2. b[2] <= made[b[1]] /\ ~InFlight(b)
        BY <3>1
      <3> QED
        BY <3>2 DEF NothingLost
    <2>2. ChannelOrder'
      BY ElemsTyped DEF ChannelOrder, BatchIds
    <2> QED
      BY <2>1, <2>2 DEF DropReason, DoneReason, WorkerReason, ClosedReason,
         TerminalReason, CompleteAtEOF, Closing
  <1>2. CASE Send(w)
    <2> USE <1>2 DEF Send, userVars
    <2>1. Elems(queue') = Elems(queue) \union {<<w, made[w]>>}
      BY SendElems
    <2>2. NothingLost'
      <3> SUFFICES ASSUME NEW b \in BatchIds, b[2] <= made[b[1]]
                   PROVE  b \in Elems(got) \/ b \in Elems(queue') \/ b \in dropped
                          \/ InFlight(b)'
        BY DEF NothingLost
      <3>1. b[1] \in Subs /\ b = <<b[1], b[2]>>
        BY DEF BatchIds
      <3>2. CASE InFlight(b)
        BY <2>1, <3>1, <3>2
      <3> QED
        BY <2>1, <3>2 DEF NothingLost
    <2>3. ChannelOrder'
      BY SendChannelOrder
    <2> QED
      BY <1>0, <2>2, <2>3 DEF DropReason, DoneReason, WorkerReason, ClosedReason,
         TerminalReason, CompleteAtEOF, Closing
  <1>3. CASE Abandon(w)
    <2> USE <1>3 DEF Abandon, chanVars
    <2>1. NothingLost'
      <3> SUFFICES ASSUME NEW b \in BatchIds, b[2] <= made[b[1]]
                   PROVE  b \in Elems(got) \/ b \in Elems(queue) \/ b \in dropped'
                          \/ InFlight(b)'
        BY DEF NothingLost
      <3>1. b[1] \in Subs /\ b = <<b[1], b[2]>>
        BY DEF BatchIds
      <3> QED
        BY <3>1 DEF NothingLost
    <2>2. ChannelOrder'
      BY ElemsTyped DEF ChannelOrder, BatchIds
    <2> QED
      BY <1>0, <2>1, <2>2 DEF DropReason, DoneReason, WorkerReason, ClosedReason,
         TerminalReason, CompleteAtEOF, Closing
  <1>4. CASE Finish(w)
    <2> USE <1>4 DEF Finish, chanVars, userVars
    <2>1. NothingLost'
      BY DEF NothingLost, BatchIds
    <2>2. ChannelOrder'
      BY ElemsTyped DEF ChannelOrder, BatchIds
    <2> QED
      BY <1>0, <2>1, <2>2 DEF DropReason, DoneReason, WorkerReason, ClosedReason,
         TerminalReason, CompleteAtEOF, Closing
  <1>5. CASE ReadFails(w)
    <2> USE <1>5 DEF ReadFails, chanVars, userVars
    <2>1. NothingLost'
      BY DEF NothingLost, BatchIds
    <2>2. ChannelOrder'
      BY ElemsTyped DEF ChannelOrder, BatchIds
    <2> QED
      BY <1>0, <2>1, <2>2 DEF DropReason, DoneReason, WorkerReason, ClosedReason,
         TerminalReason, CompleteAtEOF, Closing
  <1>6. CASE Report(w)
    <2> USE <1>6 DEF Report, userVars
    <2>1. NothingLost'
      BY DEF NothingLost, BatchIds
    <2>2. ChannelOrder'
      BY ElemsTyped DEF ChannelOrder, BatchIds
    <2>3. terminal = "open"
      BY <1>0 DEF TerminalReason
    <2>4. errs' # <<>> /\ (errs # <<>> => Head(errs') = Head(errs))
      <3>1. CASE errs = <<>>
        BY <3>1, Capacities DEF Errors
      <3>2. CASE errs # <<>>
        <4>1. Len(errs) >= 1
          BY <3>2
        <4> QED
          BY <3>2, <4>1 DEF Errors
      <3> QED
        BY <3>1, <3>2
    <2>5. (errs = <<>> /\ Head(errs') = "aborted") => Closing
      BY <2>3, Capacities DEF WorkerReason, DoneReason, Errors
    <2> QED
      BY <1>0, <2>1, <2>2, <2>3, <2>4, <2>5
         DEF DropReason, DoneReason, WorkerReason, ClosedReason,
         TerminalReason, CompleteAtEOF, Closing
  <1>7. CASE Signal(w)
    <2> USE <1>7 DEF Signal, userVars
    <2>1. NothingLost'
      BY DEF NothingLost, BatchIds
    <2>2. ChannelOrder'
      BY ElemsTyped DEF ChannelOrder, BatchIds
    <2> QED
      BY <1>0, <2>1, <2>2 DEF DropReason, DoneReason, WorkerReason, ClosedReason,
         TerminalReason, CompleteAtEOF, Closing
  <1> QED
    BY <1>1, <1>2, <1>3, <1>4, <1>5, <1>6, <1>7 DEF Worker

LEMMA ConsumerIInv ==
    ASSUME IInv, TypeOK', Consumer
    PROVE  IInv'
  <1> USE ScanAssumption DEF IInv, TypeOK, ConsumerPCs, WorkerPCs, InFlight
  <1>1. CASE NextBegin
    <2> USE <1>1 DEF NextBegin, chanVars
    <2>1. NothingLost'
      BY DEF NothingLost, BatchIds
    <2>2. ChannelOrder'
      BY ElemsTyped DEF ChannelOrder, BatchIds
    <2> QED
      BY <2>1, <2>2 DEF DropReason, DoneReason, WorkerReason, ClosedReason,
         TerminalReason, CompleteAtEOF, Closing
  <1>2. CASE NextCancelled
    BY <1>2 DEF NextCancelled, workerVars, chanVars, NothingLost, ChannelOrder,
       DropReason, DoneReason, WorkerReason, ClosedReason,
       TerminalReason, CompleteAtEOF, Closing
  <1>3. CASE NextBatch
    <2> USE <1>3 DEF NextBatch, workerVars
    <2>1. /\ Elems(got') = Elems(got) \union {Head(queue)}
          /\ Elems(queue) = {Head(queue)} \union Elems(queue')
          /\ Head(queue) \in BatchIds
      BY ElemsAppend, ElemsHeadTail
    <2>2. NothingLost'
      BY <2>1 DEF NothingLost
    <2>3. ChannelOrder'
      <3>1. /\ Len(queue) \in Nat \ {0} /\ Len(queue') = Len(queue) - 1
            /\ Head(queue) = queue[1]
            /\ \A i \in 1..Len(queue') : queue'[i] = queue[i + 1] /\ i + 1 \in 1..Len(queue)
        BY ElemsHeadTail
      <3>2. /\ Len(got') = Len(got) + 1 /\ Len(got) \in Nat
            /\ got'[Len(got) + 1] = queue[1]
            /\ \A i \in 1..Len(got) : got'[i] = got[i]
        BY <2>1, <3>1
      <3>3. \A i, j \in 1..Len(queue') :
              i < j /\ queue'[i][1] = queue'[j][1] => queue'[i][2] < queue'[j][2]
        BY <3>1 DEF ChannelOrder
      <3>4. \A i \in 1..Len(got'), j \in 1..Len(queue') :
              got'[i][1] = queue'[j][1] => got'[i][2] < queue'[j][2]
        <4> SUFFICES ASSUME NEW i \in 1..Len(got'), NEW j \in 1..Len(queue'),
                            got'[i][1] = queue'[j][1]
                     PROVE  got'[i][2] < queue'[j][2]
          OBVIOUS
        <4>1. CASE i \in 1..Len(got)
          BY <3>1, <3>2, <4>1 DEF ChannelOrder
        <4>2. CASE i = Len(got) + 1
          <5>1. 1 \in 1..Len(queue) /\ j + 1 \in 1..Len(queue) /\ 1 < j + 1
            BY <3>1
          <5> QED
            BY <3>1, <3>2, <4>2, <5>1 DEF ChannelOrder
        <4> QED
          BY <3>2, <4>1, <4>2
      <3> QED
        BY <2>1, <3>3, <3>4 DEF ChannelOrder
    <2> QED
      BY <2>2, <2>3 DEF DropReason, DoneReason, WorkerReason, ClosedReason,
         TerminalReason, CompleteAtEOF, Closing
  <1>4. CASE NextTerminal
    <2> USE <1>4 DEF NextTerminal, workerVars
    <2>1. NothingLost' /\ ChannelOrder'
      BY DEF NothingLost, ChannelOrder
    <2>2. ~Closing /\ ~Closing'
      BY DEF Closing
    <2>3. errs # <<>> => Head(errs) \in Errors
      BY ElemsHeadTail
    <2>4. ASSUME terminal = "open", errs = <<>>
          PROVE  Elems(got) = BatchIds
      <3>1. ~done /\ dropped = {}
        BY <2>2, <2>4 DEF DoneReason, DropReason, Errors
      <3>2. \A v \in Subs : wpc[v] = "exit" /\ made[v] = NumBatches
        BY <3>1, <2>4 DEF ClosedReason, WorkerReason, Errors
      <3>3. Elems(queue) = {}
        BY DEF Elems
      <3>4. \A b \in BatchIds : b \in Elems(got)
        BY <3>1, <3>2, <3>3 DEF NothingLost, BatchIds
      <3> QED
        BY <3>4, ElemsTyped
    <2>5. CompleteAtEOF'
      BY <2>2, <2>3, <2>4 DEF CompleteAtEOF, Errors, TerminalReason
    <2>6. DoneReason' /\ WorkerReason'
      BY <2>2, <2>3 DEF DoneReason, WorkerReason, ClosedReason, Closing, TerminalReason, Errors
    <2>7. TerminalReason'
      BY <2>2, <2>3 DEF TerminalReason, Errors
    <2> QED
      BY <2>1, <2>5, <2>6, <2>7 DEF DropReason, ClosedReason
  <1>5. CASE CloseBegin
    BY <1>5 DEF CloseBegin, workerVars, chanVars, NothingLost, ChannelOrder,
       DropReason, DoneReason, WorkerReason, ClosedReason,
       TerminalReason, CompleteAtEOF, Closing
  <1>6. CASE CloseDone
    BY <1>6 DEF CloseDone, workerVars, NothingLost, ChannelOrder,
       DropReason, DoneReason, WorkerReason, ClosedReason,
       TerminalReason, CompleteAtEOF, Closing
  <1>7. CASE DrainOne
    <2> USE <1>7 DEF DrainOne, workerVars
    <2>1. Elems(queue) = {Head(queue)} \union Elems(queue')
      BY ElemsHeadTail
    <2>2. NothingLost'
      BY <2>1 DEF NothingLost
    <2>3. ChannelOrder'
      BY <2>1, ElemsHeadTail, ElemsTyped DEF ChannelOrder, BatchIds
    <2> QED
      BY <2>2, <2>3 DEF DropReason, DoneReason, WorkerReason, ClosedReason,
         TerminalReason, CompleteAtEOF, Closing
  <1>8. CASE DrainEnd
    BY <1>8 DEF DrainEnd, workerVars, chanVars, NothingLost, ChannelOrder,
       DropReason, DoneReason, WorkerReason, ClosedReason,
       TerminalReason, CompleteAtEOF, Closing
  <1> QED
    BY <1>1, <1>2, <1>3, <1>4, <1>5, <1>6, <1>7, <1>8
       DEF Consumer, NextReturns, CloseReturns

LEMMA NextIInv == IInv /\ [Next]_vars => IInv'
  <1> SUFFICES ASSUME IInv, [Next]_vars
               PROVE  IInv'
    OBVIOUS
  <1>0. TypeOK'
    BY NextTypeOK DEF IInv
  <1>1. ASSUME NEW w \in Subs, Worker(w)
        PROVE  IInv'
    BY <1>0, <1>1, WorkerIInv
  <1>2. CASE Consumer
    BY <1>0, <1>2, ConsumerIInv
  <1>3. CASE CloseBatches
    BY <1>0, <1>3 DEF CloseBatches, workerVars, userVars, IInv, InFlight,
       NothingLost, ChannelOrder, DropReason, DoneReason, WorkerReason, ClosedReason,
       TerminalReason, CompleteAtEOF, Closing
  <1>4. CASE Cancel
    BY <1>0, <1>4 DEF Cancel, workerVars, chanVars, IInv, InFlight,
       NothingLost, ChannelOrder, DropReason, DoneReason, WorkerReason, ClosedReason,
       TerminalReason, CompleteAtEOF, Closing
  <1>5. CASE UNCHANGED vars
    BY <1>0, <1>5 DEF vars, workerVars, chanVars, userVars, IInv, InFlight,
       NothingLost, ChannelOrder, DropReason, DoneReason, WorkerReason, ClosedReason,
       TerminalReason, CompleteAtEOF, Closing
  <1> QED
    BY <1>1, <1>2, <1>3, <1>4, <1>5 DEF Next, Over

LEMMA Invariance == Spec => []IInv
  BY InitIInv, NextIInv, PTL DEF Spec

(* io.EOF as the first answer of a scan means that every batch of every sub
   has come out of Next. *)
THEOREM EOFIsComplete == Spec => []CompleteAtEOF
  <1>1. IInv => CompleteAtEOF
    BY DEF IInv
  <1> QED
    BY <1>1, Invariance, PTL

(* When Close has returned, every worker has exited, the channel is empty and
   every batch is with the consumer or was released. *)
THEOREM CloseReleasesAll == Spec => []ClosedReleasesAll
  <1>1. IInv => ClosedReleasesAll
    <2> SUFFICES ASSUME IInv, cpc = "closed"
                 PROVE  /\ \A w \in Subs : wpc[w] = "exit"
                        /\ queue = <<>>
                        /\ \A w \in Subs : \A i \in 1..made[w] :
                               <<w, i>> \in Elems(got) \union dropped
      BY DEF ClosedReleasesAll
    <2>1. /\ queue = <<>> /\ \A w \in Subs : wpc[w] = "exit"
      BY DEF IInv, ClosedReason
    <2>2. ASSUME NEW w \in Subs, NEW i \in 1..made[w]
          PROVE  <<w, i>> \in Elems(got) \union dropped
      <3>0. made[w] \in 0..NumBatches /\ NumBatches \in Nat
        BY ScanAssumption DEF IInv, TypeOK
      <3>1. <<w, i>> \in BatchIds /\ <<w, i>>[1] = w /\ <<w, i>>[2] = i
        BY <3>0 DEF BatchIds
      <3>2. Elems(queue) = {}
        BY <2>1 DEF Elems
      <3>3. <<w, i>>[2] <= made[<<w, i>>[1]] /\ ~InFlight(<<w, i>>)
        BY <2>1, <3>0, <3>1 DEF InFlight
      <3> QED
        BY <3>1, <3>2, <3>3 DEF IInv, NothingLost
    <2> QED
      BY <2>1, <2>2
  <1> QED
    BY <1>1, Invariance, PTL

-----------------------------------------------------------------------------
(* The scan implements BatchSource. *)

LEMMA InitMaps == Init => Source!Init
  BY DEF Init, Source!Init, Outcome, Elems, Errors

LEMMA StepMaps ==
    ASSUME IInv, [Next]_vars
    PROVE  [Source!Next]_(Source!sourceVars)
  <1> USE DEF Source!sourceVars
  <1>1. ASSUME NEW w \in Subs, Worker(w)
        PROVE  UNCHANGED <<got, cpc, terminal>>
    BY <1>1 DEF Worker, Produce, Send, Abandon, Finish, ReadFails, Report, Signal, userVars
  <1>2. CASE UNCHANGED <<got, cpc, terminal>>
    <2>1. Outcome' = Outcome
      BY <1>2 DEF Outcome
    <2> QED
      BY <1>2, <2>1
  <1>3. CASE NextBegin \/ NextCancelled \/ CloseDone \/ DrainOne \/ DrainEnd
    <2>1. got' = got /\ terminal' = terminal /\ Closing' = Closing
      BY <1>3 DEF NextBegin, NextCancelled, CloseDone, DrainOne, DrainEnd, Closing
    <2>2. Outcome' = Outcome
      BY <2>1 DEF Outcome, Closing
    <2> QED
      BY <2>1, <2>2
  <1>4. CASE NextBatch
    <2>1. /\ queue # <<>> /\ queue \in Seq(BatchIds) /\ got \in Seq(BatchIds)
          /\ got' = Append(got, Head(queue))
          /\ terminal' = terminal /\ cpc' = "ready" /\ cpc = "select"
      BY <1>4 DEF NextBatch, IInv, TypeOK
    <2>2. Head(queue) \in BatchIds /\ Head(queue) = queue[1] /\ 1 \in 1..Len(queue)
      BY <2>1, ElemsHeadTail
    <2>3. Elems(got') = Elems(got) \union {Head(queue)}
      BY <2>1, <2>2, ElemsAppend
    <2>4. Head(queue) \notin Elems(got)
      <3>1. \A i \in 1..Len(got) : got[i] # queue[1]
        BY <2>2 DEF IInv, ChannelOrder, BatchIds
      <3> QED
        BY <2>2, <3>1 DEF Elems
    <2>5. terminal = "open"
      BY <2>1 DEF IInv, TerminalReason
    <2>6. Outcome = "open" /\ Outcome' = "open"
      BY <2>1, <2>5 DEF Outcome, Errors
    <2>7. Source!Deliver(Head(queue))
      BY <2>2, <2>3, <2>4, <2>6 DEF Source!Deliver
    <2> QED
      BY <2>2, <2>7 DEF Source!Next
  <1>5. CASE NextTerminal
    <2>1. /\ got' = got /\ cpc = "select" /\ cpc' = "ready"
          /\ terminal' = IF terminal # "open" THEN terminal
                         ELSE IF errs = <<>> THEN "eof" ELSE Head(errs)
          /\ terminal \in {"open", "eof"} \union Errors
          /\ CompleteAtEOF'
          /\ errs # <<>> => Head(errs) \in Errors
      <3>1. IInv'
        BY NextIInv
      <3>2. errs # <<>> => Head(errs) \in Errors
        BY ElemsHeadTail DEF IInv, TypeOK
      <3> QED
        BY <1>5, <3>1, <3>2 DEF NextTerminal, IInv, TypeOK
    <2>2. CASE terminal # "open"
      BY <1>2, <2>1, <2>2 DEF Outcome, Errors
    <2>3. CASE terminal = "open" /\ errs = <<>>
      <3>1. Source!End
        BY <2>1, <2>3 DEF Source!End, Outcome, CompleteAtEOF, Errors
      <3> QED
        BY <3>1 DEF Source!Next
    <2>4. CASE terminal = "open" /\ errs # <<>>
      <3>1. Source!Fail
        BY <2>1, <2>4 DEF Source!Fail, Outcome, Errors
      <3> QED
        BY <3>1 DEF Source!Next
    <2> QED
      BY <2>2, <2>3, <2>4
  <1>6. CASE CloseBegin
    <2>1. cpc = "ready" /\ cpc' \in {"closeDone", "drain"} /\ got' = got
      BY <1>6 DEF CloseBegin
    <2>2. Outcome # "closed" /\ Outcome' = "closed"
      BY <2>1 DEF Outcome, Errors
    <2>3. Source!Close
      BY <2>1, <2>2 DEF Source!Close
    <2> QED
      BY <2>3 DEF Source!Next
  <1>7. CASE CloseBatches \/ Cancel \/ UNCHANGED vars
    BY <1>2, <1>7 DEF CloseBatches, Cancel, vars, userVars
  <1> QED
    BY <1>1, <1>2, <1>3, <1>4, <1>5, <1>6, <1>7
       DEF Next, Consumer, NextReturns, CloseReturns, Over

(* The concurrent scan is a BatchSource: whatever the workers, the channels,
   errors and Close do, the consumer sees the batches of the source at most
   once each, and io.EOF only after all of them. *)
THEOREM ScanIsBatchSource == Spec => ImplementsBatchSource
  <1>1. IInv /\ [Next]_vars => [Source!Next]_(Source!sourceVars)
    BY StepMaps
  <1> QED
    BY <1>1, InitMaps, Invariance, PTL DEF Spec, ImplementsBatchSource, Source!Spec

-----------------------------------------------------------------------------
(* One owner for every batch, and the order of each sub. *)

LEMMA InitOInv == Init => OInv
  BY DEF Init, OInv, OwnersApart, AbandonedLast, DeliveredInOrder

LEMMA WorkerOInv ==
    ASSUME IInv, OInv, IInv', NEW w \in Subs, Worker(w)
    PROVE  OInv'
  <1> USE ScanAssumption
  <1>1. /\ wpc \in [Subs -> WorkerPCs] /\ made \in [Subs -> 0..NumBatches]
        /\ dropped \subseteq BatchIds /\ got \in Seq(BatchIds)
    BY DEF IInv, TypeOK
  <1>2. got' = got /\ cpc' = cpc
    BY DEF Worker, Produce, Send, Abandon, Finish, ReadFails, Report, Signal, userVars
  <1>3. DeliveredInOrder'
    BY <1>2 DEF OInv, DeliveredInOrder
  <1>4. ASSUME NEW b \in BatchIds
        PROVE  b[1] \in Subs /\ b[2] \in Int /\ made[b[1]] \in Int /\ b = <<b[1], b[2]>>
    BY <1>1 DEF BatchIds
  <1>5. CASE Produce(w)
    <2>1. /\ wpc' = [wpc EXCEPT ![w] = "send"] /\ made' = [made EXCEPT ![w] = @ + 1]
          /\ dropped' = dropped /\ queue' = queue /\ wpc[w] = "read"
      BY <1>5 DEF Produce, chanVars, userVars
    <2>2. ASSUME NEW b \in dropped
          PROVE  /\ b[2] <= made'[b[1]] /\ ~InFlight(b)'
                 /\ cpc \notin {"drain", "closed"} => b[1] # w
      <3>1. b[2] <= made[b[1]] /\ ~InFlight(b)
        BY DEF OInv, OwnersApart
      <3>2. CASE b[1] = w
        <4>1. made'[w] = made[w] + 1 /\ made[w] \in Int
          BY <1>1, <2>1
        <4>2. cpc \notin {"drain", "closed"} => FALSE
          BY <2>1, <3>2 DEF OInv, AbandonedLast
        <4> QED
          BY <1>1, <1>4, <3>1, <3>2, <4>1, <4>2 DEF InFlight
      <3>3. CASE b[1] # w
        BY <1>1, <1>4, <2>1, <3>1, <3>3 DEF InFlight
      <3> QED
        BY <3>2, <3>3
    <2>3. OwnersApart'
      BY <1>2, <2>1, <2>2 DEF OInv, OwnersApart
    <2>4. AbandonedLast'
      BY <1>1, <1>2, <1>4, <2>1, <2>2 DEF OInv, AbandonedLast
    <2> QED
      BY <1>3, <2>3, <2>4 DEF OInv
  <1>6. CASE Send(w)
    <2>1. /\ wpc' = [wpc EXCEPT ![w] = "read"] /\ made' = made
          /\ dropped' = dropped /\ wpc[w] = "send"
          /\ Elems(queue') = Elems(queue) \union {<<w, made[w]>>}
      BY <1>6, SendElems DEF Send, userVars, IInv
    <2>2. ASSUME NEW b \in dropped
          PROVE  /\ b[2] <= made[b[1]] /\ ~InFlight(b)' /\ b # <<w, made[w]>>
                 /\ b \notin Elems(got) \union Elems(queue)
                 /\ cpc \notin {"drain", "closed"} => b[1] # w
      <3>1. /\ b[2] <= made[b[1]] /\ ~InFlight(b)
            /\ b \notin Elems(got) \union Elems(queue)
        BY DEF OInv, OwnersApart
      <3>2. b # <<w, made[w]>>
        BY <2>1, <3>1 DEF InFlight
      <3>3. ~InFlight(b)'
        BY <1>1, <1>4, <2>1, <3>1 DEF InFlight
      <3>4. cpc \notin {"drain", "closed"} => b[1] # w
        BY <2>1 DEF OInv, AbandonedLast
      <3> QED
        BY <3>1, <3>2, <3>3, <3>4
    <2>3. OwnersApart'
      BY <1>2, <2>1, <2>2 DEF OInv, OwnersApart
    <2>4. AbandonedLast'
      BY <1>1, <1>2, <1>4, <2>1, <2>2 DEF OInv, AbandonedLast
    <2> QED
      BY <1>3, <2>3, <2>4 DEF OInv
  <1>7. CASE Abandon(w)
    <2>1. /\ made' = made /\ queue' = queue /\ wpc[w] = "send"
          /\ wpc'[w] \in {"reportAbort", "exit"}
          /\ \A v \in Subs \ {w} : wpc'[v] = wpc[v]
          /\ dropped' = dropped \union {<<w, made[w]>>}
      BY <1>1, <1>7 DEF Abandon, chanVars, Held
    <2>2. <<w, made[w]>> \in BatchIds /\ InFlight(<<w, made[w]>>)
      BY <2>1 DEF IInv, TypeOK, Held, InFlight
    <2>3. <<w, made[w]>> \notin Elems(got) \union Elems(queue)
      BY <2>2 DEF IInv, ChannelOrder
    <2>4. ASSUME NEW b \in dropped
          PROVE  /\ b[2] <= made[b[1]] /\ ~InFlight(b)'
                 /\ b \notin Elems(got) \union Elems(queue)
      <3>1. /\ b[2] <= made[b[1]] /\ ~InFlight(b)
            /\ b \notin Elems(got) \union Elems(queue)
        BY DEF OInv, OwnersApart
      <3> QED
        BY <1>1, <1>4, <2>1, <3>1 DEF InFlight
    <2>5. OwnersApart'
      <3> DEFINE h == <<w, made[w]>>
      <3>1. h[2] <= made'[h[1]] /\ ~InFlight(h)' /\ h \notin Elems(got') \union Elems(queue')
        <4>1. h[1] = w /\ h[2] = made[w] /\ made[w] \in Int
          BY <1>1
        <4> QED
          BY <1>2, <2>1, <2>3, <4>1 DEF InFlight
      <3> HIDE DEF h
      <3>2. dropped' = dropped \union {h}
        BY <2>1 DEF h
      <3> QED
        <4>1. \A c \in dropped' : /\ c[2] <= made'[c[1]] /\ ~InFlight(c)'
                                  /\ c \notin Elems(got') \union Elems(queue')
          BY <1>2, <2>1, <2>4, <3>1, <3>2 DEF InFlight
        <4>2. \A i, j \in 1..Len(got') : i < j => got'[i] # got'[j]
          BY <1>2 DEF OInv, OwnersApart
        <4> QED
          BY <4>1, <4>2 DEF OwnersApart, InFlight
    <2>6. AbandonedLast'
      BY <1>1, <1>2, <1>4, <2>1, <2>2 DEF OInv, AbandonedLast
    <2> QED
      BY <1>3, <2>5, <2>6 DEF OInv
  <1>8. CASE Finish(w) \/ ReadFails(w) \/ Report(w) \/ Signal(w)
    <2>1. /\ made' = made /\ queue' = queue /\ dropped' = dropped
          /\ wpc[w] # "send" /\ wpc'[w] # "send"
          /\ \A v \in Subs \ {w} : wpc'[v] = wpc[v]
          /\ wpc[w] \in {"reportAbort", "signal", "exit"}
               => wpc'[w] \in {"reportAbort", "signal", "exit"}
      BY <1>1, <1>8 DEF Finish, ReadFails, Report, Signal, chanVars, userVars
    <2>2. OwnersApart'
      BY <1>1, <1>2, <1>4, <2>1 DEF OInv, OwnersApart, InFlight
    <2>3. AbandonedLast'
      BY <1>1, <1>2, <1>4, <2>1 DEF OInv, AbandonedLast
    <2> QED
      BY <1>3, <2>2, <2>3 DEF OInv
  <1> QED
    BY <1>5, <1>6, <1>7, <1>8 DEF Worker

(* The batch Next pops is new, and its predecessor came out before it. *)
LEMMA PoppedIsNext ==
    ASSUME IInv, OInv, queue # <<>>
    PROVE  /\ Head(queue) \in BatchIds
           /\ Head(queue) \notin Elems(got)
           /\ Head(queue) \notin Elems(Tail(queue))
           /\ cpc \notin {"drain", "closed"} /\ Head(queue)[2] > 1
                => <<Head(queue)[1], Head(queue)[2] - 1>> \in Elems(got)
  <1> DEFINE b == Head(queue)
  <1>1. /\ b \in BatchIds /\ b = queue[1] /\ Len(queue) \in Nat \ {0}
        /\ \A i \in 1..Len(Tail(queue)) : Tail(queue)[i] = queue[i + 1] /\ i + 1 \in 1..Len(queue)
        /\ Tail(queue) \in Seq(BatchIds)
    <2>1. queue \in Seq(BatchIds)
      BY DEF IInv, TypeOK
    <2>2. /\ b \in BatchIds /\ b = queue[1] /\ Len(queue) \in Nat \ {0}
          /\ Len(Tail(queue)) = Len(queue) - 1 /\ Tail(queue) \in Seq(BatchIds)
          /\ \A i \in 1..Len(Tail(queue)) : Tail(queue)[i] = queue[i + 1]
      BY <2>1, ElemsHeadTail
    <2> QED
      BY <2>2
  <1>2. b[1] \in Subs /\ b[2] \in 1..NumBatches /\ b = <<b[1], b[2]>>
    BY <1>1 DEF BatchIds
  <1> HIDE DEF b
  <1>3. 1 \in 1..Len(queue)
    BY <1>1
  <1>4. b \notin Elems(got)
    BY <1>1, <1>2, <1>3 DEF Elems, IInv, ChannelOrder
  <1>5. \A i \in 2..Len(queue) : queue[i][1] = b[1] => b[2] < queue[i][2]
    BY <1>1, <1>3 DEF IInv, ChannelOrder
  <1>6. b \notin Elems(Tail(queue))
    <2> SUFFICES ASSUME NEW i \in 1..Len(Tail(queue)), b = Tail(queue)[i]
                 PROVE  FALSE
      BY DEF Elems
    <2>1. i + 1 \in 2..Len(queue) /\ queue[i + 1] = b
      BY <1>1
    <2> QED
      BY <1>2, <1>5, <2>1
  <1>7. ASSUME cpc \notin {"drain", "closed"}, b[2] > 1
        PROVE  <<b[1], b[2] - 1>> \in Elems(got)
    <2> DEFINE p == <<b[1], b[2] - 1>>
    <2>1. p \in BatchIds /\ p[1] = b[1] /\ p[2] = b[2] - 1 /\ p[2] \in Int
      BY <1>2, <1>7, ScanAssumption DEF BatchIds
    <2> HIDE DEF p
    <2>2. b[2] <= made[b[1]] /\ made[b[1]] \in Int
      <3>1. b \in Elems(queue)
        BY <1>1, <1>3 DEF Elems
      <3> QED
        BY <1>2, <3>1 DEF IInv, ChannelOrder, TypeOK
    <2>3. p[2] < made[p[1]]
      BY <1>2, <2>1, <2>2
    <2>4. ~InFlight(p) /\ p \notin dropped
      BY <1>7, <2>1, <2>2, <2>3 DEF InFlight, OInv, AbandonedLast
    <2>5. p \notin Elems(queue)
      <3> SUFFICES ASSUME NEW i \in 1..Len(queue), p = queue[i]
                   PROVE  FALSE
        BY DEF Elems
      <3>1. i # 1 => b[2] < p[2]
        BY <1>1, <1>5, <2>1
      <3>2. i = 1 => p = b
        BY <1>1
      <3> QED
        BY <1>2, <2>1, <3>1, <3>2
    <2>6. p[2] <= made[p[1]]
      BY <1>2, <2>1, <2>2
    <2> QED
      BY <2>1, <2>4, <2>5, <2>6 DEF IInv, NothingLost, p
  <1> QED
    BY <1>1, <1>4, <1>6, <1>7 DEF b

LEMMA NextOInv == IInv /\ OInv /\ [Next]_vars => OInv'
  <1> SUFFICES ASSUME IInv, OInv, [Next]_vars
               PROVE  OInv'
    OBVIOUS
  <1>0. IInv'
    BY NextIInv
  <1>1. ASSUME NEW w \in Subs, Worker(w)
        PROVE  OInv'
    BY <1>0, <1>1, WorkerOInv
  <1>2. CASE NextBatch
    <2>1. /\ got' = Append(got, Head(queue)) /\ queue' = Tail(queue) /\ queue # <<>>
          /\ dropped' = dropped /\ wpc' = wpc /\ made' = made
          /\ cpc = "select" /\ cpc' = "ready"
      BY <1>2 DEF NextBatch, workerVars
    <2>2. /\ queue \in Seq(BatchIds) /\ got \in Seq(BatchIds) /\ Head(queue) \in BatchIds
          /\ Head(queue) \notin Elems(got)
          /\ Head(queue)[2] > 1 => <<Head(queue)[1], Head(queue)[2] - 1>> \in Elems(got)
      BY <2>1, PoppedIsNext DEF IInv, TypeOK
    <2>3. /\ Elems(got') = Elems(got) \union {Head(queue)}
          /\ Elems(queue) = {Head(queue)} \union Elems(queue')
      BY <2>1, <2>2, ElemsAppend, ElemsHeadTail
    <2>4. /\ Len(got) \in Nat /\ Len(got') = Len(got) + 1
          /\ got'[Len(got) + 1] = Head(queue)
          /\ \A i \in 1..Len(got) : got'[i] = got[i] /\ got[i] # Head(queue)
      <3>1. \A i \in 1..Len(got) : got[i] # Head(queue)
        BY <2>2 DEF Elems
      <3> QED
        BY <2>1, <2>2, <3>1
    <2>5. OwnersApart'
      <3>1. \A i, j \in 1..Len(got') : i < j => got'[i] # got'[j]
        BY <2>4 DEF OInv, OwnersApart
      <3>2. \A b \in dropped : /\ b[2] <= made[b[1]] /\ ~InFlight(b)
                               /\ b \notin Elems(got') \union Elems(queue')
        BY <2>3 DEF OInv, OwnersApart
      <3> QED
        BY <2>1, <3>1, <3>2 DEF OwnersApart, InFlight
    <2>6. AbandonedLast'
      BY <2>1 DEF OInv, AbandonedLast
    <2>7. DeliveredInOrder'
      <3> SUFFICES ASSUME NEW j \in 1..Len(got')
                   PROVE  /\ got'[j][2] > 1 =>
                               \E i \in 1..(j - 1) : got'[i] = <<got'[j][1], got'[j][2] - 1>>
                          /\ \A i \in 1..(j - 1) : got'[i] # got'[j]
        BY DEF DeliveredInOrder
      <3>1. CASE j \in 1..Len(got)
        <4>1. \A i \in 1..(j - 1) : i \in 1..Len(got)
          BY <2>4, <3>1
        <4> QED
          BY <2>4, <3>1, <4>1 DEF OInv, DeliveredInOrder
      <3>2. CASE j = Len(got) + 1
        <4>1. 1..(j - 1) = 1..Len(got)
          BY <2>4, <3>2
        <4> QED
          BY <2>2, <2>4, <3>2, <4>1 DEF Elems
      <3> QED
        BY <2>4, <3>1, <3>2
    <2> QED
      BY <2>5, <2>6, <2>7 DEF OInv
  <1>3. CASE DrainOne
    <2>1. /\ got' = got /\ queue' = Tail(queue) /\ queue # <<>> /\ queue \in Seq(BatchIds)
          /\ dropped' = dropped \union {Head(queue)} /\ wpc' = wpc /\ made' = made
          /\ cpc = "drain" /\ cpc' = "drain"
      BY <1>3 DEF DrainOne, workerVars, IInv, TypeOK
    <2>2. Elems(queue) = {Head(queue)} \union Elems(queue')
      BY <2>1, ElemsHeadTail
    <2>3. /\ Head(queue) \notin Elems(got) \union Elems(queue')
          /\ Head(queue)[2] <= made[Head(queue)[1]] /\ ~InFlight(Head(queue))
      BY <2>1, <2>2, PoppedIsNext DEF IInv, ChannelOrder
    <2>4. OwnersApart'
      BY <2>1, <2>2, <2>3 DEF OInv, OwnersApart, InFlight
    <2> QED
      BY <2>1, <2>4 DEF OInv, AbandonedLast, DeliveredInOrder
  <1>4. CASE NextBegin
    <2>1. /\ got' = got /\ queue' = queue /\ dropped' = dropped /\ made' = made
          /\ cpc \notin {"drain", "closed"}
          /\ \A v \in Subs : wpc'[v] = IF wpc[v] = "idle" THEN "read" ELSE wpc[v]
      BY <1>4 DEF NextBegin, chanVars
    <2>2. \A b \in dropped : b[1] \in Subs
      BY DEF IInv, TypeOK, BatchIds
    <2>3. OwnersApart'
      BY <2>1, <2>2 DEF OInv, OwnersApart, InFlight
    <2>4. AbandonedLast'
      BY <2>1, <2>2 DEF OInv, AbandonedLast
    <2> QED
      BY <2>1, <2>3, <2>4 DEF OInv, DeliveredInOrder
  <1>5. CASE UNCHANGED <<wpc, made, queue, got, dropped>>
             /\ (cpc \in {"drain", "closed"} => cpc' \in {"drain", "closed"})
    BY <1>5 DEF OInv, OwnersApart, AbandonedLast, DeliveredInOrder, InFlight
  <1>6. CASE NextCancelled \/ NextTerminal \/ CloseBegin \/ CloseDone \/ DrainEnd
    BY <1>5, <1>6 DEF NextCancelled, NextTerminal, CloseBegin, CloseDone, DrainEnd,
                      workerVars, chanVars
  <1>7. CASE CloseBatches \/ Cancel \/ UNCHANGED vars
    BY <1>5, <1>7 DEF CloseBatches, Cancel, vars, workerVars, chanVars, userVars
  <1> QED
    BY <1>1, <1>2, <1>3, <1>4, <1>6, <1>7
       DEF Next, Consumer, NextReturns, CloseReturns, Over

LEMMA OwnerInvariance == Spec => [](IInv /\ OInv)
  <1>1. Init => IInv /\ OInv
    BY InitIInv, InitOInv
  <1>2. IInv /\ OInv /\ [Next]_vars => (IInv /\ OInv)'
    BY NextIInv, NextOInv
  <1> QED
    BY <1>1, <1>2, PTL DEF Spec

(* The batches of one sub come out of Next in the order the sub read them,
   none missing in between and none twice. *)
THEOREM EachSubInOrder == Spec => []DeliveredInOrder
  <1>1. IInv /\ OInv => DeliveredInOrder
    BY DEF OInv
  <1> QED
    BY <1>1, OwnerInvariance, PTL

LEMMA OneOrNone ==
    ASSUME NEW S, \A x, y \in S : x = y
    PROVE  Cardinality(S) = IF S = {} THEN 0 ELSE 1
  <1>1. CASE S = {}
    BY <1>1, FS_EmptySet
  <1>2. CASE S # {}
    <2>1. PICK x : S = {x}
      BY <1>2
    <2> QED
      BY <1>2, <2>1, FS_Singleton
  <1> QED
    BY <1>1, <1>2

(* Every batch a callback was handed has exactly one owner: the worker sending
   it, the channel, the consumer, or nobody once the scan has released it. *)
THEOREM EveryBatchHasOneOwner == Spec => []OneOwner
  <1>1. IInv /\ OInv => OneOwner
    <2> SUFFICES ASSUME IInv, OInv, NEW b \in BatchIds
                 PROVE  Owners(b) = IF b[2] <= made[b[1]] THEN 1 ELSE 0
      BY DEF OneOwner
    <2> DEFINE senders == {w \in Subs : wpc[w] = "send" /\ Held(w) = b}
               queued  == {i \in 1..Len(queue) : queue[i] = b}
               given   == {i \in 1..Len(got) : got[i] = b}
    <2>1. /\ b[1] \in Subs /\ b[2] \in Int /\ made[b[1]] \in Int /\ b = <<b[1], b[2]>>
          /\ Len(queue) \in Nat /\ Len(got) \in Nat
      BY ScanAssumption DEF BatchIds, IInv, TypeOK
    <2>2. Cardinality(senders) = IF InFlight(b) THEN 1 ELSE 0
      <3>1. \A w \in senders : w = b[1]
        BY DEF Held
      <3>2. senders # {} <=> InFlight(b)
        BY <2>1 DEF Held, InFlight
      <3> HIDE DEF senders
      <3> QED
        BY <3>1, <3>2, OneOrNone
    <2>3. Cardinality(queued) = IF b \in Elems(queue) THEN 1 ELSE 0
      <3>1. \A i, j \in queued : ~(i < j)
        BY <2>1 DEF IInv, ChannelOrder
      <3>2. \A i, j \in queued : i = j
        BY <2>1, <3>1
      <3>3. queued # {} <=> b \in Elems(queue)
        BY DEF Elems
      <3> HIDE DEF queued
      <3> QED
        BY <3>2, <3>3, OneOrNone
    <2>4. Cardinality(given) = IF b \in Elems(got) THEN 1 ELSE 0
      <3>1. \A i, j \in given : ~(i < j)
        BY DEF OInv, OwnersApart
      <3>2. \A i, j \in given : i = j
        BY <2>1, <3>1
      <3>3. given # {} <=> b \in Elems(got)
        BY DEF Elems
      <3> HIDE DEF given
      <3> QED
        BY <3>2, <3>3, OneOrNone
    <2>5. ~(b \in Elems(got) /\ b \in Elems(queue))
      BY <2>1 DEF Elems, IInv, ChannelOrder
    <2>6. b \in Elems(got) \/ b \in Elems(queue) => b[2] <= made[b[1]] /\ ~InFlight(b)
      BY DEF IInv, ChannelOrder
    <2>7. b \in dropped => /\ b[2] <= made[b[1]] /\ ~InFlight(b)
                           /\ b \notin Elems(got) /\ b \notin Elems(queue)
      BY DEF OInv, OwnersApart
    <2>8. InFlight(b) => b[2] <= made[b[1]]
      BY <2>1 DEF InFlight
    <2>9. b[2] <= made[b[1]] =>
              b \in Elems(got) \/ b \in Elems(queue) \/ b \in dropped \/ InFlight(b)
      BY DEF IInv, NothingLost
    <2>10. Owners(b) = (IF InFlight(b) THEN 1 ELSE 0) + (IF b \in Elems(queue) THEN 1 ELSE 0)
                       + (IF b \in Elems(got) THEN 1 ELSE 0) + (IF b \in dropped THEN 1 ELSE 0)
      BY <2>2, <2>3, <2>4 DEF Owners
    <2> HIDE DEF senders, queued, given
    <2> QED
      BY <2>5, <2>6, <2>7, <2>8, <2>9, <2>10
  <1> QED
    BY <1>1, OwnerInvariance, PTL
=============================================================================
