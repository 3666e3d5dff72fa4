----------------------- MODULE ParallelAggregateProofs -----------------------
(***************************************************************************)
(* Theorems about ParallelAggregate for every number of workers, every     *)
(* hash function, inbox capacity, key mode and input, and every choice of  *)
(* the batches that fail; before them, about the operators of GroupTable   *)
(* for every input, and the induction over the numbers they rest on.       *)
(***************************************************************************)
EXTENDS ParallelAggregate, Integers, SequenceTheorems, FiniteSetTheorems,
        WellFoundedInduction, TLAPS

(* Every non-empty set of natural numbers has a least element. *)
LEMMA LeastNatural ==
    ASSUME NEW T, T \subseteq Nat, T # {}
    PROVE  \E x \in T : \A y \in T : x <= y
  <1>1. \E x \in T : \A y \in T : ~ (<<y, x>> \in OpToRel(<, Nat))
    BY NatLessThanWellFounded, WFMin
  <1>2. PICK x \in T : \A y \in T : ~ (<<y, x>> \in OpToRel(<, Nat))
    BY <1>1
  <1>3. ASSUME NEW y \in T
        PROVE  x <= y
    <2>1. ~ (<<y, x>> \in OpToRel(<, Nat))
      BY <1>2
    <2>2. <<y, x>> \in Nat \X Nat
      OBVIOUS
    <2>3. ~ (y < x)
      BY <2>1, <2>2 DEF OpToRel
    <2> QED
      BY <2>3
  <1> QED
    BY <1>3

(* Induction over the natural numbers, for a set in place of a predicate. *)
LEMMA SetInduction ==
    ASSUME NEW S, 0 \in S, \A n \in Nat : n \in S => n + 1 \in S
    PROVE  Nat \subseteq S
  <1> SUFFICES ASSUME Nat \ S # {}
               PROVE  FALSE
    OBVIOUS
  <1>1. PICK x \in Nat \ S : \A y \in Nat \ S : x <= y
    BY LeastNatural
  <1>2. x # 0 /\ x - 1 \in Nat
    BY <1>1
  <1>3. x - 1 \in S
    BY <1>1, <1>2
  <1> QED
    BY <1>1, <1>2, <1>3

-----------------------------------------------------------------------------
(* The rows of a group in one batch. *)

\* The recursive function of RowsOf, over the first m rows.
RowsUpTo(mode, source, n, k, m) ==
    CHOOSE f : f = [i \in 0..m |->
        IF i = 0 THEN <<>>
        ELSE IF k \in KeyOf(mode, source[n][i]) THEN Append(f[i - 1], <<n, i>>)
        ELSE f[i - 1]]

LEMMA RowsUpToDef ==
    ASSUME NEW mode, NEW source, NEW n, NEW k, NEW m \in Nat
    PROVE  /\ RowsUpTo(mode, source, n, k, m)[0] = <<>>
           /\ \A i \in 1..m : RowsUpTo(mode, source, n, k, m)[i] =
                  IF k \in KeyOf(mode, source[n][i])
                  THEN Append(RowsUpTo(mode, source, n, k, m)[i - 1], <<n, i>>)
                  ELSE RowsUpTo(mode, source, n, k, m)[i - 1]
  <1> DEFINE Step(f, i) == IF i = 0 THEN <<>>
                           ELSE IF k \in KeyOf(mode, source[n][i]) THEN Append(f[i - 1], <<n, i>>)
                           ELSE f[i - 1]
             Solves(f, l) == /\ f = [i \in 0..l |-> f[i]]
                             /\ \A i \in 0..l : f[i] = Step(f, i)
             S == {l \in Nat : \E f : Solves(f, l)}
  <1>1. 0 \in S
    <2> DEFINE f == [i \in 0..0 |-> <<>>]
    <2>1. Solves(f, 0)
      OBVIOUS
    <2> QED
      BY <2>1
  <1>2. ASSUME NEW l \in Nat, l \in S
        PROVE  l + 1 \in S
    <2>1. PICK f : Solves(f, l)
      BY <1>2
    <2> DEFINE g == [i \in 0..(l + 1) |-> IF i = l + 1 THEN Step(f, l + 1) ELSE f[i]]
    <2>2. \A i \in 0..(l + 1) : g[i] = Step(g, i)
      <3> SUFFICES ASSUME NEW i \in 0..(l + 1)
                   PROVE  g[i] = Step(g, i)
        OBVIOUS
      <3>1. i # 0 => g[i - 1] = f[i - 1]
        OBVIOUS
      <3>2. Step(g, i) = Step(f, i)
        BY <3>1
      <3>3. i # l + 1 => f[i] = Step(f, i)
        BY <2>1
      <3>4. g[i] = IF i = l + 1 THEN Step(f, l + 1) ELSE f[i]
        OBVIOUS
      <3> HIDE DEF Step, g
      <3> QED
        BY <3>2, <3>3, <3>4
    <2>3. Solves(g, l + 1)
      BY <2>2
    <2> HIDE DEF Solves, g
    <2> QED
      BY <2>3
  <1>3. m \in S
    <2> HIDE DEF S
    <2> QED
      BY <1>1, <1>2, SetInduction
  <1>4. PICK f : Solves(f, m)
    BY <1>3
  <1>5. f = [i \in 0..m |-> Step(f, i)]
    <2>1. f = [i \in 0..m |-> f[i]] /\ \A i \in 0..m : f[i] = Step(f, i)
      BY <1>4
    <2> HIDE DEF Step
    <2> QED
      BY <2>1
  <1>6. \E h : h = [i \in 0..m |-> Step(h, i)]
    BY <1>5
  <1> DEFINE r == RowsUpTo(mode, source, n, k, m)
  <1>7. r = [i \in 0..m |-> Step(r, i)]
    BY <1>6 DEF RowsUpTo
  <1> HIDE DEF r
  <1>8. \A i \in 0..m : r[i] = Step(r, i)
    <2> HIDE DEF Step
    <2> QED
      BY <1>7
  <1>9. r[0] = <<>>
    <2>1. r[0] = Step(r, 0)
      <3> HIDE DEF Step
      <3> QED
        BY <1>8
    <2> QED
      BY <2>1
  <1>10. ASSUME NEW i \in 1..m
         PROVE  r[i] = IF k \in KeyOf(mode, source[n][i]) THEN Append(r[i - 1], <<n, i>>)
                       ELSE r[i - 1]
    <2>1. r[i] = Step(r, i)
      <3> HIDE DEF Step
      <3> QED
        BY <1>8
    <2> QED
      BY <2>1
  <1> QED
    BY <1>9, <1>10 DEF r

LEMMA RowsOfIsLast ==
    ASSUME NEW mode, NEW source, NEW n, NEW k
    PROVE  RowsOf(mode, source, n, k)
               = RowsUpTo(mode, source, n, k, Len(source[n]))[Len(source[n])]
  BY DEF RowsOf, RowsUpTo

(* The rows of a group in a batch are rows of that batch. *)
LEMMA RowsOfType ==
    ASSUME NEW mode, NEW source, NEW n, NEW k, Len(source[n]) \in Nat
    PROVE  RowsOf(mode, source, n, k) \in Seq({n} \X (Nat \ {0}))
  <1> DEFINE m == Len(source[n])
             f == RowsUpTo(mode, source, n, k, m)
             R == Seq({n} \X (Nat \ {0}))
             S == {i \in Nat : i <= m => f[i] \in R}
  <1>1. /\ f[0] = <<>>
        /\ \A i \in 1..m : f[i] = IF k \in KeyOf(mode, source[n][i])
                                 THEN Append(f[i - 1], <<n, i>>) ELSE f[i - 1]
    BY RowsUpToDef
  <1> HIDE DEF f
  <1>2. 0 \in S
    <2>1. f[0] = <<>>
      BY <1>1, Zenon
    <2>2. <<>> \in R
      OBVIOUS
    <2> HIDE DEF R, m
    <2> QED
      BY <2>1, <2>2
  <1>3. ASSUME NEW i \in Nat, i \in S
        PROVE  i + 1 \in S
    <2> SUFFICES ASSUME i + 1 <= m
                 PROVE  f[i + 1] \in R
      OBVIOUS
    <2>1. f[i] \in R /\ <<n, i + 1>> \in {n} \X (Nat \ {0})
      BY <1>3
    <2>2. f[i + 1] = IF k \in KeyOf(mode, source[n][i + 1]) THEN Append(f[i], <<n, i + 1>>)
                     ELSE f[i]
      <3>1. PICK j \in 1..m : j = i + 1
        OBVIOUS
      <3>2. f[j] = IF k \in KeyOf(mode, source[n][j]) THEN Append(f[j - 1], <<n, j>>)
                   ELSE f[j - 1]
        BY <1>1, Zenon
      <3> QED
        BY <3>1, <3>2
    <2>3. Append(f[i], <<n, i + 1>>) \in R
      BY <2>1
    <2> QED
      BY <2>1, <2>2, <2>3
  <1>4. m \in S
    <2> HIDE DEF S
    <2> QED
      BY <1>2, <1>3, SetInduction
  <1> QED
    BY <1>4, RowsOfIsLast DEF f

(* A batch without a row of a group adds nothing to it. *)
LEMMA RowsOfNone ==
    ASSUME NEW mode, NEW source, NEW n, NEW k, Len(source[n]) \in Nat,
           \A i \in 1..Len(source[n]) : k \notin KeyOf(mode, source[n][i])
    PROVE  RowsOf(mode, source, n, k) = <<>>
  <1> DEFINE m == Len(source[n])
             f == RowsUpTo(mode, source, n, k, m)
             S == {i \in Nat : i <= m => f[i] = <<>>}
  <1>1. /\ f[0] = <<>>
        /\ \A i \in 1..m : f[i] = IF k \in KeyOf(mode, source[n][i])
                                 THEN Append(f[i - 1], <<n, i>>) ELSE f[i - 1]
    BY RowsUpToDef
  <1> HIDE DEF f
  <1>2. 0 \in S
    <2>1. f[0] = <<>>
      BY <1>1, Zenon
    <2> QED
      BY <2>1
  <1>3. ASSUME NEW i \in Nat, i \in S
        PROVE  i + 1 \in S
    <2> SUFFICES ASSUME i + 1 <= m
                 PROVE  f[i + 1] = <<>>
      OBVIOUS
    <2>1. PICK j \in 1..m : j = i + 1
      OBVIOUS
    <2>2. f[j] = IF k \in KeyOf(mode, source[n][j]) THEN Append(f[j - 1], <<n, j>>)
                 ELSE f[j - 1]
      BY <1>1, Zenon
    <2>3. f[i] = <<>> /\ k \notin KeyOf(mode, source[n][j])
      BY <1>3
    <2> QED
      BY <2>1, <2>2, <2>3
  <1>4. m \in S
    <2> HIDE DEF S
    <2> QED
      BY <1>2, <1>3, SetInduction
  <1> QED
    BY <1>4, RowsOfIsLast DEF f

-----------------------------------------------------------------------------
(* The serial table. *)

\* The table after batch n, from the tables f before it.
AfterBatch(mode, source, keys, f, n) ==
    IF n = 0 THEN [k \in keys |-> <<>>]
    ELSE [k \in keys |-> f[n - 1][k] \o RowsOf(mode, source, n, k)]

LEMMA SerialTablesDef ==
    ASSUME NEW mode, NEW source, NEW keys, Len(source) \in Nat, NEW n \in 0..Len(source)
    PROVE  SerialTables(mode, source, keys)[n]
               = AfterBatch(mode, source, keys, SerialTables(mode, source, keys), n)
  <1> DEFINE Step(f, i) == AfterBatch(mode, source, keys, f, i)
             Solves(f, l) == /\ f = [i \in 0..l |-> f[i]]
                             /\ \A i \in 0..l : f[i] = Step(f, i)
             S == {l \in Nat : \E f : Solves(f, l)}
             m == Len(source)
  <1>1. 0 \in S
    <2> DEFINE f == [i \in 0..0 |-> [k \in keys |-> <<>>]]
    <2>1. Solves(f, 0)
      BY DEF AfterBatch
    <2> QED
      BY <2>1
  <1>2. ASSUME NEW l \in Nat, l \in S
        PROVE  l + 1 \in S
    <2>1. PICK f : Solves(f, l)
      BY <1>2
    <2> DEFINE g == [i \in 0..(l + 1) |-> IF i = l + 1 THEN Step(f, l + 1) ELSE f[i]]
    <2>2. \A i \in 0..(l + 1) : g[i] = Step(g, i)
      <3> SUFFICES ASSUME NEW i \in 0..(l + 1)
                   PROVE  g[i] = Step(g, i)
        OBVIOUS
      <3>1. i # 0 => g[i - 1] = f[i - 1]
        OBVIOUS
      <3>2. Step(g, i) = Step(f, i)
        <4> HIDE DEF g
        <4>1. CASE i = 0
          BY <4>1 DEF AfterBatch
        <4>2. CASE i # 0
          BY <3>1, <4>2 DEF AfterBatch
        <4> QED
          BY <4>1, <4>2
      <3>3. i # l + 1 => f[i] = Step(f, i)
        <4> HIDE DEF Step
        <4> QED
          BY <2>1
      <3>4. g[i] = IF i = l + 1 THEN Step(f, l + 1) ELSE f[i]
        OBVIOUS
      <3> HIDE DEF Step, g
      <3> QED
        BY <3>2, <3>3, <3>4
    <2>3. Solves(g, l + 1)
      <3> HIDE DEF Step
      <3> QED
        BY <2>2
    <2> HIDE DEF Solves, g
    <2> QED
      BY <2>3
  <1>3. m \in S
    <2> HIDE DEF S
    <2> QED
      BY <1>1, <1>2, SetInduction
  <1>4. PICK f : Solves(f, m)
    BY <1>3
  <1>5. f = [i \in 0..m |-> Step(f, i)]
    <2>1. f = [i \in 0..m |-> f[i]] /\ \A i \in 0..m : f[i] = Step(f, i)
      BY <1>4
    <2> HIDE DEF Step
    <2> QED
      BY <2>1
  <1>6. \E h : h = [i \in 0..m |-> Step(h, i)]
    BY <1>5
  <1> DEFINE r == SerialTables(mode, source, keys)
  <1>7. r = [i \in 0..m |-> Step(r, i)]
    BY <1>6 DEF SerialTables, AfterBatch
  <1> HIDE DEF r
  <1>8. \A i \in 0..m : r[i] = Step(r, i)
    <2> HIDE DEF Step
    <2> QED
      BY <1>7
  <1> QED
    BY <1>8 DEF r

(* The serial build handles the batches one after another: the group of a key
   after n batches is its group after n - 1, followed by its rows in batch n. *)
THEOREM SerialStep ==
    ASSUME NEW mode, NEW source, NEW keys, Len(source) \in Nat,
           NEW n \in 1..Len(source), NEW k \in keys
    PROVE  SerialTables(mode, source, keys)[n][k] =
               SerialTables(mode, source, keys)[n - 1][k] \o RowsOf(mode, source, n, k)
  <1> DEFINE f == SerialTables(mode, source, keys)
  <1>1. f[n] = AfterBatch(mode, source, keys, f, n)
    BY SerialTablesDef
  <1> HIDE DEF f
  <1>2. f[n][k] = f[n - 1][k] \o RowsOf(mode, source, n, k)
    BY <1>1 DEF AfterBatch
  <1> QED
    BY <1>2 DEF f

(* It starts from no rows, its tables are functions of the keys, and it
   returns the last one. *)
LEMMA SerialShape ==
    ASSUME NEW mode, NEW source, NEW keys, Len(source) \in Nat
    PROVE  /\ SerialTables(mode, source, keys)[0] = [k \in keys |-> <<>>]
           /\ \A n \in 0..Len(source) : SerialTables(mode, source, keys)[n]
                  \in [keys -> {SerialTables(mode, source, keys)[n][k] : k \in keys}]
           /\ SerialTables(mode, source, keys)[Len(source)] = SerialTable(mode, source, keys)
  <1> DEFINE f == SerialTables(mode, source, keys)
  <1>1. ASSUME NEW n \in 0..Len(source)
        PROVE  f[n] = AfterBatch(mode, source, keys, f, n)
    BY SerialTablesDef
  <1>2. f[Len(source)] = SerialTable(mode, source, keys)
    BY DEF SerialTable
  <1> HIDE DEF f
  <1>3. f[0] = [k \in keys |-> <<>>]
    <2>1. f[0] = AfterBatch(mode, source, keys, f, 0)
      BY <1>1
    <2> QED
      BY <2>1 DEF AfterBatch
  <1>4. ASSUME NEW n \in 0..Len(source)
        PROVE  f[n] \in [keys -> {f[n][k] : k \in keys}]
    <2>1. f[n] = AfterBatch(mode, source, keys, f, n)
      BY <1>1
    <2>2. CASE n = 0
      BY <2>1, <2>2 DEF AfterBatch
    <2>3. CASE n # 0
      BY <2>1, <2>3 DEF AfterBatch
    <2> QED
      BY <2>2, <2>3
  <1> QED
    BY <1>2, <1>3, <1>4 DEF f

(* The table it returns is the last one, a function of the keys. *)
LEMMA SerialTableIsLast ==
    ASSUME NEW mode, NEW source, NEW keys, Len(source) \in Nat
    PROVE  /\ SerialTable(mode, source, keys) = SerialTables(mode, source, keys)[Len(source)]
           /\ SerialTable(mode, source, keys)
                  = [k \in keys |-> SerialTable(mode, source, keys)[k]]
  <1> DEFINE f == SerialTables(mode, source, keys)
             T == SerialTable(mode, source, keys)
  <1>1. T = f[Len(source)]
    BY DEF SerialTable
  <1>2. ASSUME NEW n \in 0..Len(source)
        PROVE  f[n] = [k \in keys |-> f[n][k]]
    <2>1. f[n] \in [keys -> {f[n][k] : k \in keys}]
      BY SerialShape
    <2> HIDE DEF f
    <2> QED
      BY <2>1
  <1>3. Len(source) \in 0..Len(source)
    OBVIOUS
  <1> HIDE DEF f, T
  <1>4. T = [k \in keys |-> T[k]]
    BY <1>1, <1>2, <1>3
  <1> QED
    BY <1>1, <1>4 DEF f, T

(* The tables of the serial build are sequences of rows of the input. *)
LEMMA SerialType ==
    ASSUME NEW mode, NEW source, NEW keys, Len(source) \in Nat,
           \A n \in 1..Len(source) : Len(source[n]) \in Nat
    PROVE  \A n \in 0..Len(source) : SerialTables(mode, source, keys)[n]
               \in [keys -> Seq((1..Len(source)) \X (Nat \ {0}))]
  <1> DEFINE f == SerialTables(mode, source, keys)
             R == (1..Len(source)) \X (Nat \ {0})
             S == {n \in Nat : n <= Len(source) => f[n] \in [keys -> Seq(R)]}
  <1> HIDE DEF R
  <1>01. f[0] = [k \in keys |-> <<>>]
    BY SerialShape
  <1>02. ASSUME NEW n \in 1..Len(source), NEW k \in keys
         PROVE  f[n][k] = f[n - 1][k] \o RowsOf(mode, source, n, k)
    BY SerialStep
  <1>03. \A n \in 0..Len(source) : f[n] \in [keys -> {f[n][k] : k \in keys}]
    BY SerialShape
  <1> HIDE DEF f
  <1>1. 0 \in S
    <2>1. <<>> \in Seq(R)
      OBVIOUS
    <2> QED
      BY <1>01, <2>1
  <1>2. ASSUME NEW n \in Nat, n \in S
        PROVE  n + 1 \in S
    <2> SUFFICES ASSUME n + 1 <= Len(source)
                 PROVE  f[n + 1] \in [keys -> Seq(R)]
      OBVIOUS
    <2>1. f[n] \in [keys -> Seq(R)]
      BY <1>2
    <2>2. PICK j \in 1..Len(source) : j = n + 1
      OBVIOUS
    <2>3. ASSUME NEW k \in keys
          PROVE  f[j][k] \in Seq(R)
      <3>1. f[j][k] = f[j - 1][k] \o RowsOf(mode, source, j, k)
        BY <1>02, Zenon
      <3>2. RowsOf(mode, source, j, k) \in Seq({j} \X (Nat \ {0}))
        BY RowsOfType
      <3>3. {j} \X (Nat \ {0}) \subseteq R
        BY DEF R
      <3>4. RowsOf(mode, source, j, k) \in Seq(R)
        BY <3>2, <3>3, SeqMonotonic
      <3>5. f[j - 1][k] \in Seq(R)
        BY <2>1, <2>2
      <3> QED
        BY <3>1, <3>4, <3>5, ConcatProperties
    <2>4. f[j] \in [keys -> {f[j][k] : k \in keys}]
      BY <1>03
    <2> QED
      BY <2>2, <2>3, <2>4
  <1>3. Nat \subseteq S
    <2> HIDE DEF S
    <2> QED
      BY <1>1, <1>2, SetInduction
  <1> QED
    BY <1>3 DEF R, f

(* Batches without a row of a group leave it as it was. *)
THEOREM SerialSkip ==
    ASSUME NEW mode, NEW source, NEW keys, NEW k \in keys, Len(source) \in Nat,
           \A n \in 1..Len(source) : Len(source[n]) \in Nat,
           NEW lo \in 0..Len(source), NEW hi \in lo..Len(source),
           \A n \in (lo + 1)..hi : RowsOf(mode, source, n, k) = <<>>
    PROVE  SerialTables(mode, source, keys)[hi][k] = SerialTables(mode, source, keys)[lo][k]
  <1> DEFINE f == SerialTables(mode, source, keys)
             R == (1..Len(source)) \X (Nat \ {0})
             S == {n \in Nat : lo + n <= hi => f[lo + n][k] = f[lo][k]}
  <1>00. ASSUME NEW n \in 1..Len(source)
         PROVE  f[n][k] = f[n - 1][k] \o RowsOf(mode, source, n, k)
    BY SerialStep
  <1>01. \A n \in 0..Len(source) : f[n] \in [keys -> Seq(R)]
    BY SerialType
  <1> HIDE DEF f, R
  <1>0. lo \in Nat /\ hi \in Nat /\ lo <= hi /\ hi <= Len(source)
    OBVIOUS
  <1>1. 0 \in S
    BY <1>0
  <1>2. ASSUME NEW n \in Nat, n \in S
        PROVE  n + 1 \in S
    <2> SUFFICES ASSUME lo + (n + 1) <= hi
                 PROVE  f[lo + (n + 1)][k] = f[lo][k]
      OBVIOUS
    <2>1. f[lo + n][k] = f[lo][k]
      BY <1>0, <1>2
    <2>2. f[lo + n + 1][k] = f[lo + n][k] \o RowsOf(mode, source, lo + n + 1, k)
      <3>1. PICK j \in 1..Len(source) : j = lo + n + 1
        BY <1>0
      <3>2. f[j][k] = f[j - 1][k] \o RowsOf(mode, source, j, k)
        BY <1>00, Zenon
      <3>3. j - 1 = lo + n
        BY <1>0, <3>1
      <3> QED
        BY <3>1, <3>2, <3>3
    <2>3. RowsOf(mode, source, lo + n + 1, k) = <<>>
      BY <1>0
    <2>4. f[lo + n][k] \in Seq(R)
      <3>1. lo + n \in 0..Len(source)
        BY <1>0
      <3>2. f[lo + n] \in [keys -> Seq(R)]
        BY <3>1, <1>01
      <3> QED
        BY <3>2
    <2>5. lo + n + 1 = lo + (n + 1)
      BY <1>0
    <2>6. f[lo + n][k] \o <<>> = f[lo + n][k]
      BY <2>4, ConcatEmptySeq
    <2> QED
      BY <2>1, <2>2, <2>3, <2>5, <2>6
  <1>3. Nat \subseteq S
    <2> HIDE DEF S
    <2> QED
      BY <1>1, <1>2, SetInduction
  <1>4. hi - lo \in S /\ lo + (hi - lo) = hi
    <2>1. hi - lo \in Nat /\ lo + (hi - lo) = hi
      BY <1>0
    <2> HIDE DEF S
    <2> QED
      BY <1>3, <2>1
  <1>5. f[hi][k] = f[lo][k]
    BY <1>0, <1>4
  <1> QED
    BY <1>5 DEF f

(* Sets of workers are finite. *)
LEMMA WorkerSets ==
    ASSUME NEW S, S \subseteq Workers
    PROVE  IsFiniteSet(S) /\ Cardinality(S) \in Nat
  <1>1. IsFiniteSet(Workers)
    BY AggregateAssumption, FS_Interval DEF Workers
  <1>2. IsFiniteSet(S)
    BY <1>1, FS_Subset
  <1> QED
    BY <1>2, FS_CardinalityType

(* dispatchBatch takes the recipients in worker order: the next one is among
   those left. *)
LEMMA NextRecipientIsPending ==
    ASSUME pending \subseteq Workers, pending # {}
    PROVE  NextRecipient \in pending
  <1>1. pending \subseteq Nat
    BY AggregateAssumption DEF Workers
  <1>2. \E w \in pending : \A v \in pending : w <= v
    BY <1>1, LeastNatural
  <1> QED
    BY <1>2 DEF NextRecipient

(* The head and the tail of a channel. *)
LEMMA HeadAndTail ==
    ASSUME NEW S, NEW s \in Seq(S), s # <<>>
    PROVE  /\ Head(s) \in S /\ Head(s) = s[1] /\ Tail(s) \in Seq(S)
           /\ Len(Tail(s)) = Len(s) - 1 /\ Len(s) \in Nat \ {0}
           /\ \A i \in 1..Len(Tail(s)) : Tail(s)[i] = s[i + 1]
  OBVIOUS

(* A batch sent to a channel is behind those that were in it. *)
LEMMA AppendLast ==
    ASSUME NEW S, NEW s \in Seq(S), NEW e \in S
    PROVE  /\ Append(s, e) \in Seq(S) /\ Len(Append(s, e)) = Len(s) + 1 /\ Len(s) \in Nat
           /\ Append(s, e)[Len(s) + 1] = e
           /\ \A i \in 1..Len(s) : Append(s, e)[i] = s[i]
  OBVIOUS

(* What is known of the input: batches are sequences of keys. *)
LEMMA InputShape ==
    ASSUME TypeOK
    PROVE  /\ Len(input) \in Nat /\ Batches \subseteq Nat \ {0}
           /\ \A b \in Batches : input[b] \in Seq(Keys) /\ Len(input[b]) \in Nat
  <1>1. input \in Seq(Seq(Keys))
    BY AggregateAssumption DEF TypeOK
  <1>2. Len(input) \in Nat /\ \A b \in Batches : input[b] \in Seq(Keys)
    BY <1>1 DEF Batches
  <1> QED
    BY <1>2 DEF Batches

(* A row has at most one group key, and that key is hashed to a worker. *)
LEMMA RoutedToWorkers ==
    ASSUME TypeOK, NEW b \in Batches
    PROVE  /\ Recipients(b) \subseteq Workers
           /\ \A i \in 1..Len(input[b]) : KeyOf(KeyMode, input[b][i]) \subseteq GroupKeys
  <1>1. \A i \in 1..Len(input[b]) : input[b][i] \in Keys
    BY InputShape
  <1>2. \A i \in 1..Len(input[b]) : KeyOf(KeyMode, input[b][i]) \subseteq GroupKeys
    BY <1>1 DEF KeyOf, GroupKeys
  <1>3. Recipients(b) \subseteq Workers
    BY <1>2, AggregateAssumption DEF Recipients
  <1> QED
    BY <1>2, <1>3

-----------------------------------------------------------------------------
(* Reference counts. *)

InboxOf(b)    == {w \in Workers : \E i \in 1..Len(inbox[w]) : inbox[w][i] = b}
HandOf(b)     == {w \in Workers : msg[w] = b}
ReaderRefs(b) == IF cur = b THEN IF rpc = "select" THEN 2 ELSE 1 ELSE 0

LEMMA HolderSets ==
    ASSUME NEW b
    PROVE  /\ IsFiniteSet(InboxOf(b)) /\ Cardinality(InboxOf(b)) \in Nat
           /\ IsFiniteSet(HandOf(b)) /\ Cardinality(HandOf(b)) \in Nat
           /\ ReaderRefs(b) \in Nat
  BY WorkerSets DEF InboxOf, HandOf, ReaderRefs

LEMMA RefsAre ==
    ASSUME RefsMatchHolders, NEW b \in Batches
    PROVE  refs[b] = Cardinality(InboxOf(b)) + Cardinality(HandOf(b)) + ReaderRefs(b)
  BY DEF RefsMatchHolders, InboxOf, HandOf, ReaderRefs

LEMMA RefsAreNext ==
    ASSUME input' = input,
           \A b \in Batches : refs'[b] = Cardinality(InboxOf(b)') + Cardinality(HandOf(b)')
                                          + ReaderRefs(b)'
    PROVE  RefsMatchHolders'
  BY DEF RefsMatchHolders, InboxOf, HandOf, ReaderRefs, Batches

(* The steps that leave the channels, the messages in hand and the reader's
   batch alone. *)
LEMMA RefsStay ==
    ASSUME RefsMatchHolders, UNCHANGED <<input, inbox, msg, cur, refs>>,
           cur # 0 => (rpc' = "select" <=> rpc = "select"), TypeOK
    PROVE  RefsMatchHolders'
  <1>1. ASSUME NEW b \in Batches
        PROVE  InboxOf(b)' = InboxOf(b) /\ HandOf(b)' = HandOf(b) /\ ReaderRefs(b)' = ReaderRefs(b)
    <2>1. b # 0
      BY InputShape
    <2> QED
      BY <2>1 DEF InboxOf, HandOf, ReaderRefs
  <1> QED
    BY <1>1, RefsAre, RefsAreNext

(* A new batch is with the reader alone. *)
LEMMA PullRefs ==
    ASSUME IInv, Pull
    PROVE  RefsMatchHolders'
  <1>1. TypeOK /\ RefsMatchHolders
    BY DEF IInv
  <1>2. cur = 0 /\ pos \in Nat /\ pos + 1 \in Batches /\ refs \in [Batches -> Nat]
    BY <1>1, InputShape DEF Pull, IInv, ReaderState, TypeOK, Batches
  <1>3. input' = input /\ inbox' = inbox /\ msg' = msg
    BY DEF Pull, workerVars
  <1>4. CASE input[pos + 1] = <<>>
    BY <1>1, <1>3, <1>4, RefsStay DEF Pull
  <1>5. CASE input[pos + 1] # <<>>
    <2>1. rpc' = "send" /\ cur' = pos + 1 /\ refs' = [refs EXCEPT ![pos + 1] = 1]
      BY <1>5 DEF Pull
    <2>2. ASSUME NEW b \in Batches
          PROVE  refs'[b] = Cardinality(InboxOf(b)') + Cardinality(HandOf(b)') + ReaderRefs(b)'
      <3>1. InboxOf(b)' = InboxOf(b) /\ HandOf(b)' = HandOf(b)
        BY <1>3 DEF InboxOf, HandOf
      <3>2. CASE b = pos + 1
        <4>1. InboxOf(b) = {} /\ HandOf(b) = {}
          <5>1. ASSUME NEW w \in Workers
                PROVE  /\ msg[w] <= pos /\ msg[w] \in Int
                       /\ \A i \in 1..Len(inbox[w]) : inbox[w][i] <= pos
            BY <1>1, InputShape DEF IInv, BatchOrder, TypeOK
          <5> QED
            BY <1>2, <3>2, <5>1 DEF InboxOf, HandOf
        <4>2. ReaderRefs(b)' = 1 /\ refs'[b] = 1
          BY <1>2, <2>1, <3>2 DEF ReaderRefs
        <4> QED
          BY <3>1, <4>1, <4>2, FS_EmptySet
      <3>3. CASE b # pos + 1
        <4>1. ReaderRefs(b)' = 0 /\ ReaderRefs(b) = 0 /\ refs'[b] = refs[b]
          <5>1. b # 0
            BY <1>1, InputShape
          <5> QED
            BY <1>2, <2>1, <3>3, <5>1 DEF ReaderRefs
        <4> QED
          BY <1>1, <3>1, <4>1, RefsAre
      <3> QED
        BY <3>2, <3>3
    <2> QED
      BY <1>3, <2>2, RefsAreNext
  <1> QED
    BY <1>4, <1>5

(* The reader's references: one more before the select, two fewer when it is
   cancelled, one fewer at the end. *)
LEMMA ReaderRefsStep ==
    ASSUME IInv, Retain \/ SendCancelled \/ Dispatched
    PROVE  RefsMatchHolders'
  <1>1. TypeOK /\ RefsMatchHolders /\ refs \in [Batches -> Nat]
    BY DEF IInv, TypeOK
  <1>2. cur \in Batches
    BY DEF Retain, SendCancelled, Dispatched, IInv, TypeOK, ReaderState
  <1>3. input' = input /\ inbox' = inbox /\ msg' = msg
    BY DEF Retain, SendCancelled, Dispatched, workerVars
  <1>4. ASSUME NEW b \in Batches
        PROVE  refs'[b] = Cardinality(InboxOf(b)') + Cardinality(HandOf(b)') + ReaderRefs(b)'
    <2>1. InboxOf(b)' = InboxOf(b) /\ HandOf(b)' = HandOf(b)
      BY <1>3 DEF InboxOf, HandOf
    <2>2. refs[b] = Cardinality(InboxOf(b)) + Cardinality(HandOf(b)) + ReaderRefs(b)
      BY <1>1, RefsAre
    <2>3. b # 0
      BY <1>1, InputShape
    <2>4. refs'[b] - ReaderRefs(b)' = refs[b] - ReaderRefs(b)
      <3>1. CASE Retain
        BY <1>1, <1>2, <3>1 DEF Retain, ReaderRefs
      <3>2. CASE SendCancelled
        BY <1>1, <1>2, <2>3, <3>2 DEF SendCancelled, ReaderRefs
      <3>3. CASE Dispatched
        BY <1>1, <1>2, <2>3, <3>3 DEF Dispatched, ReaderRefs
      <3> QED
        BY <3>1, <3>2, <3>3
    <2>5. refs'[b] \in Int /\ ReaderRefs(b)' \in Int
      <3>1. ReaderRefs(b)' \in Int
        BY DEF ReaderRefs
      <3>2. refs'[b] \in Int
        BY <1>1, <1>2 DEF Retain, SendCancelled, Dispatched
      <3> QED
        BY <3>1, <3>2
    <2>6. refs[b] \in Int /\ ReaderRefs(b) \in Int
      BY <1>1, HolderSets
    <2> QED
      BY <2>1, <2>2, <2>4, <2>5, <2>6, HolderSets
  <1> QED
    BY <1>3, <1>4, RefsAreNext

(* The reference the reader took becomes the inbox's. *)
LEMMA SendRefs ==
    ASSUME IInv, Send
    PROVE  RefsMatchHolders'
  <1> DEFINE r == NextRecipient
  <1>1. TypeOK /\ RefsMatchHolders /\ inbox \in [Workers -> Seq(Batches)]
    BY DEF IInv, TypeOK
  <1>2. cur \in Batches /\ rpc = "select"
    BY DEF Send, IInv, TypeOK, ReaderState
  <1>3. r \in pending /\ r \in Workers
    BY <1>2, NextRecipientIsPending DEF IInv, TypeOK, ReaderState
  <1>4. /\ inbox' = [inbox EXCEPT ![r] = Append(inbox[r], cur)]
        /\ input' = input /\ msg' = msg /\ refs' = refs /\ cur' = cur /\ rpc' = "send"
    BY DEF Send, workerVars
  <1> HIDE DEF r
  <1>5. /\ Len(inbox'[r]) = Len(inbox[r]) + 1 /\ Len(inbox[r]) \in Nat
        /\ inbox'[r][Len(inbox[r]) + 1] = cur
        /\ \A i \in 1..Len(inbox[r]) : inbox'[r][i] = inbox[r][i]
    <2>1. inbox'[r] = Append(inbox[r], cur) /\ inbox[r] \in Seq(Batches)
      BY <1>1, <1>3, <1>4
    <2> QED
      BY <1>2, <2>1, AppendLast
  <1>6. \A v \in Workers \ {r} : inbox'[v] = inbox[v]
    BY <1>1, <1>4
  <1>7. ASSUME NEW b \in Batches
        PROVE  refs'[b] = Cardinality(InboxOf(b)') + Cardinality(HandOf(b)') + ReaderRefs(b)'
    <2>1. HandOf(b)' = HandOf(b)
      BY <1>4 DEF HandOf
    <2>2. CASE b = cur
      <3>1. r \notin InboxOf(b)
        BY <1>2, <1>3, <2>2, InputShape DEF InboxOf, IInv, BatchOrder
      <3>2. InboxOf(b)' = InboxOf(b) \union {r}
        <4>1. \A v \in Workers : v # r => (v \in InboxOf(b)' <=> v \in InboxOf(b))
          BY <1>6 DEF InboxOf
        <4>2. r \in InboxOf(b)'
          <5>1. Len(inbox[r]) + 1 \in 1..Len(inbox'[r])
            BY <1>5
          <5> QED
            BY <1>3, <1>5, <2>2, <5>1 DEF InboxOf
        <4>3. InboxOf(b)' \subseteq Workers /\ InboxOf(b) \subseteq Workers
          BY DEF InboxOf
        <4> QED
          BY <1>3, <4>1, <4>2, <4>3
      <3>3. Cardinality(InboxOf(b)') = Cardinality(InboxOf(b)) + 1
        BY <3>1, <3>2, HolderSets, FS_AddElement
      <3>4. ReaderRefs(b)' = 1 /\ ReaderRefs(b) = 2
        BY <1>2, <1>4, <2>2 DEF ReaderRefs
      <3> QED
        BY <1>1, <1>4, <2>1, <3>3, <3>4, RefsAre, HolderSets
    <2>3. CASE b # cur
      <3>1. InboxOf(b)' = InboxOf(b)
        <4>1. \A v \in Workers : v # r => (v \in InboxOf(b)' <=> v \in InboxOf(b))
          BY <1>6 DEF InboxOf
        <4>2. r \in InboxOf(b)' <=> r \in InboxOf(b)
          <5>1. \A i \in 1..Len(inbox'[r]) : i \in 1..Len(inbox[r]) \/ i = Len(inbox[r]) + 1
            BY <1>5
          <5>2. \A i \in 1..Len(inbox[r]) : i \in 1..Len(inbox'[r])
            BY <1>5
          <5> QED
            BY <1>3, <1>5, <2>3, <5>1, <5>2 DEF InboxOf
        <4>3. InboxOf(b)' \subseteq Workers /\ InboxOf(b) \subseteq Workers
          BY DEF InboxOf
        <4> QED
          BY <4>1, <4>2, <4>3
      <3>2. ReaderRefs(b)' = 0 /\ ReaderRefs(b) = 0
        BY <1>4, <2>3 DEF ReaderRefs
      <3> QED
        BY <1>1, <1>4, <2>1, <3>1, <3>2, RefsAre
    <2> QED
      BY <2>2, <2>3
  <1> QED
    BY <1>4, <1>7, RefsAreNext

(* The inbox's reference becomes the worker's. *)
LEMMA ReceiveRefs ==
    ASSUME IInv, NEW w \in Workers, Receive(w)
    PROVE  RefsMatchHolders'
  <1> DEFINE h == Head(inbox[w])
  <1>1. TypeOK /\ RefsMatchHolders /\ inbox \in [Workers -> Seq(Batches)]
        /\ msg \in [Workers -> {0} \union Batches]
    BY DEF IInv, TypeOK
  <1>2. /\ input' = input /\ refs' = refs /\ cur' = cur /\ rpc' = rpc
        /\ msg' = [msg EXCEPT ![w] = h] /\ inbox' = [inbox EXCEPT ![w] = Tail(inbox[w])]
        /\ inbox[w] # <<>> /\ wpc[w] = "recv"
    BY DEF Receive, readerVars
  <1>3. /\ h \in Batches /\ h = inbox[w][1] /\ Len(inbox[w]) \in Nat \ {0}
        /\ Len(inbox'[w]) = Len(inbox[w]) - 1
        /\ \A i \in 1..Len(inbox'[w]) : inbox'[w][i] = inbox[w][i + 1]
    <2>1. inbox'[w] = Tail(inbox[w]) /\ inbox[w] \in Seq(Batches)
      BY <1>1, <1>2
    <2>2. /\ h \in Batches /\ h = inbox[w][1] /\ Len(inbox[w]) \in Nat \ {0}
          /\ Len(Tail(inbox[w])) = Len(inbox[w]) - 1
          /\ \A i \in 1..Len(Tail(inbox[w])) : Tail(inbox[w])[i] = inbox[w][i + 1]
      BY <1>2, <2>1, HeadAndTail, Zenon
    <2> QED
      BY <2>1, <2>2, Zenon
  <1> HIDE DEF h
  <1>4. msg[w] = 0
    BY <1>2 DEF IInv, BatchOrder
  <1>5. \A v \in Workers \ {w} : inbox'[v] = inbox[v] /\ msg'[v] = msg[v]
    BY <1>1, <1>2
  <1>6. ASSUME NEW b \in Batches
        PROVE  refs'[b] = Cardinality(InboxOf(b)') + Cardinality(HandOf(b)') + ReaderRefs(b)'
    <2>1. /\ \A v \in Workers : v # w => /\ v \in InboxOf(b)' <=> v \in InboxOf(b)
                                         /\ v \in HandOf(b)' <=> v \in HandOf(b)
          /\ InboxOf(b)' \subseteq Workers /\ InboxOf(b) \subseteq Workers
          /\ HandOf(b)' \subseteq Workers /\ HandOf(b) \subseteq Workers
          /\ ReaderRefs(b)' = ReaderRefs(b)
      BY <1>2, <1>5 DEF InboxOf, HandOf, ReaderRefs
    <2>2. b # 0 /\ b \in Int
      BY <1>1, InputShape
    <2>3. w \notin HandOf(b)
      BY <1>4, <2>2 DEF HandOf
    <2>4. w \in HandOf(b)' <=> b = h
      BY <1>1, <1>2 DEF HandOf
    <2>5. \A i \in 2..Len(inbox[w]) : h < inbox[w][i]
      BY <1>3 DEF IInv, BatchOrder
    <2>6. CASE b = h
      <3>1. w \in InboxOf(b) /\ w \notin InboxOf(b)'
        <4>1. 1 \in 1..Len(inbox[w])
          BY <1>3
        <4>2. \A i \in 1..Len(inbox'[w]) : i + 1 \in 2..Len(inbox[w])
          BY <1>3
        <4> QED
          BY <1>3, <2>2, <2>5, <2>6, <4>1, <4>2 DEF InboxOf
      <3>2. InboxOf(b)' = InboxOf(b) \ {w} /\ HandOf(b)' = HandOf(b) \union {w}
        BY <2>1, <2>4, <2>6, <3>1
      <3>3. Cardinality(InboxOf(b)') = Cardinality(InboxOf(b)) - 1
        BY <3>1, <3>2, HolderSets, FS_RemoveElement
      <3>4. Cardinality(HandOf(b)') = Cardinality(HandOf(b)) + 1
        BY <2>3, <3>2, HolderSets, FS_AddElement
      <3> QED
        BY <1>1, <1>2, <2>1, <3>3, <3>4, RefsAre, HolderSets
    <2>7. CASE b # h
      <3>1. w \in InboxOf(b)' <=> w \in InboxOf(b)
        <4>1. ASSUME w \in InboxOf(b)
              PROVE  w \in InboxOf(b)'
          <5>1. PICK i \in 1..Len(inbox[w]) : inbox[w][i] = b
            BY <4>1 DEF InboxOf
          <5>2. i # 1
            BY <1>3, <2>7, <5>1
          <5>3. i - 1 \in 1..Len(inbox'[w]) /\ (i - 1) + 1 = i
            BY <1>3, <5>2
          <5>4. inbox'[w][i - 1] = b
            BY <1>3, <5>1, <5>3
          <5> QED
            BY <5>3, <5>4 DEF InboxOf
        <4>2. ASSUME w \in InboxOf(b)'
              PROVE  w \in InboxOf(b)
          <5>1. PICK i \in 1..Len(inbox'[w]) : inbox'[w][i] = b
            BY <4>2 DEF InboxOf
          <5>2. i + 1 \in 1..Len(inbox[w]) /\ inbox[w][i + 1] = b
            BY <1>3, <5>1
          <5> QED
            BY <5>2 DEF InboxOf
        <4> QED
          BY <4>1, <4>2
      <3>2. InboxOf(b)' = InboxOf(b) /\ HandOf(b)' = HandOf(b)
        BY <2>1, <2>3, <2>4, <2>7, <3>1
      <3> QED
        BY <1>1, <1>2, <2>1, <3>2, RefsAre
    <2> QED
      BY <2>6, <2>7
  <1> QED
    BY <1>2, <1>6, RefsAreNext

(* The worker releases its message. *)
LEMMA ReleaseRefs ==
    ASSUME IInv, NEW w \in Workers, Release(w)
    PROVE  RefsMatchHolders'
  <1> DEFINE m == msg[w]
  <1>1. TypeOK /\ RefsMatchHolders /\ refs \in [Batches -> Nat]
        /\ msg \in [Workers -> {0} \union Batches]
    BY DEF IInv, TypeOK
  <1>2. /\ input' = input /\ cur' = cur /\ rpc' = rpc /\ inbox' = inbox
        /\ msg' = [msg EXCEPT ![w] = 0] /\ refs' = [refs EXCEPT ![m] = refs[m] - 1]
        /\ wpc[w] = "release"
    BY DEF Release, readerVars
  <1>3. m \in Batches /\ w \in HandOf(m)
    BY <1>1, <1>2 DEF IInv, BatchOrder, HandOf
  <1> HIDE DEF m
  <1>4. ASSUME NEW b \in Batches
        PROVE  refs'[b] = Cardinality(InboxOf(b)') + Cardinality(HandOf(b)') + ReaderRefs(b)'
    <2>1. InboxOf(b)' = InboxOf(b) /\ ReaderRefs(b)' = ReaderRefs(b)
      BY <1>2 DEF InboxOf, ReaderRefs
    <2>2. b # 0
      BY <1>1, InputShape
    <2>3. refs[b] \in Nat /\ refs'[b] = IF b = m THEN refs[b] - 1 ELSE refs[b]
      BY <1>1, <1>2
    <2>4. CASE b = m
      <3>1. HandOf(b)' = HandOf(b) \ {w}
        BY <1>1, <1>2, <2>2 DEF HandOf
      <3>2. Cardinality(HandOf(b)') = Cardinality(HandOf(b)) - 1
        BY <1>3, <2>4, <3>1, HolderSets, FS_RemoveElement
      <3> QED
        BY <1>1, <2>1, <2>3, <2>4, <3>2, RefsAre, HolderSets
    <2>5. CASE b # m
      <3>1. HandOf(b)' = HandOf(b)
        BY <1>1, <1>2, <2>2, <2>5 DEF HandOf, m
      <3> QED
        BY <1>1, <2>1, <2>3, <2>5, <3>1, RefsAre
    <2> QED
      BY <2>4, <2>5
  <1> QED
    BY <1>2, <1>4, RefsAreNext

LEMMA NextRefs ==
    ASSUME IInv, [Next]_vars
    PROVE  RefsMatchHolders'
  <1>1. RefsMatchHolders /\ TypeOK
    BY DEF IInv
  <1>2. CASE Pull \/ Retain \/ SendCancelled \/ Dispatched \/ Send
    BY <1>2, PullRefs, ReaderRefsStep, SendRefs
  <1>3. CASE Check \/ RoutingFails \/ PullEnds \/ CloseInboxes \/ SetReadErr \/ Merge
    <2>1. cur = 0
      BY <1>3 DEF Check, RoutingFails, PullEnds, CloseInboxes, SetReadErr, Merge,
                  IInv, ReaderState
    <2>2. UNCHANGED <<input, inbox, msg, cur, refs>>
      BY <1>3 DEF Check, RoutingFails, PullEnds, CloseInboxes, SetReadErr, Merge, workerVars
    <2> QED
      BY <1>1, <2>1, <2>2, RefsStay
  <1>4. ASSUME NEW w \in Workers, Receive(w) \/ Release(w)
        PROVE  RefsMatchHolders'
    BY <1>4, ReceiveRefs, ReleaseRefs
  <1>5. ASSUME NEW w \in Workers, CheckCancelled(w) \/ Consume(w) \/ ConsumeFails(w) \/ Exit(w)
        PROVE  RefsMatchHolders'
    <2>1. UNCHANGED <<input, inbox, msg, cur, refs, rpc>>
      BY <1>5 DEF CheckCancelled, Consume, ConsumeFails, Exit, readerVars
    <2> QED
      BY <1>1, <2>1, RefsStay
  <1>6. CASE Cancel \/ UNCHANGED vars
    <2>1. UNCHANGED <<input, inbox, msg, cur, refs, rpc>>
      BY <1>6 DEF Cancel, vars, readerVars, workerVars
    <2> QED
      BY <1>1, <2>1, RefsStay
  <1> QED
    BY <1>2, <1>3, <1>4, <1>5, <1>6 DEF Next, Reader, Worker, Returned

-----------------------------------------------------------------------------
(* Types. *)

LEMMA InputStays ==
    ASSUME [Next]_vars
    PROVE  input' = input /\ Batches' = Batches
  <1>1. input' = input
    BY DEF Next, Reader, Worker, Returned, Check, Pull, RoutingFails, PullEnds, Retain, Send,
           SendCancelled, Dispatched, CloseInboxes, SetReadErr, Merge, Receive, CheckCancelled,
           Consume, ConsumeFails, Release, Exit, Cancel, vars
  <1> QED
    BY <1>1 DEF Batches

(* A reference count never becomes negative. *)
LEMMA RefsType ==
    ASSUME IInv, [Next]_vars
    PROVE  refs' \in [Batches -> Nat]
  <1>1. TypeOK /\ refs \in [Batches -> Nat]
    BY DEF IInv, TypeOK
  <1>2. refs' \in [Batches -> Int]
    <2>1. refs \in [Batches -> Int]
      BY <1>1
    <2>2. cur \in {0} \union Batches /\ \A w \in Workers : msg[w] \in {0} \union Batches
      BY <1>1 DEF TypeOK
    <2>3. pos + 1 \in Nat
      BY <1>1, InputShape DEF TypeOK
    <2>4. CASE Reader
      BY <2>1, <2>2, <2>3, <2>4
         DEF Reader, Check, Pull, RoutingFails, PullEnds, Retain, Send, SendCancelled,
             Dispatched, CloseInboxes, SetReadErr, Merge
    <2>5. ASSUME NEW w \in Workers, Worker(w)
          PROVE  refs' \in [Batches -> Int]
      BY <2>1, <2>2, <2>5
         DEF Worker, Receive, CheckCancelled, Consume, ConsumeFails, Release, Exit
    <2>6. CASE Cancel \/ UNCHANGED vars
      BY <2>1, <2>6 DEF Cancel, vars
    <2> QED
      BY <2>4, <2>5, <2>6 DEF Next, Returned
  <1>3. ASSUME NEW b \in Batches
        PROVE  refs'[b] \in Nat
    <2>1. refs'[b] = Cardinality(InboxOf(b)') + Cardinality(HandOf(b)') + ReaderRefs(b)'
      BY NextRefs, InputStays DEF RefsMatchHolders, InboxOf, HandOf, ReaderRefs
    <2>2. Cardinality(InboxOf(b)') \in Nat /\ Cardinality(HandOf(b)') \in Nat
      <3>1. InboxOf(b)' \subseteq Workers /\ HandOf(b)' \subseteq Workers
        BY DEF InboxOf, HandOf
      <3> QED
        BY <3>1, WorkerSets
    <2>3. ReaderRefs(b)' \in Nat
      BY DEF ReaderRefs
    <2> QED
      BY <2>1, <2>2, <2>3
  <1> QED
    BY <1>2, <1>3

(* The groups of a worker are sequences of rows of the input. *)
LEMMA ConsumedType ==
    ASSUME TypeOK, NEW w \in Workers, NEW b \in Batches, NEW ks
    PROVE  Consumed(w, b, ks) \in [GroupKeys -> Seq(Batches \X (Nat \ {0}))]
  <1> DEFINE R == Batches \X (Nat \ {0})
  <1>1. ASSUME NEW k \in GroupKeys
        PROVE  groups[w][k] \in Seq(R) /\ groups[w][k] \o RowsOf(KeyMode, input, b, k) \in Seq(R)
    <2>1. groups[w][k] \in Seq(R)
      BY DEF TypeOK
    <2>2. RowsOf(KeyMode, input, b, k) \in Seq({b} \X (Nat \ {0}))
      BY InputShape, RowsOfType
    <2>3. {b} \X (Nat \ {0}) \subseteq R
      OBVIOUS
    <2>4. RowsOf(KeyMode, input, b, k) \in Seq(R)
      <3> HIDE DEF R
      <3> QED
        BY <2>2, <2>3, SeqMonotonic
    <2> HIDE DEF R
    <2> QED
      BY <2>1, <2>4, ConcatProperties
  <1> HIDE DEF R
  <1>2. Consumed(w, b, ks) \in [GroupKeys -> Seq(R)]
    BY <1>1 DEF Consumed
  <1> QED
    BY <1>2 DEF R

LEMMA NextTypeOK ==
    ASSUME IInv, [Next]_vars
    PROVE  TypeOK'
  <1>1. TypeOK
    BY DEF IInv
  <1>2. input' = input /\ Batches' = Batches /\ refs' \in [Batches -> Nat]
    BY InputStays, RefsType
  <1>3. CASE Check
    BY <1>1, <1>2, <1>3 DEF TypeOK, Check, workerVars
  <1>4. CASE Pull
    <2>1. pos' = pos + 1 /\ pos + 1 \in Batches /\ pos' \in 0..Len(input)
      BY <1>1, <1>4, InputShape DEF TypeOK, Pull, Batches
    <2>2. rpc' \in {"check", "send"} /\ cur' \in {0} \union Batches /\ pending' \subseteq Workers
      BY <1>1, <1>4, <2>1, RoutedToWorkers DEF TypeOK, Pull
    <2>3. UNCHANGED <<readErr, inbox, inboxClosed, workerVars, parentDone, wDone,
                      firstErr, result, table>>
      BY <1>4 DEF Pull
    <2> QED
      BY <1>1, <1>2, <2>1, <2>2, <2>3 DEF TypeOK, workerVars
  <1>5. CASE RoutingFails
    <2>1. pos' \in 0..Len(input)
      BY <1>1, <1>5, InputShape DEF TypeOK, RoutingFails
    <2> QED
      BY <1>1, <1>2, <1>5, <2>1 DEF TypeOK, RoutingFails, workerVars
  <1>6. CASE PullEnds
    BY <1>1, <1>2, <1>6 DEF TypeOK, PullEnds, workerVars
  <1>7. CASE Retain
    BY <1>1, <1>2, <1>7 DEF TypeOK, Retain, workerVars
  <1>8. CASE Send
    <2>1. NextRecipient \in Workers /\ cur \in Batches
      BY <1>1, <1>8, NextRecipientIsPending DEF TypeOK, Send, IInv, ReaderState
    <2> DEFINE r == NextRecipient
    <2>2. /\ inbox' = [inbox EXCEPT ![r] = Append(inbox[r], cur)] /\ Len(inbox[r]) < ChanBuf
          /\ pending' = pending \ {r} /\ rpc' = "send"
          /\ UNCHANGED <<pos, cur, readErr, inboxClosed, workerVars, parentDone, wDone,
                         firstErr, result, table>>
      BY <1>8 DEF Send
    <2> HIDE DEF r
    <2>3. /\ Append(inbox[r], cur) \in Seq(Batches)
          /\ Len(Append(inbox[r], cur)) = Len(inbox[r]) + 1 /\ Len(inbox[r]) \in Nat
      <3>1. inbox[r] \in Seq(Batches)
        BY <1>1, <2>1 DEF TypeOK, r
      <3> QED
        BY <2>1, <3>1, AppendLast
    <2>4. /\ inbox' \in [Workers -> Seq(Batches)]
          /\ \A w \in Workers : Len(inbox'[w]) <= ChanBuf
      BY <1>1, <2>1, <2>2, <2>3, AggregateAssumption DEF TypeOK, r
    <2> QED
      BY <1>1, <1>2, <2>2, <2>4 DEF TypeOK, workerVars
  <1>9. CASE SendCancelled \/ Dispatched
    BY <1>1, <1>2, <1>9 DEF TypeOK, SendCancelled, Dispatched, workerVars
  <1>10. CASE CloseInboxes
    BY <1>1, <1>2, <1>10 DEF TypeOK, CloseInboxes, workerVars
  <1>11. CASE SetReadErr
    BY <1>1, <1>2, <1>11 DEF TypeOK, SetReadErr, SetErr, workerVars
  <1>12. CASE Merge
    <2>1. table' \in [GroupKeys -> Seq(Batches \X (Nat \ {0}))]
      <3>1. CASE firstErr = "none"
        <4>1. ASSUME NEW k \in GroupKeys
              PROVE  table'[k] \in Seq(Batches \X (Nat \ {0}))
          <5> DEFINE having == {w \in Workers : groups[w][k] # <<>>}
                     last == CHOOSE w \in having : \A v \in having : v <= w
          <5>1. table'[k] = IF having = {} THEN <<>> ELSE groups[last][k]
            BY <1>12, <3>1 DEF Merge
          <5>2. CASE having = {}
            BY <5>1, <5>2
          <5>3. CASE having # {}
            <6>1. \A w \in having : Hash[k] = w
              BY DEF IInv, OwnGroups
            <6>2. Hash[k] \in having /\ having = {Hash[k]} /\ Hash[k] \in Int
              BY <5>3, <6>1, AggregateAssumption DEF Workers
            <6>3. last = Hash[k]
              <7> HIDE DEF having
              <7> QED
                BY <6>2
            <6> HIDE DEF having, last
            <6> QED
              BY <1>1, <5>1, <5>3, <6>3, AggregateAssumption DEF TypeOK
          <5> QED
            BY <5>2, <5>3
        <4>2. table' = [k \in GroupKeys |-> table'[k]]
          BY <1>12, <3>1 DEF Merge
        <4> QED
          BY <4>1, <4>2
      <3>2. CASE firstErr # "none"
        BY <1>1, <1>12, <3>2 DEF Merge, TypeOK
      <3> QED
        BY <3>1, <3>2
    <2> QED
      BY <1>1, <1>2, <1>12, <2>1 DEF TypeOK, Merge, workerVars
  <1>13. ASSUME NEW w \in Workers, Receive(w)
         PROVE  TypeOK'
    <2>1. /\ Head(inbox[w]) \in Batches /\ Tail(inbox[w]) \in Seq(Batches)
          /\ Len(Tail(inbox[w])) = Len(inbox[w]) - 1 /\ Len(inbox[w]) \in Nat
      <3>1. inbox[w] \in Seq(Batches) /\ inbox[w] # <<>>
        BY <1>1, <1>13 DEF TypeOK, Receive
      <3> QED
        BY <3>1, HeadAndTail
    <2>2. /\ inbox' = [inbox EXCEPT ![w] = Tail(inbox[w])]
          /\ msg' = [msg EXCEPT ![w] = Head(inbox[w])] /\ wpc' = [wpc EXCEPT ![w] = "check"]
          /\ UNCHANGED <<readerVars, inboxClosed, groups, parentDone, wDone,
                         firstErr, result, table>>
      BY <1>13 DEF Receive
    <2>3. /\ inbox' \in [Workers -> Seq(Batches)]
          /\ \A v \in Workers : Len(inbox'[v]) <= ChanBuf
      <3>1. \A v \in Workers : Len(inbox[v]) <= ChanBuf
        BY <1>1 DEF TypeOK
      <3>2. inbox \in [Workers -> Seq(Batches)]
        BY <1>1 DEF TypeOK
      <3> QED
        BY <2>1, <2>2, <3>1, <3>2, AggregateAssumption
    <2> QED
      BY <1>1, <1>2, <2>1, <2>2, <2>3 DEF TypeOK, readerVars
  <1>14. ASSUME NEW w \in Workers, CheckCancelled(w) \/ Release(w) \/ Exit(w)
         PROVE  TypeOK'
    <2>1. /\ wpc' \in [Workers -> {"recv", "check", "work", "release", "exit"}]
          /\ msg' \in [Workers -> {0} \union Batches]
      BY <1>1, <1>14 DEF TypeOK, CheckCancelled, Release, Exit
    <2>2. /\ UNCHANGED <<pos, rpc, cur, pending, readErr, inbox, inboxClosed>>
          /\ UNCHANGED <<groups, parentDone, wDone, firstErr, result, table>>
      BY <1>14 DEF CheckCancelled, Release, Exit, readerVars
    <2> QED
      BY <1>1, <1>2, <2>1, <2>2 DEF TypeOK
  <1>15. ASSUME NEW w \in Workers, Consume(w) \/ ConsumeFails(w)
         PROVE  TypeOK'
    <2>1. msg[w] \in Batches
      BY <1>1, <1>15 DEF IInv, BatchOrder, TypeOK, Consume, ConsumeFails
    <2>2. PICK ks : groups' = [groups EXCEPT ![w] = Consumed(w, msg[w], ks)]
      BY <1>15 DEF Consume, ConsumeFails
    <2>3. groups' \in [Workers -> [GroupKeys -> Seq(Batches \X (Nat \ {0}))]]
      BY <1>1, <2>1, <2>2, ConsumedType DEF TypeOK
    <2>4. /\ firstErr' \in {"none", "ctx", "input", "routing", "update"}
          /\ wDone' \in BOOLEAN
      BY <1>1, <1>15 DEF TypeOK, Consume, ConsumeFails, SetErr
    <2>5. wpc' \in [Workers -> {"recv", "check", "work", "release", "exit"}]
      BY <1>1, <1>15 DEF TypeOK, Consume, ConsumeFails
    <2>6. /\ UNCHANGED <<pos, rpc, cur, pending, readErr, inbox, inboxClosed>>
          /\ UNCHANGED <<msg, parentDone, result, table>>
      BY <1>15 DEF Consume, ConsumeFails, readerVars
    <2> QED
      BY <1>1, <1>2, <2>3, <2>4, <2>5, <2>6 DEF TypeOK
  <1>16. CASE Cancel \/ UNCHANGED vars
    <2>1. parentDone' \in BOOLEAN
      BY <1>1, <1>16 DEF TypeOK, Cancel, vars
    <2>2. /\ UNCHANGED <<pos, rpc, cur, pending, readErr, inbox, inboxClosed>>
          /\ UNCHANGED <<wpc, msg, groups, wDone, firstErr, result, table>>
      BY <1>16 DEF Cancel, vars, readerVars, workerVars
    <2> QED
      BY <1>1, <1>2, <2>1, <2>2 DEF TypeOK
  <1> QED
    BY <1>3, <1>4, <1>5, <1>6, <1>7, <1>8, <1>9, <1>10, <1>11, <1>12, <1>13, <1>14, <1>15, <1>16
       DEF Next, Reader, Worker, Returned

-----------------------------------------------------------------------------
(* The reader, the order of the batches, the errors. *)

LEMMA NextReaderState ==
    ASSUME IInv, [Next]_vars
    PROVE  ReaderState'
  <1>1. TypeOK /\ ReaderState
    BY DEF IInv
  <1>2. CASE Check \/ RoutingFails \/ PullEnds \/ Retain \/ SendCancelled \/ Dispatched
             \/ CloseInboxes \/ SetReadErr
    BY <1>1, <1>2 DEF ReaderState, Closing, TypeOK, Check, RoutingFails, PullEnds, Retain,
                      SendCancelled, Dispatched, CloseInboxes, SetReadErr
  <1>3. CASE Pull
    <2>1. cur = 0 /\ pos + 1 # 0 /\ pending = {}
      BY <1>1, <1>3, InputShape DEF ReaderState, Pull, TypeOK
    <2> QED
      BY <1>1, <1>3, <2>1 DEF ReaderState, Closing, TypeOK, Pull
  <1>4. CASE Send
    BY <1>1, <1>4 DEF ReaderState, Closing, TypeOK, Send
  <1>5. CASE Merge
    BY <1>1, <1>5 DEF ReaderState, Closing, TypeOK, Merge
  <1>6. CASE (\E w \in Workers : Worker(w)) \/ Cancel \/ UNCHANGED vars
    <2>1. UNCHANGED <<pos, rpc, cur, pending, inboxClosed, result>>
      BY <1>6 DEF Worker, Receive, CheckCancelled, Consume, ConsumeFails, Release, Exit,
                  Cancel, vars, readerVars
    <2> QED
      BY <1>1, <2>1 DEF ReaderState, Closing
  <1> QED
    BY <1>2, <1>3, <1>4, <1>5, <1>6 DEF Next, Reader, Returned

LEMMA NextExitReason ==
    ASSUME IInv, [Next]_vars
    PROVE  ExitReason'
  <1>1. TypeOK /\ ReaderState /\ ExitReason
    BY DEF IInv
  <1>2. CASE Send
    <2>1. UNCHANGED <<inboxClosed, wpc>> /\ rpc' = "send" /\ ~ inboxClosed
      BY <1>1, <1>2 DEF Send, workerVars, ReaderState, Closing
    <2> QED
      BY <1>1, <2>1 DEF ExitReason
  <1>3. CASE Reader /\ ~ Send
    <2>1. UNCHANGED <<inbox, wpc>> /\ (inboxClosed => inboxClosed')
          /\ (rpc' = "returned" => \A w \in Workers : wpc[w] = "exit")
      BY <1>1, <1>3 DEF Reader, Check, Pull, RoutingFails, PullEnds, Retain, SendCancelled,
             Dispatched, CloseInboxes, SetReadErr, Merge, workerVars
    <2> QED
      BY <1>1, <2>1 DEF ExitReason
  <1>4. ASSUME NEW w \in Workers, Worker(w)
        PROVE  ExitReason'
    <2>1. wpc[w] # "exit" /\ rpc # "returned"
      BY <1>1, <1>4 DEF ExitReason, Worker, Receive, CheckCancelled, Consume, ConsumeFails,
                        Release, Exit
    <2>2. UNCHANGED <<inboxClosed, rpc>>
      BY <1>4 DEF Worker, Receive, CheckCancelled, Consume, ConsumeFails, Release, Exit,
                  readerVars
    <2>3. \A v \in Workers \ {w} : wpc'[v] = wpc[v] /\ inbox'[v] = inbox[v]
      BY <1>1, <1>4 DEF TypeOK, Worker, Receive, CheckCancelled, Consume, ConsumeFails,
                        Release, Exit
    <2>4. wpc'[w] = "exit" => inboxClosed /\ inbox'[w] = <<>>
      BY <1>1, <1>4 DEF TypeOK, Worker, Receive, CheckCancelled, Consume, ConsumeFails,
                        Release, Exit
    <2> QED
      BY <1>1, <2>1, <2>2, <2>3, <2>4 DEF ExitReason
  <1>5. CASE Cancel \/ UNCHANGED vars
    BY <1>1, <1>5 DEF Cancel, vars, ExitReason, readerVars, workerVars
  <1> QED
    BY <1>2, <1>3, <1>4, <1>5 DEF Next, Returned

LEMMA NextErrors ==
    ASSUME IInv, [Next]_vars
    PROVE  ErrorReason' /\ RootCauseReturned'
  <1>1. TypeOK /\ ReaderState /\ ErrorReason /\ RootCauseReturned
    BY DEF IInv
  <1>2. input' = input
    BY InputStays
  <1>3. CASE Check \/ RoutingFails \/ PullEnds \/ Pull
    BY <1>1, <1>2, <1>3 DEF TypeOK, ReaderState, ErrorReason, RootCauseReturned, Cancelled,
                            Check, RoutingFails, PullEnds, Pull
  <1>4. CASE Retain \/ Send \/ SendCancelled \/ Dispatched \/ CloseInboxes
    BY <1>1, <1>2, <1>4 DEF TypeOK, ReaderState, ErrorReason, RootCauseReturned, Cancelled,
                            Retain, Send, SendCancelled, Dispatched, CloseInboxes
  <1>5. CASE SetReadErr \/ Merge
    BY <1>1, <1>2, <1>5 DEF TypeOK, ReaderState, ErrorReason, RootCauseReturned, SetReadErr,
                            SetErr, Merge
  <1>6. ASSUME NEW w \in Workers, ConsumeFails(w)
        PROVE  ErrorReason' /\ RootCauseReturned'
    BY <1>1, <1>2, <1>6 DEF TypeOK, ErrorReason, RootCauseReturned, ConsumeFails, SetErr,
                            readerVars
  <1>7. ASSUME NEW w \in Workers, Worker(w), ~ ConsumeFails(w)
        PROVE  ErrorReason' /\ RootCauseReturned'
    <2>1. UNCHANGED <<pos, rpc, readErr, parentDone, wDone, firstErr, result>>
      BY <1>7 DEF Worker, Receive, CheckCancelled, Consume, Release, Exit, readerVars
    <2> QED
      BY <1>1, <1>2, <2>1 DEF ErrorReason, RootCauseReturned
  <1>8. CASE Cancel \/ UNCHANGED vars
    <2>1. UNCHANGED <<pos, rpc, readErr, wDone, firstErr, result>>
          /\ (parentDone => parentDone')
      BY <1>8 DEF Cancel, vars, readerVars
    <2> QED
      BY <1>1, <1>2, <2>1 DEF ErrorReason, RootCauseReturned
  <1> QED
    BY <1>3, <1>4, <1>5, <1>6, <1>7, <1>8 DEF Next, Reader, Returned

(* A worker touches the groups of its own keys only. *)
LEMMA NextOwnGroups ==
    ASSUME IInv, [Next]_vars
    PROVE  OwnGroups'
  <1>1. TypeOK /\ OwnGroups
    BY DEF IInv
  <1>2. ASSUME NEW w \in Workers, Consume(w) \/ ConsumeFails(w)
        PROVE  OwnGroups'
    <2>1. PICK ks : groups' = [groups EXCEPT ![w] = Consumed(w, msg[w], ks)]
      BY <1>2 DEF Consume, ConsumeFails
    <2>2. \A v \in Workers \ {w} : groups'[v] = groups[v]
      BY <1>1, <2>1 DEF TypeOK
    <2>3. groups'[w] = Consumed(w, msg[w], ks)
      BY <1>1, <2>1 DEF TypeOK
    <2>4. \A k \in GroupKeys : Hash[k] # w => groups'[w][k] = groups[w][k]
      BY <2>3 DEF Consumed
    <2> QED
      BY <1>1, <2>2, <2>4 DEF OwnGroups
  <1>3. CASE groups' = groups
    BY <1>1, <1>3 DEF OwnGroups
  <1> QED
    BY <1>2, <1>3 DEF Next, Reader, Worker, Returned, Check, Pull, RoutingFails, PullEnds,
           Retain, Send, SendCancelled, Dispatched, CloseInboxes, SetReadErr, Merge, Receive,
           CheckCancelled, Release, Exit, Cancel, vars, workerVars

\* The order of the batches that worker v is yet to see.
OrderAt(v) ==
    /\ msg[v] # 0 <=> wpc[v] \in {"check", "work", "release"}
    /\ msg[v] <= pos
    /\ v \in pending => msg[v] < cur
    /\ \A i \in 1..Len(inbox[v]) :
           /\ msg[v] < inbox[v][i] /\ inbox[v][i] <= pos
           /\ v \in pending => inbox[v][i] < cur
    /\ \A i, j \in 1..Len(inbox[v]) : i < j => inbox[v][i] < inbox[v][j]

LEMMA OrderShape ==
    ASSUME TypeOK, NEW v \in Workers
    PROVE  /\ msg[v] \in Nat /\ pos \in Nat /\ cur \in Nat
           /\ inbox[v] \in Seq(Batches) /\ Len(inbox[v]) \in Nat
           /\ \A i \in 1..Len(inbox[v]) : inbox[v][i] \in Nat \ {0}
  <1>1. inbox[v] \in Seq(Batches)
    BY DEF TypeOK
  <1>2. Len(inbox[v]) \in Nat /\ \A i \in 1..Len(inbox[v]) : inbox[v][i] \in Batches
    BY <1>1
  <1> QED
    BY <1>1, <1>2, InputShape DEF TypeOK

(* The batches reach a worker in the order they were pulled, and a worker has
   a message exactly while it works on one. *)
LEMMA NextBatchOrder ==
    ASSUME IInv, [Next]_vars
    PROVE  BatchOrder'
  <1>1. TypeOK /\ ReaderState /\ BatchOrder
    BY DEF IInv
  <1>2. SUFFICES ASSUME NEW v \in Workers
                 PROVE  OrderAt(v)'
    BY DEF BatchOrder, OrderAt
  <1>3. OrderAt(v)
    BY <1>1 DEF BatchOrder, OrderAt
  <1>4. CASE Pull
    <2>1. UNCHANGED <<inbox, msg, wpc>> /\ pos' = pos + 1
          /\ (cur' = pos + 1 \/ UNCHANGED pending) /\ pending = {}
      BY <1>1, <1>4 DEF Pull, workerVars, ReaderState
    <2> QED
      BY <1>1, <1>3, <2>1, OrderShape DEF OrderAt
  <1>5. CASE RoutingFails
    <2>1. UNCHANGED <<inbox, msg, wpc, pending, cur>> /\ pos' = pos + 1
      BY <1>5 DEF RoutingFails, workerVars
    <2> QED
      BY <1>1, <1>3, <2>1, OrderShape DEF OrderAt
  <1>6. CASE SendCancelled \/ Dispatched
    <2>1. UNCHANGED <<inbox, msg, wpc, pos>> /\ pending' = {}
      BY <1>6 DEF SendCancelled, Dispatched, workerVars
    <2> QED
      BY <1>3, <2>1 DEF OrderAt
  <1>7. CASE Check \/ PullEnds \/ Retain \/ CloseInboxes \/ SetReadErr \/ Merge \/ Cancel
             \/ UNCHANGED vars
    <2>1. UNCHANGED <<inbox, msg, wpc, pos, pending, cur>>
      BY <1>7 DEF Check, PullEnds, Retain, CloseInboxes, SetReadErr, Merge, Cancel, vars,
                  readerVars, workerVars
    <2> QED
      BY <1>3, <2>1 DEF OrderAt
  <1>8. CASE Send
    <2> DEFINE r == NextRecipient
    <2>1. r \in pending /\ pending \subseteq Workers /\ cur \in Batches /\ cur = pos
      BY <1>1, <1>8, NextRecipientIsPending DEF TypeOK, Send, ReaderState
    <2>2. inbox' = [inbox EXCEPT ![r] = Append(inbox[r], cur)]
          /\ pending' = pending \ {r} /\ UNCHANGED <<msg, wpc, pos, cur>>
      BY <1>8 DEF Send, workerVars
    <2> HIDE DEF r
    <2>3. CASE v # r
      <3>1. inbox'[v] = inbox[v] /\ (v \in pending' <=> v \in pending)
        BY <1>1, <2>2, <2>3 DEF TypeOK
      <3> QED
        BY <1>3, <2>2, <3>1 DEF OrderAt
    <2>4. CASE v = r
      <3>1. inbox'[v] = Append(inbox[v], cur) /\ v \notin pending' /\ v \in pending
        BY <1>1, <2>1, <2>2, <2>4 DEF TypeOK
      <3>2. /\ Len(inbox'[v]) = Len(inbox[v]) + 1 /\ Len(inbox[v]) \in Nat
            /\ inbox'[v][Len(inbox[v]) + 1] = cur
            /\ \A i \in 1..Len(inbox[v]) : inbox'[v][i] = inbox[v][i]
        <4>1. inbox[v] \in Seq(Batches)
          BY <1>1, OrderShape
        <4> QED
          BY <2>1, <3>1, <4>1, AppendLast
      <3>3. \A i \in 1..Len(inbox'[v]) : i \in 1..Len(inbox[v]) \/ i = Len(inbox[v]) + 1
        BY <3>2
      <3>4. \A i \in 1..Len(inbox'[v]) : msg[v] < inbox'[v][i] /\ inbox'[v][i] <= pos
        BY <1>1, <1>3, <2>1, <3>1, <3>2, <3>3, OrderShape DEF OrderAt
      <3>5. ASSUME NEW i \in 1..Len(inbox'[v]), NEW j \in 1..Len(inbox'[v]), i < j
            PROVE  inbox'[v][i] < inbox'[v][j]
        <4>1. i \in 1..Len(inbox[v])
          BY <3>2, <3>5
        <4> QED
          BY <1>3, <3>1, <3>2, <3>3, <3>5, <4>1 DEF OrderAt
      <3> QED
        BY <1>3, <2>2, <3>1, <3>4, <3>5 DEF OrderAt
    <2> QED
      BY <2>3, <2>4
  <1>9. ASSUME NEW w \in Workers, Worker(w), v # w
        PROVE  OrderAt(v)'
    <2>1. inbox'[v] = inbox[v] /\ msg'[v] = msg[v] /\ wpc'[v] = wpc[v]
          /\ UNCHANGED <<pos, pending, cur>>
      BY <1>1, <1>9 DEF TypeOK, Worker, Receive, CheckCancelled, Consume, ConsumeFails,
                        Release, Exit, readerVars
    <2> QED
      BY <1>3, <2>1 DEF OrderAt
  <1>10. CASE Receive(v)
    <2>1. /\ wpc'[v] = "check" /\ msg'[v] = Head(inbox[v]) /\ inbox'[v] = Tail(inbox[v])
          /\ inbox[v] # <<>> /\ UNCHANGED <<pos, pending, cur>>
      BY <1>1, <1>10 DEF TypeOK, Receive, readerVars
    <2>2. /\ msg'[v] = inbox[v][1] /\ Len(inbox[v]) \in Nat \ {0}
          /\ Len(inbox'[v]) = Len(inbox[v]) - 1
          /\ \A i \in 1..Len(inbox'[v]) : inbox'[v][i] = inbox[v][i + 1]
      <3>1. inbox[v] \in Seq(Batches)
        BY <1>1, OrderShape
      <3>2. /\ Head(inbox[v]) = inbox[v][1] /\ Len(inbox[v]) \in Nat \ {0}
            /\ Len(Tail(inbox[v])) = Len(inbox[v]) - 1
            /\ \A i \in 1..Len(Tail(inbox[v])) : Tail(inbox[v])[i] = inbox[v][i + 1]
        BY <2>1, <3>1, HeadAndTail, Zenon
      <3> QED
        BY <2>1, <3>2, Zenon
    <2>3. 1 \in 1..Len(inbox[v]) /\ \A i \in 1..Len(inbox'[v]) : i + 1 \in 1..Len(inbox[v])
      BY <2>2
    <2>4. /\ msg'[v] # 0 /\ msg'[v] <= pos /\ (v \in pending => msg'[v] < cur)
      BY <1>1, <1>3, <2>2, <2>3, OrderShape DEF OrderAt
    <2>5. ASSUME NEW i \in 1..Len(inbox'[v])
          PROVE  /\ msg'[v] < inbox'[v][i] /\ inbox'[v][i] <= pos
                 /\ v \in pending => inbox'[v][i] < cur
      BY <1>3, <2>2, <2>3 DEF OrderAt
    <2>6. ASSUME NEW i \in 1..Len(inbox'[v]), NEW j \in 1..Len(inbox'[v]), i < j
          PROVE  inbox'[v][i] < inbox'[v][j]
      BY <1>3, <2>2, <2>3, <2>6 DEF OrderAt
    <2> QED
      BY <2>1, <2>4, <2>5, <2>6 DEF OrderAt
  <1>11. CASE CheckCancelled(v) \/ Consume(v) \/ ConsumeFails(v)
    <2>1. /\ wpc[v] \in {"check", "work"} /\ wpc'[v] \in {"work", "release"}
          /\ UNCHANGED <<inbox, msg, pos, pending, cur>>
      BY <1>1, <1>11 DEF TypeOK, CheckCancelled, Consume, ConsumeFails, readerVars
    <2> QED
      BY <1>3, <2>1 DEF OrderAt
  <1>12. CASE Exit(v)
    <2>1. /\ wpc[v] = "recv" /\ wpc'[v] = "exit" /\ UNCHANGED <<inbox, msg, pos, pending, cur>>
      BY <1>1, <1>12 DEF TypeOK, Exit, readerVars
    <2> QED
      BY <1>3, <2>1 DEF OrderAt
  <1>13. CASE Release(v)
    <2>1. /\ wpc'[v] = "recv" /\ msg'[v] = 0 /\ UNCHANGED <<inbox, pos, pending, cur>>
      BY <1>1, <1>13 DEF TypeOK, Release, readerVars
    <2>2. v \in pending => cur > 0
      BY <1>1, OrderShape DEF ReaderState
    <2> QED
      BY <1>1, <1>3, <2>1, <2>2, OrderShape DEF OrderAt
  <1> QED
    BY <1>4, <1>5, <1>6, <1>7, <1>8, <1>9, <1>10, <1>11, <1>12, <1>13
       DEF Next, Reader, Worker, Returned

-----------------------------------------------------------------------------
(* The groups. *)

\* The group of key k after n batches of the serial build.
Serial(n, k) == SerialTables(KeyMode, input, GroupKeys)[n][k]

(* A worker that is not among the recipients of a batch misses no row of its
   groups. *)
LEMMA NoRows ==
    ASSUME TypeOK, NEW b \in Batches, NEW k \in GroupKeys, Hash[k] \notin Recipients(b)
    PROVE  RowsOf(KeyMode, input, b, k) = <<>>
  <1>1. \A i \in 1..Len(input[b]) : k \notin KeyOf(KeyMode, input[b][i])
    BY DEF Recipients
  <1> QED
    BY <1>1, InputShape, RowsOfNone

LEMMA MissedBatches ==
    ASSUME TypeOK, NEW k \in GroupKeys, NEW lo \in 0..Len(input), NEW hi \in lo..Len(input),
           \A b \in (lo + 1)..hi : Hash[k] \notin Recipients(b)
    PROVE  Serial(hi, k) = Serial(lo, k)
  <1>1. Len(input) \in Nat /\ \A n \in 1..Len(input) : Len(input[n]) \in Nat
    BY InputShape DEF Batches
  <1>2. \A n \in (lo + 1)..hi : RowsOf(KeyMode, input, n, k) = <<>>
    <2>1. \A n \in (lo + 1)..hi : n \in Batches
      BY <1>1 DEF Batches
    <2> QED
      BY <2>1, NoRows
  <1> QED
    BY <1>1, <1>2, SerialSkip DEF Serial

LEMMA OneBatchMore ==
    ASSUME TypeOK, NEW k \in GroupKeys, NEW b \in Batches
    PROVE  Serial(b, k) = Serial(b - 1, k) \o RowsOf(KeyMode, input, b, k)
  BY InputShape, SerialStep DEF Serial, Batches

(* The steps that leave a worker's groups and the batches it is owed alone. *)
LEMMA FrontierStays ==
    ASSUME NEW v \in Workers, NEW n, Frontier(v, n), input' = input, groups'[v] = groups[v],
           Todo(v)' = Todo(v), pos' = pos
    PROVE  Frontier(v, n)'
  <1>1. \A b : Recipients(b)' = Recipients(b)
    BY DEF Recipients
  <1> QED
    BY <1>1 DEF Frontier

(* While nothing has failed or been cancelled, nothing has before. *)
LEMMA CalmBefore ==
    ASSUME [Next]_vars, ~ Cancelled', readErr' = "none"
    PROVE  ~ Cancelled /\ readErr = "none"
  <1>1. CASE Check \/ Pull \/ RoutingFails \/ PullEnds \/ Retain \/ Send
    BY <1>1 DEF Cancelled, Check, Pull, RoutingFails, PullEnds, Retain, Send
  <1>2. CASE SendCancelled \/ Dispatched \/ CloseInboxes \/ SetReadErr \/ Merge
    BY <1>2 DEF Cancelled, SendCancelled, Dispatched, CloseInboxes, SetReadErr, Merge, SetErr
  <1>3. CASE (\E w \in Workers : Worker(w)) \/ Cancel \/ UNCHANGED vars
    BY <1>3 DEF Cancelled, Worker, Receive, CheckCancelled, Consume, ConsumeFails, Release,
                Exit, Cancel, SetErr, vars, readerVars
  <1> QED
    BY <1>1, <1>2, <1>3 DEF Next, Reader, Returned

(* A pulled batch is owed to its recipients, and nothing else changes. *)
LEMMA PullFrontier ==
    ASSUME IInv, Pull, NEW v \in Workers, NEW n \in 0..pos, Frontier(v, n)
    PROVE  n \in 0..pos' /\ Frontier(v, n)'
  <1>1. /\ TypeOK /\ pos \in Nat /\ n \in Nat /\ n <= pos /\ pos + 1 \in Batches
        /\ cur = 0 /\ pending = {}
    BY InputShape DEF IInv, TypeOK, ReaderState, Pull, Batches
  <1>2. /\ input' = input /\ inbox' = inbox /\ wpc' = wpc /\ msg' = msg /\ groups' = groups
        /\ pos' = pos + 1
    BY DEF Pull, workerVars
  <1>3. \A b : Recipients(b)' = Recipients(b)
    BY <1>2 DEF Recipients
  <1>4. Todo(v)' = Todo(v) \union (IF v \in Recipients(pos + 1) THEN {pos + 1} ELSE {})
    <2>1. CASE input[pos + 1] = <<>>
      <3>1. pending' = pending /\ cur' = cur
        BY <2>1 DEF Pull
      <3>2. Recipients(pos + 1) = {}
        BY <2>1 DEF Recipients
      <3> QED
        BY <1>1, <1>2, <3>1, <3>2 DEF Todo
    <2>2. CASE input[pos + 1] # <<>>
      <3>1. pending' = Recipients(pos + 1) /\ cur' = pos + 1
        BY <2>2 DEF Pull
      <3> QED
        BY <1>1, <1>2, <3>1 DEF Todo
    <2> QED
      BY <2>1, <2>2
  <1>5. \A b \in (n + 1)..(pos + 1) : b \in (n + 1)..pos \/ b = pos + 1
    BY <1>1
  <1>6. \A b \in Todo(v)' : n < b
    BY <1>1, <1>4 DEF Frontier
  <1>7. \A b \in (n + 1)..pos' : v \in Recipients(b)' => b \in Todo(v)'
    BY <1>2, <1>3, <1>4, <1>5 DEF Frontier
  <1>8. n \in 0..pos'
    BY <1>1, <1>2
  <1> QED
    BY <1>2, <1>6, <1>7, <1>8 DEF Frontier

(* A batch moves from the reader's debt to the inbox. *)
LEMMA SendTodo ==
    ASSUME IInv, Send, NEW v \in Workers
    PROVE  Todo(v)' = Todo(v)
  <1> DEFINE r == NextRecipient
  <1>1. TypeOK /\ r \in pending /\ r \in Workers /\ cur \in Batches
    BY NextRecipientIsPending DEF IInv, TypeOK, Send, ReaderState
  <1>2. /\ inbox' = [inbox EXCEPT ![r] = Append(inbox[r], cur)] /\ pending' = pending \ {r}
        /\ msg' = msg /\ wpc' = wpc /\ cur' = cur
    BY DEF Send, workerVars
  <1> HIDE DEF r
  <1>3. CASE v # r
    <2>1. inbox'[v] = inbox[v] /\ (v \in pending' <=> v \in pending)
      BY <1>1, <1>2, <1>3 DEF TypeOK
    <2> QED
      BY <1>2, <2>1 DEF Todo
  <1>4. CASE v = r
    <2>1. inbox[v] \in Seq(Batches) /\ inbox'[v] = Append(inbox[v], cur)
          /\ v \in pending /\ v \notin pending'
      BY <1>1, <1>2, <1>4 DEF TypeOK
    <2>2. /\ Len(inbox'[v]) = Len(inbox[v]) + 1 /\ Len(inbox[v]) \in Nat
          /\ inbox'[v][Len(inbox[v]) + 1] = cur
          /\ \A i \in 1..Len(inbox[v]) : inbox'[v][i] = inbox[v][i]
      BY <1>1, <2>1, AppendLast
    <2>3. \A i \in 1..Len(inbox'[v]) : i \in 1..Len(inbox[v]) \/ i = Len(inbox[v]) + 1
      BY <2>2
    <2>4. Len(inbox[v]) + 1 \in 1..Len(inbox'[v])
          /\ \A i \in 1..Len(inbox[v]) : i \in 1..Len(inbox'[v])
      BY <2>2
    <2>5. {inbox'[v][i] : i \in 1..Len(inbox'[v])}
              = {inbox[v][i] : i \in 1..Len(inbox[v])} \union {cur}
      BY <2>2, <2>3, <2>4
    <2> QED
      BY <1>2, <2>1, <2>5 DEF Todo
  <1> QED
    BY <1>3, <1>4

(* A batch moves from the inbox to the worker's hand. *)
LEMMA ReceiveTodo ==
    ASSUME TypeOK, NEW v \in Workers, Receive(v)
    PROVE  Todo(v)' = Todo(v)
  <1>1. /\ wpc[v] = "recv" /\ wpc'[v] = "check" /\ msg'[v] = Head(inbox[v])
        /\ inbox'[v] = Tail(inbox[v]) /\ inbox[v] # <<>> /\ UNCHANGED <<pending, cur>>
    BY DEF TypeOK, Receive, readerVars
  <1>2. inbox[v] \in Seq(Batches)
    BY OrderShape
  <1>3. /\ Head(inbox[v]) = inbox[v][1] /\ Len(inbox[v]) \in Nat \ {0}
        /\ Len(Tail(inbox[v])) = Len(inbox[v]) - 1
        /\ \A i \in 1..Len(Tail(inbox[v])) : Tail(inbox[v])[i] = inbox[v][i + 1]
    BY <1>1, <1>2, HeadAndTail, Zenon
  <1> DEFINE s == inbox[v]
             t == Tail(inbox[v])
  <1>4. \A i \in 1..Len(t) : i + 1 \in 1..Len(s)
    BY <1>3
  <1>5. \A i \in 1..Len(s) : i = 1 \/ (i - 1 \in 1..Len(t) /\ (i - 1) + 1 = i)
    BY <1>3
  <1>6. 1 \in 1..Len(s)
    BY <1>3
  <1>7. \A i \in 1..Len(s) : i = 1 \/ \E j \in 1..Len(t) : t[j] = s[i]
    <2>1. \A i \in 1..Len(s) : i - 1 \in 1..Len(t) => t[i - 1] = s[(i - 1) + 1]
      BY <1>3
    <2> QED
      BY <1>5, <2>1
  <1>8. \A i \in 1..Len(t) : \E j \in 1..Len(s) : s[j] = t[i]
    BY <1>3, <1>4
  <1> HIDE DEF s, t
  <1>9. {s[i] : i \in 1..Len(s)} = {t[i] : i \in 1..Len(t)} \union {s[1]}
    <2>1. \A i \in 1..Len(s) : s[i] \in {t[j] : j \in 1..Len(t)} \union {s[1]}
      BY <1>7
    <2>2. \A i \in 1..Len(t) : t[i] \in {s[j] : j \in 1..Len(s)}
      BY <1>8
    <2>3. s[1] \in {s[j] : j \in 1..Len(s)}
      BY <1>6
    <2> QED
      BY <2>1, <2>2, <2>3
  <1> QED
    BY <1>1, <1>3, <1>9 DEF Todo, s, t

(* The message in hand is the first of what the worker is owed. *)
LEMMA InHandIsFirst ==
    ASSUME IInv, NEW w \in Workers, wpc[w] = "work"
    PROVE  /\ msg[w] \in Batches /\ msg[w] <= pos /\ msg[w] \in Todo(w)
           /\ \A b \in Todo(w) : b = msg[w] \/ msg[w] < b
  <1>1. TypeOK /\ BatchOrder
    BY DEF IInv
  <1>2. msg[w] # 0 /\ msg[w] <= pos /\ (w \in pending => msg[w] < cur)
        /\ \A i \in 1..Len(inbox[w]) : msg[w] < inbox[w][i]
    BY <1>1 DEF BatchOrder
  <1>3. msg[w] \in Batches
    BY <1>1, <1>2 DEF TypeOK
  <1> QED
    BY <1>2, <1>3 DEF Todo

(* Consuming the first batch owed brings the worker's groups to where the
   serial build is after that batch: those in between have none of its rows. *)
LEMMA ConsumeFrontier ==
    ASSUME IInv, NEW w \in Workers, Consume(w), NEW n \in 0..pos, Frontier(w, n)
    PROVE  msg[w] \in 0..pos' /\ Frontier(w, msg[w])'
  <1> DEFINE m == msg[w]
  <1>1. TypeOK /\ wpc[w] = "work" /\ n \in Nat /\ n <= pos
    BY InputShape DEF IInv, Consume, TypeOK
  <1>2. /\ m \in Batches /\ m \in Nat \ {0} /\ m <= pos /\ m \in Todo(w) /\ n < m
        /\ \A b \in Todo(w) : b = m \/ m < b
    BY <1>1, InHandIsFirst, InputShape DEF Frontier
  <1>3. /\ UNCHANGED <<input, inbox, msg, pos, pending, cur>>
        /\ wpc' = [wpc EXCEPT ![w] = "release"]
        /\ groups' = [groups EXCEPT ![w] = Consumed(w, m, GroupKeys)]
    BY DEF Consume, readerVars
  <1>4. wpc'[w] = "release" /\ groups'[w] = Consumed(w, m, GroupKeys)
    BY <1>1, <1>3 DEF TypeOK
  <1> HIDE DEF m
  <1>5. pos \in Nat /\ pos <= Len(input) /\ Len(input) \in Nat
    BY <1>1, InputShape DEF TypeOK
  <1>6. ASSUME NEW k \in GroupKeys, Hash[k] = w
        PROVE  groups'[w][k] = Serial(m, k)
    <2>1. groups'[w][k] = groups[w][k] \o RowsOf(KeyMode, input, m, k)
      BY <1>4, <1>6 DEF Consumed
    <2>2. groups[w][k] = Serial(n, k)
      BY <1>6 DEF Frontier, Serial
    <2>3. Serial(m - 1, k) = Serial(n, k)
      <3>1. \A b \in (n + 1)..(m - 1) : b \in (n + 1)..pos /\ ~ (b = m) /\ ~ (m < b)
        BY <1>1, <1>2, <1>5
      <3>2. \A b \in (n + 1)..(m - 1) : w \notin Recipients(b)
        BY <1>2, <3>1 DEF Frontier
      <3>3. n \in 0..Len(input) /\ m - 1 \in n..Len(input)
        BY <1>1, <1>2, <1>5
      <3> QED
        BY <1>1, <1>6, <3>2, <3>3, MissedBatches
    <2>4. Serial(m, k) = Serial(m - 1, k) \o RowsOf(KeyMode, input, m, k)
      BY <1>1, <1>2, OneBatchMore
    <2> QED
      BY <2>1, <2>2, <2>3, <2>4
  <1>7. Todo(w)' \subseteq Todo(w) /\ Todo(w) \subseteq Todo(w)' \union {m}
    BY <1>1, <1>3, <1>4 DEF Todo, m
  <1>8. m \notin Todo(w)'
    <2>1. /\ w \in pending => m < cur
          /\ \A i \in 1..Len(inbox[w]) : m < inbox[w][i]
      BY DEF IInv, BatchOrder, m
    <2> QED
      BY <1>2, <1>3, <1>4, <2>1 DEF Todo
  <1>9. \A b : Recipients(b)' = Recipients(b)
    BY <1>3 DEF Recipients
  <1>10. \A b \in Todo(w)' : m < b
    BY <1>2, <1>7, <1>8
  <1>11. \A b \in (m + 1)..pos : b \in (n + 1)..pos /\ b # m
    BY <1>1, <1>2, <1>5
  <1>12. \A b \in (m + 1)..pos' : w \in Recipients(b)' => b \in Todo(w)'
    BY <1>3, <1>7, <1>9, <1>11 DEF Frontier
  <1>13. \A k \in GroupKeys : Hash[k] = w =>
             groups'[w][k] = SerialTables(KeyMode, input', GroupKeys)[m][k]
    BY <1>3, <1>6 DEF Serial
  <1>14. m \in 0..pos' /\ m' = m
    BY <1>2, <1>3, <1>5 DEF m
  <1> QED
    BY <1>10, <1>12, <1>13, <1>14 DEF Frontier, m

LEMMA NextProgress ==
    ASSUME IInv, [Next]_vars
    PROVE  Progress'
  <1>1. TypeOK /\ ReaderState /\ Progress
    BY DEF IInv
  <1>2. SUFFICES ASSUME ~ Cancelled', readErr' = "none", NEW v \in Workers
                 PROVE  \E n \in 0..pos' : Frontier(v, n)'
    BY DEF Progress
  <1>3. PICK n \in 0..pos : Frontier(v, n)
    BY <1>1, <1>2, CalmBefore DEF Progress
  <1>4. CASE Pull
    BY <1>3, <1>4, PullFrontier
  <1>5. CASE Send
    <2>1. UNCHANGED <<input, groups, pos>>
      BY <1>5 DEF Send, workerVars
    <2> QED
      BY <1>3, <1>5, <2>1, SendTodo, FrontierStays
  <1>6. CASE Dispatched
    <2>1. UNCHANGED <<input, groups, pos, inbox, wpc, msg, pending>> /\ pending = {}
      BY <1>6 DEF Dispatched, workerVars
    <2>2. Todo(v)' = Todo(v)
      BY <2>1 DEF Todo
    <2> QED
      BY <1>3, <2>1, <2>2, FrontierStays
  <1>7. CASE Check \/ PullEnds \/ Retain \/ CloseInboxes \/ SetReadErr \/ UNCHANGED vars
    <2>1. UNCHANGED <<input, groups, pos, inbox, wpc, msg, pending, cur>>
      BY <1>7 DEF Check, PullEnds, Retain, CloseInboxes, SetReadErr, vars, readerVars, workerVars
    <2>2. Todo(v)' = Todo(v)
      BY <2>1 DEF Todo
    <2> QED
      BY <1>3, <2>1, <2>2, FrontierStays
  <1>8. CASE RoutingFails \/ SendCancelled \/ Merge \/ Cancel
    BY <1>2, <1>8 DEF RoutingFails, SendCancelled, Merge, Cancel, Cancelled
  <1>9. ASSUME NEW w \in Workers, Worker(w), v # w
        PROVE  \E b \in 0..pos' : Frontier(v, b)'
    <2>1. /\ inbox'[v] = inbox[v] /\ msg'[v] = msg[v] /\ wpc'[v] = wpc[v]
          /\ groups'[v] = groups[v] /\ UNCHANGED <<input, pos, pending, cur>>
      BY <1>1, <1>9 DEF TypeOK, Worker, Receive, CheckCancelled, Consume, ConsumeFails,
                        Release, Exit, readerVars
    <2>2. Todo(v)' = Todo(v)
      BY <2>1 DEF Todo
    <2> QED
      BY <1>3, <2>1, <2>2, FrontierStays
  <1>10. CASE Receive(v)
    <2>1. UNCHANGED <<input, groups, pos>>
      BY <1>10 DEF Receive, readerVars
    <2> QED
      BY <1>1, <1>3, <1>10, <2>1, ReceiveTodo, FrontierStays
  <1>11. CASE CheckCancelled(v) \/ Release(v) \/ Exit(v)
    <2>1. /\ UNCHANGED <<input, groups, pos, inbox, pending, cur>>
          /\ (wpc'[v] = "work" /\ wpc[v] = "check" /\ msg'[v] = msg[v])
             \/ (wpc[v] \notin {"check", "work"} /\ wpc'[v] \notin {"check", "work"})
      <3>1. ~ Cancelled
        BY <1>2, CalmBefore
      <3> QED
        BY <1>1, <1>11, <3>1 DEF TypeOK, CheckCancelled, Release, Exit, readerVars
    <2>2. Todo(v)' = Todo(v)
      BY <2>1 DEF Todo
    <2> QED
      BY <1>3, <2>1, <2>2, FrontierStays
  <1>12. CASE Consume(v)
    <2>1. msg[v] \in 0..pos' /\ Frontier(v, msg[v])' /\ msg' = msg
      BY <1>3, <1>12, ConsumeFrontier DEF Consume
    <2> QED
      BY <2>1
  <1>13. CASE ConsumeFails(v)
    BY <1>2, <1>13 DEF ConsumeFails, SetErr, Cancelled
  <1> QED
    BY <1>4, <1>5, <1>6, <1>7, <1>8, <1>9, <1>10, <1>11, <1>12, <1>13
       DEF Next, Reader, Worker, Returned

(* When the reader has pulled everything and the workers have left, the union
   of the workers' maps is the serial table. *)
LEMMA MergeMatches ==
    ASSUME IInv, Merge
    PROVE  MatchesSerial'
  <1>1. TypeOK /\ ReaderState /\ ExitReason /\ ErrorReason /\ Progress /\ OwnGroups /\ BatchOrder
    BY DEF IInv
  <1>2. SUFFICES ASSUME result' = "ok", ~ parentDone'
                 PROVE  table' = SerialTable(KeyMode, input, GroupKeys)
    BY DEF MatchesSerial, Merge
  <1>3. /\ rpc = "wait" /\ firstErr = "none" /\ ~ parentDone
        /\ \A w \in Workers : wpc[w] = "exit"
    BY <1>2 DEF Merge
  <1>4. readErr = "none" /\ pos = Len(input) /\ ~ Cancelled /\ pending = {}
    BY <1>1, <1>3 DEF ErrorReason, ReaderState, Cancelled
  <1>5. Len(input) \in Nat
    BY <1>1, InputShape
  <1>6. ASSUME NEW k \in GroupKeys
        PROVE  groups[Hash[k]][k] = SerialTable(KeyMode, input, GroupKeys)[k]
    <2> DEFINE w == Hash[k]
    <2>1. w \in Workers
      BY AggregateAssumption
    <2>2. PICK n \in 0..pos : Frontier(w, n)
      BY <1>1, <1>4, <2>1 DEF Progress
    <2>3. Todo(w) = {}
      <3>1. inbox[w] = <<>> /\ wpc[w] = "exit"
        BY <1>1, <1>3, <2>1 DEF ExitReason
      <3> HIDE DEF w
      <3> QED
        BY <1>4, <3>1 DEF Todo
    <2>4. \A b \in (n + 1)..Len(input) : w \notin Recipients(b)
      BY <1>4, <2>2, <2>3 DEF Frontier
    <2>5. n \in 0..Len(input) /\ Len(input) \in n..Len(input)
      BY <1>4, <1>5, <2>2
    <2>6. Serial(Len(input), k) = Serial(n, k)
      BY <1>1, <2>4, <2>5, MissedBatches
    <2>7. groups[w][k] = Serial(n, k)
      BY <2>2 DEF Frontier, Serial
    <2>8. Serial(Len(input), k) = SerialTable(KeyMode, input, GroupKeys)[k]
      BY <1>5, SerialTableIsLast DEF Serial
    <2> QED
      BY <2>6, <2>7, <2>8
  <1>7. ASSUME NEW k \in GroupKeys
        PROVE  table'[k] = groups[Hash[k]][k]
    <2> DEFINE having == {w \in Workers : groups[w][k] # <<>>}
               last == CHOOSE w \in having : \A v \in having : v <= w
    <2>1. table'[k] = IF having = {} THEN <<>> ELSE groups[last][k]
      BY <1>3 DEF Merge
    <2>2. Hash[k] \in Workers /\ \A w \in having : w = Hash[k]
      BY <1>1, AggregateAssumption DEF OwnGroups
    <2>3. CASE having = {}
      BY <2>1, <2>2, <2>3
    <2>4. CASE having # {}
      <3>1. having = {Hash[k]} /\ Hash[k] \in Int
        BY <2>2, <2>4 DEF Workers
      <3>2. last = Hash[k]
        <4> HIDE DEF having
        <4> QED
          BY <3>1
      <3> HIDE DEF having, last
      <3> QED
        BY <2>1, <2>4, <3>2
    <2> QED
      BY <2>3, <2>4
  <1> DEFINE T == SerialTable(KeyMode, input, GroupKeys)
  <1>8. T = [k \in GroupKeys |-> T[k]]
    BY <1>5, SerialTableIsLast
  <1>9. table' = [k \in GroupKeys |-> table'[k]]
    BY <1>3 DEF Merge
  <1> HIDE DEF T
  <1>10. \A k \in GroupKeys : table'[k] = T[k]
    BY <1>6, <1>7 DEF T
  <1> QED
    BY <1>8, <1>9, <1>10 DEF T

LEMMA NextMatches ==
    ASSUME IInv, [Next]_vars
    PROVE  MatchesSerial'
  <1>1. MatchesSerial
    BY DEF IInv
  <1>2. CASE Merge
    BY <1>2, MergeMatches
  <1>3. CASE ~ Merge
    <2>1. UNCHANGED <<input, result, table>> /\ (parentDone => parentDone')
      BY <1>3 DEF Next, Reader, Worker, Returned, Check, Pull, RoutingFails, PullEnds, Retain,
             Send, SendCancelled, Dispatched, CloseInboxes, SetReadErr, Receive, CheckCancelled,
             Consume, ConsumeFails, Release, Exit, Cancel, vars
    <2> QED
      BY <1>1, <2>1 DEF MatchesSerial
  <1> QED
    BY <1>2, <1>3

-----------------------------------------------------------------------------
(* The inductive invariant. *)

LEMMA InitIInv == Init => IInv
  <1> SUFFICES ASSUME Init
               PROVE  IInv
    OBVIOUS
  <1>1. /\ input \in Inputs /\ pos = 0 /\ rpc = "check" /\ cur = 0 /\ pending = {}
        /\ readErr = "none" /\ inbox = [w \in Workers |-> <<>>] /\ inboxClosed = FALSE
        /\ wpc = [w \in Workers |-> "recv"] /\ msg = [w \in Workers |-> 0]
        /\ groups = [w \in Workers |-> NoGroups] /\ refs = [b \in Batches |-> 0]
        /\ parentDone = FALSE /\ wDone = FALSE /\ firstErr = "none"
        /\ result = "running" /\ table = NoGroups
    BY DEF Init
  <1>2. \A w \in Workers : inbox[w] = <<>> /\ Len(inbox[w]) = 0
    BY <1>1
  <1>3. NoGroups \in [GroupKeys -> Seq(Batches \X (Nat \ {0}))]
    <2>1. <<>> \in Seq(Batches \X (Nat \ {0}))
      OBVIOUS
    <2> QED
      BY <2>1 DEF NoGroups
  <1>4. TypeOK
    <2>1. input \in Seq(Seq(Keys)) /\ Len(input) \in Nat
      BY <1>1, AggregateAssumption
    <2>2. pos \in 0..Len(input)
      BY <1>1, <2>1
    <2>3. /\ inbox \in [Workers -> Seq(Batches)]
          /\ \A w \in Workers : Len(inbox[w]) <= ChanBuf
      BY <1>1, <1>2, AggregateAssumption
    <2> QED
      BY <1>1, <1>3, <2>2, <2>3 DEF TypeOK
  <1>5. RefsMatchHolders
    <2>1. ASSUME NEW b \in Batches
          PROVE  refs[b] = Cardinality(InboxOf(b)) + Cardinality(HandOf(b)) + ReaderRefs(b)
      <3>1. b # 0
        BY <1>4, InputShape
      <3>2. InboxOf(b) = {} /\ HandOf(b) = {} /\ ReaderRefs(b) = 0
        BY <1>1, <1>2, <3>1 DEF InboxOf, HandOf, ReaderRefs
      <3> QED
        BY <1>1, <3>2, FS_EmptySet
    <2> QED
      BY <2>1 DEF RefsMatchHolders, InboxOf, HandOf, ReaderRefs
  <1>6. ReaderState /\ ExitReason /\ ErrorReason /\ RootCauseReturned /\ MatchesSerial
    BY <1>1 DEF ReaderState, Closing, ExitReason, ErrorReason, RootCauseReturned, MatchesSerial
  <1>7. BatchOrder
    BY <1>1, <1>2 DEF BatchOrder
  <1>8. OwnGroups
    BY <1>1 DEF OwnGroups, NoGroups
  <1>9. Progress
    <2>1. ASSUME NEW w \in Workers
          PROVE  Frontier(w, 0)
      <3>1. Todo(w) = {}
        BY <1>1, <1>2 DEF Todo
      <3>2. SerialTables(KeyMode, input, GroupKeys)[0] = [k \in GroupKeys |-> <<>>]
        BY <1>4, InputShape, SerialShape
      <3>3. groups[w] = NoGroups
        BY <1>1
      <3> QED
        BY <1>1, <3>1, <3>2, <3>3 DEF Frontier, NoGroups
    <2>2. 0 \in 0..pos
      BY <1>1
    <2> QED
      BY <2>1, <2>2 DEF Progress
  <1> QED
    BY <1>4, <1>5, <1>6, <1>7, <1>8, <1>9 DEF IInv

LEMMA NextIInv == IInv /\ [Next]_vars => IInv'
  BY NextTypeOK, NextRefs, NextReaderState, NextBatchOrder, NextExitReason, NextErrors,
     NextOwnGroups, NextProgress, NextMatches DEF IInv

LEMMA Invariance == Spec => []IInv
  BY InitIInv, NextIInv, PTL DEF Spec

-----------------------------------------------------------------------------
(* The theorems. *)

(* Every variable keeps its type: no inbox exceeds its capacity, and no
   reference count becomes negative, which is what a release too many of a
   batch would do. *)
THEOREM TypeCorrect == Spec => []TypeOK
  <1>1. IInv => TypeOK
    BY DEF IInv
  <1> QED
    BY <1>1, Invariance, PTL

(* Retain and Release pair up: at every moment a batch's count is the number
   of its holders, the reader, the reference it is about to send, the inboxes
   and the workers at work. *)
THEOREM CountsAreHolders == Spec => []RefsMatchHolders
  <1>1. IInv => RefsMatchHolders
    BY DEF IInv
  <1> QED
    BY <1>1, Invariance, PTL

(* When buildParallel has returned, with groups or with an error, cancelled or
   not, no batch is retained. *)
THEOREM BuildReleasesAll == Spec => []NothingRetained
  <1>1. ASSUME IInv, result # "running", NEW b \in Batches
        PROVE  refs[b] = 0
    <2>1. TypeOK /\ RefsMatchHolders /\ rpc = "returned" /\ cur = 0 /\ b # 0
      BY <1>1, InputShape DEF IInv, ReaderState
    <2>2. \A w \in Workers : wpc[w] = "exit" /\ inbox[w] = <<>> /\ msg[w] = 0
      BY <1>1, <2>1 DEF IInv, ExitReason, BatchOrder
    <2>3. InboxOf(b) = {} /\ HandOf(b) = {} /\ ReaderRefs(b) = 0
      BY <2>1, <2>2 DEF InboxOf, HandOf, ReaderRefs
    <2> QED
      BY <2>1, <2>3, RefsAre, FS_EmptySet
  <1>2. IInv => NothingRetained
    BY <1>1 DEF NothingRetained
  <1> QED
    BY <1>2, Invariance, PTL

(* No key has groups at two workers, so the union of their maps loses none. *)
THEOREM WorkersShareNoKey == Spec => []ShardsDisjoint
  <1>1. IInv => ShardsDisjoint
    BY DEF IInv, OwnGroups, ShardsDisjoint
  <1> QED
    BY <1>1, Invariance, PTL

(* A build that returns no error read its input to the end, and a build that
   reports a cancellation was cancelled by its caller: the cancellation a
   worker's failure causes is never what the caller is told. *)
THEOREM ErrorsAreRootCauses == Spec => []RootCauseReturned
  <1>1. IInv => RootCauseReturned
    BY DEF IInv
  <1> QED
    BY <1>1, Invariance, PTL

(* Whatever the interleaving of the workers and however their inboxes fill,
   the parallel build returns the groups of the serial build, each with its
   rows in the same order, when the caller did not cancel it. *)
THEOREM ParallelIsSerial == Spec => []MatchesSerial
  <1>1. IInv => MatchesSerial
    BY DEF IInv
  <1> QED
    BY <1>1, Invariance, PTL
=============================================================================
