-------------------------- MODULE GroupByPathsProofs --------------------------
(***************************************************************************)
(* Theorems about GroupByPaths for every frame, every kind of aggregate    *)
(* and every way to cut the rows into batches: batches do not matter, the  *)
(* paths agree on the rows and on their order, and an aggregate is what it *)
(* is defined to be.                                                       *)
(***************************************************************************)
EXTENDS GroupByPaths, SequenceTheorems, FiniteSetTheorems, WellFoundedInduction, TLAPS

(* Every non-empty set of natural numbers has a least element. *)
LEMMA LeastNatural ==
    ASSUME NEW T, T \subseteq Nat, T # {}
    PROVE  \E x \in T : \A y \in T : x <= y
  <1>1. PICK x \in T : \A y \in T : ~ (<<y, x>> \in OpToRel(<, Nat))
    BY NatLessThanWellFounded, WFMin
  <1>2. \A y \in T : <<y, x>> \in Nat \X Nat
    OBVIOUS
  <1>3. \A y \in T : ~ (y < x)
    BY <1>1, <1>2 DEF OpToRel
  <1> QED
    BY <1>3

(* Induction over the natural numbers, for a set in place of a predicate. *)
LEMMA SetInduction ==
    ASSUME NEW S, 0 \in S, \A n \in Nat : n \in S => n + 1 \in S
    PROVE  \A n \in Nat : n \in S
  <1> SUFFICES ASSUME Nat \ S # {}
               PROVE  FALSE
    OBVIOUS
  <1>1. PICK x \in Nat \ S : \A y \in Nat \ S : x <= y
    BY LeastNatural
  <1>2. x # 0 /\ x - 1 \in Nat
    BY <1>1
  <1>3. x - 1 \in S
    BY <1>1, <1>2
  <1> QED
    BY <1>1, <1>2, <1>3

(* The first numbers are a finite set. *)
LEMMA UpTo ==
    ASSUME NEW m \in Nat
    PROVE  IsFiniteSet(1..m) /\ Cardinality(1..m) = m
  <1> DEFINE a == 1
             b == m
  <1>1. a \in Int /\ b \in Int /\ (IF a > b THEN 0 ELSE b - a + 1) = m
    OBVIOUS
  <1> HIDE DEF a, b
  <1>2. IsFiniteSet(a..b) /\ Cardinality(a..b) = m
    BY <1>1, FS_Interval
  <1> QED
    BY <1>2 DEF a, b

-----------------------------------------------------------------------------
(* The order of ids. *)

\* What ids are: numbers, or strings of bytes.
Ids(numeric) == IF numeric THEN Int ELSE Seq(Int)

\* a is less than b from place n on, where the two first differ.
DiffersAt(a, b, n) ==
    /\ n \in 0..Len(a) /\ n <= Len(b)
    /\ \A i \in 1..n : a[i] = b[i]
    /\ \/ n = Len(a) /\ n < Len(b)
       \/ n < Len(a) /\ n < Len(b) /\ a[n + 1] < b[n + 1]

(* The order of byte strings, by the first byte that differs. *)
LEMMA BytesLessDef ==
    ASSUME NEW a \in Seq(Int), NEW b \in Seq(Int)
    PROVE  BytesLess(a, b) <=> \E n \in 0..Len(a) : DiffersAt(a, b, n)
  <1>1. ASSUME NEW n \in 0..Len(a), n <= Len(b)
        PROVE  SubSeq(a, 1, n) = SubSeq(b, 1, n) <=> \A i \in 1..n : a[i] = b[i]
    <2>1. /\ SubSeq(a, 1, n) = [i \in 1..n |-> a[i]]
          /\ SubSeq(b, 1, n) = [i \in 1..n |-> b[i]]
      BY <1>1, SubSeqProperties
    <2> QED
      BY <2>1
  <1> QED
    BY <1>1 DEF BytesLess, DiffersAt

(* Two different strings differ somewhere. *)
LEMMA BytesTotal ==
    ASSUME NEW a \in Seq(Int), NEW b \in Seq(Int), a # b
    PROVE  BytesLess(a, b) \/ BytesLess(b, a)
  <1> DEFINE T == {n \in Nat : ~ (n < Len(a) /\ n < Len(b) /\ a[n + 1] = b[n + 1])}
  <1>1. Len(a) \in T
    OBVIOUS
  <1>2. PICK n \in T : \A m \in T : n <= m
    BY <1>1, LeastNatural
  <1>3. n \in Nat /\ n <= Len(a) /\ n <= Len(b)
    BY <1>2
  <1>4. ASSUME NEW i \in 1..n
        PROVE  a[i] = b[i]
    <2>1. i - 1 \in Nat /\ i - 1 < n
      BY <1>3
    <2>2. i - 1 \notin T
      <3> HIDE DEF T
      <3> QED
        BY <1>2, <1>3, <2>1
    <2> QED
      BY <2>1, <2>2
  <1>5. ~ (n = Len(a) /\ n = Len(b))
    BY <1>4, SeqEqual
  <1>6. \/ a[n + 1] \in Int /\ b[n + 1] \in Int /\ a[n + 1] # b[n + 1]
        \/ n = Len(a) \/ n = Len(b)
    BY <1>2, <1>3
  <1> HIDE DEF T
  <1>7. DiffersAt(a, b, n) \/ DiffersAt(b, a, n)
    BY <1>2, <1>3, <1>4, <1>5, <1>6 DEF DiffersAt
  <1> QED
    BY <1>3, <1>7, BytesLessDef

(* Before is a strict order, and total. *)
LEMMA BeforeOrders ==
    ASSUME NEW numeric \in BOOLEAN
    PROVE  /\ \A a \in Ids(numeric) : ~ Before(numeric, a, a)
           /\ \A a, b, c \in Ids(numeric) :
                 Before(numeric, a, b) /\ Before(numeric, b, c) => Before(numeric, a, c)
           /\ \A a, b \in Ids(numeric) :
                 a = b \/ Before(numeric, a, b) \/ Before(numeric, b, a)
  <1>1. CASE numeric
    BY <1>1 DEF Ids, Before
  <1>2. CASE ~ numeric
    <2>1. ASSUME NEW a \in Seq(Int), BytesLess(a, a)
          PROVE  FALSE
      BY <2>1, BytesLessDef DEF DiffersAt
    <2>2. ASSUME NEW a \in Seq(Int), NEW b \in Seq(Int), NEW c \in Seq(Int),
                 BytesLess(a, b), BytesLess(b, c)
          PROVE  BytesLess(a, c)
      <3>1. PICK n \in 0..Len(a) : DiffersAt(a, b, n)
        BY <2>2, BytesLessDef
      <3>2. PICK m \in 0..Len(b) : DiffersAt(b, c, m)
        BY <2>2, BytesLessDef
      <3>3. CASE n <= m
        <4>1. n < Len(b) /\ n \in 0..Len(a) /\ n <= Len(c) /\ \A i \in 1..n : a[i] = c[i]
          BY <3>1, <3>2, <3>3 DEF DiffersAt
        <4>2. CASE n = m
          <5>1. n < Len(c) /\ b[n + 1] \in Int /\ c[n + 1] \in Int /\ b[n + 1] < c[n + 1]
            BY <3>2, <4>1, <4>2 DEF DiffersAt
          <5>2. n = Len(a) \/ (n < Len(a) /\ a[n + 1] \in Int /\ a[n + 1] < b[n + 1])
            BY <3>1 DEF DiffersAt
          <5> QED
            BY <4>1, <5>1, <5>2, BytesLessDef DEF DiffersAt
        <4>3. CASE n < m
          <5>1. m <= Len(c) /\ \A i \in 1..m : b[i] = c[i]
            BY <3>2 DEF DiffersAt
          <5>2. n < Len(c) /\ b[n + 1] = c[n + 1]
            BY <4>1, <4>3, <5>1
          <5>3. n = Len(a) \/ (n < Len(a) /\ a[n + 1] < b[n + 1])
            BY <3>1 DEF DiffersAt
          <5>4. DiffersAt(a, c, n)
            BY <4>1, <5>2, <5>3 DEF DiffersAt
          <5> QED
            BY <4>1, <5>4, BytesLessDef
        <4> QED
          BY <3>3, <4>2, <4>3
      <3>4. CASE m < n
        <4>1. DiffersAt(a, c, m)
          BY <3>1, <3>2, <3>4 DEF DiffersAt
        <4> QED
          BY <4>1, BytesLessDef DEF DiffersAt
      <3> QED
        BY <3>3, <3>4
    <2> QED
      BY <1>2, <2>1, <2>2, BytesTotal DEF Ids, Before
  <1> QED
    BY <1>1, <1>2

-----------------------------------------------------------------------------
(* Sorted sets. *)

\* How many elements of S come before x.
Rank(numeric, S, x) == Cardinality({y \in S : Before(numeric, y, x)})

(* Ranks are the numbers from zero, each once. *)
LEMMA Ranks ==
    ASSUME NEW numeric \in BOOLEAN, NEW S, S \subseteq Ids(numeric), IsFiniteSet(S)
    PROVE  /\ Cardinality(S) \in Nat
           /\ \A x \in S : Rank(numeric, S, x) \in 0..(Cardinality(S) - 1)
           /\ \A x, y \in S : Before(numeric, x, y) <=> Rank(numeric, S, x) < Rank(numeric, S, y)
           /\ \A x, y \in S : Rank(numeric, S, x) = Rank(numeric, S, y) => x = y
           /\ \A n \in 0..(Cardinality(S) - 1) : \E x \in S : Rank(numeric, S, x) = n
  <1> DEFINE Lower(x) == {y \in S : Before(numeric, y, x)}
             last == Cardinality(S) - 1
             f == [x \in S |-> Rank(numeric, S, x)]
  <1>1. Cardinality(S) \in Nat
    BY FS_CardinalityType
  <1>2. ASSUME NEW x \in S
        PROVE  /\ IsFiniteSet(Lower(x)) /\ Cardinality(Lower(x)) \in Nat
               /\ Cardinality(Lower(x)) = Rank(numeric, S, x)
    <2>1. IsFiniteSet(Lower(x))
      BY FS_Subset
    <2> QED
      BY <2>1, FS_CardinalityType DEF Rank
  <1>3. ASSUME NEW x \in S
        PROVE  Rank(numeric, S, x) \in 0..last
    <2>1. x \notin Lower(x) /\ Lower(x) \in SUBSET S /\ Lower(x) # S
      BY BeforeOrders
    <2>2. Cardinality(Lower(x)) <= Cardinality(S) /\ Cardinality(Lower(x)) # Cardinality(S)
      BY <2>1, FS_Subset
    <2> HIDE DEF Lower
    <2> QED
      BY <1>1, <1>2, <2>2
  <1>4. ASSUME NEW x \in S, NEW y \in S, Before(numeric, x, y)
        PROVE  Rank(numeric, S, x) < Rank(numeric, S, y)
    <2>1. Lower(x) \in SUBSET Lower(y) /\ x \in Lower(y) /\ x \notin Lower(x)
      BY <1>4, BeforeOrders
    <2>2. Cardinality(Lower(x)) <= Cardinality(Lower(y))
      BY <1>2, <2>1, FS_Subset
    <2>3. Cardinality(Lower(x)) # Cardinality(Lower(y))
      <3> HIDE DEF Lower
      <3> QED
        BY <1>2, <2>1, FS_Subset
    <2> HIDE DEF Lower
    <2> QED
      BY <1>2, <2>2, <2>3
  <1>5. ASSUME NEW x \in S, NEW y \in S, x # y
        PROVE  Rank(numeric, S, x) # Rank(numeric, S, y)
    <2>1. Before(numeric, x, y) \/ Before(numeric, y, x)
      BY <1>5, BeforeOrders
    <2>2. Rank(numeric, S, x) \in Nat /\ Rank(numeric, S, y) \in Nat
      BY <1>2
    <2> QED
      BY <1>4, <2>1, <2>2
  <1>6. ASSUME NEW x \in S, NEW y \in S, Rank(numeric, S, x) < Rank(numeric, S, y)
        PROVE  Before(numeric, x, y)
    <2>1. Rank(numeric, S, x) \in Nat /\ Rank(numeric, S, y) \in Nat
      BY <1>2
    <2>2. x = y \/ Before(numeric, x, y) \/ Before(numeric, y, x)
      BY BeforeOrders
    <2> QED
      BY <1>4, <1>6, <2>1, <2>2
  <1>7. ASSUME NEW n \in 0..last
        PROVE  \E x \in S : Rank(numeric, S, x) = n
    <2>1. f \in Injection(S, 0..last)
      <3>1. f \in [S -> 0..last]
        BY <1>3
      <3>2. \A x, y \in S : f[x] = f[y] => x = y
        BY <1>5
      <3> HIDE DEF f, last
      <3> QED
        BY <3>1, <3>2 DEF Injection, IsInjective
    <2>2. IsFiniteSet(0..last) /\ Cardinality(0..last) = Cardinality(S)
      BY <1>1, FS_Interval
    <2>3. f \in Surjection(S, 0..last)
      <3> DEFINE T == 0..last
      <3>1. f \in Injection(S, T) /\ IsFiniteSet(T) /\ Cardinality(S) = Cardinality(T)
        BY <2>1, <2>2
      <3> HIDE DEF f, T
      <3>2. f \in Surjection(S, T)
        BY <3>1, FS_Injection
      <3> QED
        BY <3>2 DEF T
    <2> QED
      BY <2>3 DEF Surjection
  <1> HIDE DEF Lower, f
  <1> QED
    BY <1>1, <1>3, <1>4, <1>5, <1>6, <1>7

\* s lists the elements of S, each behind those that come before it.
Lists(numeric, s, S) ==
    /\ s \in Seq(S)
    /\ \A i, j \in 1..Len(s) : i < j => Before(numeric, s[i], s[j])
    /\ \A x \in S : \E i \in 1..Len(s) : s[i] = x

(* Ascending lists a set in its order. *)
LEMMA AscendingLists ==
    ASSUME NEW numeric \in BOOLEAN, NEW S, S \subseteq Ids(numeric), IsFiniteSet(S)
    PROVE  /\ Lists(numeric, Ascending(numeric, S), S)
           /\ Len(Ascending(numeric, S)) = Cardinality(S)
  <1> DEFINE s == Ascending(numeric, S)
             m == Cardinality(S)
  <1>1. s = [n \in 1..m |-> CHOOSE x \in S : Rank(numeric, S, x) = n - 1]
    BY DEF Ascending, Rank
  <1>2. m \in Nat
    BY Ranks
  <1>3. ASSUME NEW n \in 1..m
        PROVE  s[n] \in S /\ Rank(numeric, S, s[n]) = n - 1
    <2>1. n - 1 \in 0..(m - 1)
      BY <1>2
    <2>2. \E x \in S : Rank(numeric, S, x) = n - 1
      BY <2>1, Ranks
    <2>3. s[n] = CHOOSE x \in S : Rank(numeric, S, x) = n - 1
      BY <1>1
    <2> QED
      BY <2>2, <2>3
  <1> HIDE DEF s, m
  <1>4. s \in Seq(S) /\ Len(s) = m
    <2>1. s = [n \in 1..m |-> s[n]]
      BY <1>1
    <2> QED
      BY <1>2, <1>3, <2>1
  <1>5. ASSUME NEW i \in 1..m, NEW j \in 1..m, i < j
        PROVE  Before(numeric, s[i], s[j])
    <2>1. Rank(numeric, S, s[i]) < Rank(numeric, S, s[j])
      BY <1>2, <1>3, <1>5
    <2> QED
      BY <1>3, <2>1, Ranks
  <1>6. ASSUME NEW x \in S
        PROVE  \E i \in 1..m : s[i] = x
    <2>1. Rank(numeric, S, x) \in 0..(m - 1)
      BY Ranks DEF m
    <2>2. Rank(numeric, S, x) + 1 \in 1..m
      BY <1>2, <2>1
    <2>3. Rank(numeric, S, s[Rank(numeric, S, x) + 1]) = Rank(numeric, S, x)
      BY <1>3, <2>1, <2>2
    <2> QED
      BY <1>3, <2>2, <2>3, Ranks
  <1> QED
    BY <1>4, <1>5, <1>6 DEF Lists, s, m

(* There is one such list. *)
LEMMA ListsUnique ==
    ASSUME NEW numeric \in BOOLEAN, NEW S, S \subseteq Ids(numeric),
           NEW s, Lists(numeric, s, S), NEW t, Lists(numeric, t, S)
    PROVE  s = t
  <1>1. /\ s \in Seq(S) /\ t \in Seq(S)
        /\ \A i, j \in 1..Len(s) : i < j => Before(numeric, s[i], s[j])
        /\ \A i, j \in 1..Len(t) : i < j => Before(numeric, t[i], t[j])
    BY DEF Lists
  <1>2. \A i, j \in 1..Len(s) : Before(numeric, s[i], s[j]) => i < j
    BY <1>1, BeforeOrders
  <1>3. \A i, j \in 1..Len(t) : Before(numeric, t[i], t[j]) => i < j
    BY <1>1, BeforeOrders
  <1> DEFINE T == {n \in Nat : n <= Len(s) => n <= Len(t) /\ \A i \in 1..n : s[i] = t[i]}
  <1>4. 0 \in T
    BY <1>1
  <1>5. ASSUME NEW n \in Nat, n \in T
        PROVE  n + 1 \in T
    <2> SUFFICES ASSUME n + 1 <= Len(s)
                 PROVE  n + 1 <= Len(t) /\ s[n + 1] = t[n + 1]
      BY <1>1, <1>5
    <2>1. n <= Len(t) /\ \A i \in 1..n : s[i] = t[i]
      BY <1>1, <1>5
    <2> HIDE DEF T
    <2>2. s[n + 1] \in S
      BY <1>1
    <2>3. PICK j \in 1..Len(t) : t[j] = s[n + 1]
      BY <2>2 DEF Lists
    <2>4. j > n
      <3> SUFFICES ASSUME j \in 1..n
                   PROVE  FALSE
        BY <1>1
      <3>1. s[j] = s[n + 1]
        BY <2>1, <2>3
      <3>2. Before(numeric, s[j], s[n + 1])
        BY <1>1, <2>1
      <3> QED
        BY <2>2, <3>1, <3>2, BeforeOrders
    <2>5. n + 1 <= Len(t) /\ t[n + 1] \in S
      BY <1>1, <2>4
    <2>6. PICK k \in 1..Len(s) : s[k] = t[n + 1]
      BY <2>5 DEF Lists
    <2>7. k > n
      <3> SUFFICES ASSUME k \in 1..n
                   PROVE  FALSE
        BY <1>1
      <3>1. t[k] = t[n + 1]
        BY <2>1, <2>6
      <3>2. Before(numeric, t[k], t[n + 1])
        BY <1>1, <2>1, <2>5
      <3> QED
        BY <2>5, <3>1, <3>2, BeforeOrders
    <2>8. CASE j = n + 1
      BY <2>3, <2>5, <2>8
    <2>9. CASE j > n + 1
      <3>1. Before(numeric, t[n + 1], t[j])
        BY <1>1, <2>5, <2>9
      <3>2. Before(numeric, s[k], s[n + 1])
        BY <2>3, <2>6, <3>1
      <3> QED
        BY <1>1, <1>2, <2>7, <3>2
    <2> QED
      BY <1>1, <2>4, <2>8, <2>9
  <1>6. \A n \in Nat : n \in T
    <2> HIDE DEF T
    <2> QED
      BY <1>4, <1>5, SetInduction
  <1>7. Len(s) <= Len(t) /\ \A i \in 1..Len(s) : s[i] = t[i]
    BY <1>1, <1>6
  <1> HIDE DEF T
  <1>8. ASSUME Len(s) < Len(t)
        PROVE  FALSE
    <2>1. t[Len(s) + 1] \in S
      BY <1>1, <1>8
    <2>2. PICK i \in 1..Len(s) : s[i] = t[Len(s) + 1]
      BY <2>1 DEF Lists
    <2>3. Before(numeric, t[i], t[Len(s) + 1])
      BY <1>1, <1>8
    <2> QED
      BY <1>7, <2>1, <2>2, <2>3, BeforeOrders
  <1> QED
    BY <1>1, <1>7, <1>8, SeqEqual

(* The rows of a set, in order. *)
LEMMA InOrderLists ==
    ASSUME NEW rows, rows \subseteq Int, IsFiniteSet(rows)
    PROVE  /\ InOrder(rows) \in Seq(rows)
           /\ Len(InOrder(rows)) = Cardinality(rows)
           /\ \A i, j \in 1..Len(InOrder(rows)) : i < j => InOrder(rows)[i] < InOrder(rows)[j]
           /\ \A x \in rows : \E i \in 1..Len(InOrder(rows)) : InOrder(rows)[i] = x
  <1>1. rows \subseteq Ids(TRUE)
    BY DEF Ids
  <1>2. Lists(TRUE, Ascending(TRUE, rows), rows)
        /\ Len(Ascending(TRUE, rows)) = Cardinality(rows)
    BY <1>1, AscendingLists
  <1> QED
    BY <1>2 DEF Lists, InOrder, Before

LEMMA InOrderListed ==
    ASSUME NEW rows, rows \subseteq Int, IsFiniteSet(rows)
    PROVE  Lists(TRUE, InOrder(rows), rows)
  <1>1. rows \subseteq Ids(TRUE)
    BY DEF Ids
  <1> QED
    BY <1>1, AscendingLists DEF InOrder

(* A sequence that lists the rows of a set in order is that order. *)
LEMMA InOrderIs ==
    ASSUME NEW rows, rows \subseteq Int, IsFiniteSet(rows),
           NEW s \in Seq(rows),
           \A i, j \in 1..Len(s) : i < j => s[i] < s[j],
           \A x \in rows : \E i \in 1..Len(s) : s[i] = x
    PROVE  InOrder(rows) = s
  <1>1. rows \subseteq Ids(TRUE)
    BY DEF Ids
  <1>2. Lists(TRUE, Ascending(TRUE, rows), rows)
    BY <1>1, AscendingLists
  <1>3. Lists(TRUE, s, rows)
    BY DEF Lists, Before
  <1> QED
    BY <1>1, <1>2, <1>3, ListsUnique DEF InOrder

(* A row behind all others is appended. *)
LEMMA InOrderAppend ==
    ASSUME NEW rows, rows \subseteq Int, IsFiniteSet(rows),
           NEW m \in Int, \A x \in rows : x < m
    PROVE  InOrder(rows \cup {m}) = Append(InOrder(rows), m)
  <1> DEFINE s == InOrder(rows)
             t == Append(s, m)
             all == rows \cup {m}
  <1>1. /\ s \in Seq(rows)
        /\ \A i, j \in 1..Len(s) : i < j => s[i] < s[j]
        /\ \A x \in rows : \E i \in 1..Len(s) : s[i] = x
    BY InOrderLists
  <1>2. all \subseteq Int /\ IsFiniteSet(all)
    BY FS_AddElement
  <1> HIDE DEF s
  <1>3. /\ t \in Seq(all) /\ Len(t) = Len(s) + 1 /\ t[Len(s) + 1] = m
        /\ \A i \in 1..Len(s) : t[i] = s[i] /\ s[i] \in rows
    BY <1>1, AppendProperties
  <1> HIDE DEF t
  <1>4. ASSUME NEW i \in 1..Len(t), NEW j \in 1..Len(t), i < j
        PROVE  t[i] < t[j]
    <2>1. i \in 1..Len(s) /\ t[i] = s[i]
      BY <1>1, <1>3, <1>4
    <2>2. j \in 1..Len(s) \/ j = Len(s) + 1
      BY <1>1, <1>3
    <2> QED
      BY <1>1, <1>3, <1>4, <2>1, <2>2
  <1>5. \A x \in all : \E i \in 1..Len(t) : t[i] = x
    <2> TAKE x \in all
    <2>1. CASE x = m
      BY <1>1, <1>3, <2>1
    <2>2. CASE x \in rows
      BY <1>1, <1>3, <2>2
    <2> QED
      BY <2>1, <2>2 DEF all
  <1> HIDE DEF all
  <1>6. InOrder(all) = t
    BY <1>2, <1>3, <1>4, <1>5, InOrderIs
  <1> QED
    BY <1>6 DEF all, t, s

-----------------------------------------------------------------------------
(* The values of a group. *)

\* The cells a column of values from V may hold.
CellsOf(V) == {Null} \cup [1..1 -> V]

PresentAt(cells) == {i \in 1..Len(cells) : cells[i] # Null}

LEMMA PresentEmpty == Present(<<>>) = <<>>
  <1> DEFINE none == {i \in 1..Len(<<>>) : <<>>[i] # Null}
  <1>1. none = {}
    OBVIOUS
  <1>2. Len(InOrder(none)) = 0
    BY <1>1, InOrderLists, FS_EmptySet
  <1> DEFINE kept == InOrder(none)
             p == [i \in 1..Len(kept) |-> <<>>[kept[i]][1]]
  <1>3. p = Present(<<>>)
    BY DEF Present
  <1> HIDE DEF none, kept
  <1>4. p \in Seq({}) /\ Len(p) = 0
    BY <1>2 DEF kept
  <1> QED
    BY <1>3, <1>4

(* The values of cells that grow at the end. *)
LEMMA PresentAppend ==
    ASSUME NEW V, NEW cells \in Seq(CellsOf(V)), NEW cell \in CellsOf(V)
    PROVE  /\ Present(cells) \in Seq(V)
           /\ Present(Append(cells, cell)) =
                 IF cell = Null THEN Present(cells) ELSE Append(Present(cells), cell[1])
  <1> DEFINE n == Len(cells)
             kept == PresentAt(cells)
             all == Append(cells, cell)
             order == InOrder(kept)
  <1>1. /\ n \in Nat /\ Len(all) = n + 1 /\ all[n + 1] = cell
        /\ \A i \in 1..n : all[i] = cells[i]
    OBVIOUS
  <1>2. kept \subseteq Int /\ IsFiniteSet(kept) /\ kept \subseteq 1..n
    <2>1. IsFiniteSet(1..n)
      BY FS_Interval
    <2> QED
      BY <2>1, FS_Subset DEF PresentAt
  <1>3. order \in Seq(kept)
    BY <1>2, InOrderLists
  <1>4. \A i \in kept : cells[i] \in [1..1 -> V]
    BY DEF CellsOf, PresentAt
  <1> DEFINE vs == [i \in 1..Len(order) |-> cells[order[i]][1]]
  <1>5. Present(cells) = vs
    BY DEF Present, PresentAt
  <1>6. vs \in Seq(V)
    <2>1. \A i \in 1..Len(order) : order[i] \in kept
      BY <1>3
    <2>2. \A i \in 1..Len(order) : cells[order[i]][1] \in V
      BY <1>4, <2>1
    <2> QED
      BY <1>3, <2>2
  <1>7. CASE cell = Null
    <2>1. PresentAt(all) = kept
      BY <1>1, <1>7 DEF PresentAt
    <2>2. Present(all) = [i \in 1..Len(order) |-> all[order[i]][1]]
      BY <2>1 DEF Present, PresentAt
    <2>3. \A i \in 1..Len(order) : all[order[i]] = cells[order[i]]
      <3>1. \A i \in 1..Len(order) : order[i] \in 1..n
        BY <1>2, <1>3
      <3> HIDE DEF order, all, n
      <3> QED
        BY <1>1, <3>1
    <2>4. Present(all) = vs
      <3> HIDE DEF order, all
      <3> QED
        BY <2>2, <2>3
    <2> QED
      BY <1>5, <1>6, <1>7, <2>4
  <1>8. CASE cell # Null
    <2>1. PresentAt(all) = kept \cup {n + 1}
      BY <1>1, <1>8 DEF PresentAt
    <2>2. InOrder(PresentAt(all)) = Append(order, n + 1)
      <3>1. \A x \in kept : x < n + 1
        BY <1>1, <1>2
      <3>2. n + 1 \in Int /\ kept \subseteq Int /\ IsFiniteSet(kept)
        BY <1>1, <1>2
      <3> HIDE DEF n, kept, order, vs
      <3>3. InOrder(kept \cup {n + 1}) = Append(InOrder(kept), n + 1)
        BY <3>1, <3>2, InOrderAppend
      <3> QED
        BY <2>1, <3>3 DEF order
    <2> DEFINE more == Append(order, n + 1)
    <2>3. /\ Len(more) = Len(order) + 1 /\ more[Len(order) + 1] = n + 1
          /\ \A i \in 1..Len(order) : more[i] = order[i] /\ order[i] \in 1..n
      BY <1>2, <1>3
    <2>4. Present(all) = [i \in 1..Len(more) |-> all[more[i]][1]]
      BY <2>2 DEF Present, PresentAt
    <2>5. Len(order) \in Nat
      BY <1>3
    <2> HIDE DEF order, all, more, n, kept
    <2>6. [i \in 1..Len(more) |-> all[more[i]][1]] = Append(vs, cell[1])
      <3> DEFINE a == [i \in 1..Len(more) |-> all[more[i]][1]]
                 b == Append(vs, cell[1])
      <3>1. a = [i \in 1..(Len(order) + 1) |-> IF i = Len(order) + 1 THEN cell[1]
                                               ELSE cells[order[i]][1]]
        <4>1. \A i \in 1..(Len(order) + 1) : all[more[i]][1] =
                  IF i = Len(order) + 1 THEN cell[1] ELSE cells[order[i]][1]
          BY <1>1, <2>3, <2>5
        <4> QED
          BY <2>3, <4>1
      <3>2. /\ Len(vs) = Len(order)
            /\ \A i \in 1..Len(order) : vs[i] = cells[order[i]][1]
        BY <2>5
      <3> HIDE DEF vs
      <3>3. cell[1] \in V
        BY <1>8 DEF CellsOf
      <3>4. /\ b \in Seq(V) /\ Len(b) = Len(order) + 1 /\ b[Len(order) + 1] = cell[1]
            /\ \A i \in 1..Len(order) : b[i] = vs[i]
        BY <1>5, <1>6, <2>5, <3>2, <3>3, AppendProperties
      <3>5. \A i \in 1..(Len(order) + 1) : i # Len(order) + 1 => i \in 1..Len(order)
        BY <2>5
      <3>6. b = [i \in 1..(Len(order) + 1) |-> b[i]]
        BY <3>4
      <3> HIDE DEF a, b
      <3>7. b = [i \in 1..(Len(order) + 1) |-> IF i = Len(order) + 1 THEN cell[1]
                                               ELSE cells[order[i]][1]]
        BY <3>2, <3>4, <3>5, <3>6
      <3> QED
        BY <3>1, <3>7 DEF a, b
    <2> QED
      BY <1>5, <1>6, <1>8, <2>4, <2>6 DEF all
  <1> QED
    BY <1>7, <1>8

-----------------------------------------------------------------------------
(* Recursive definitions, unfolded. *)

(* OnePass, value by value. *)
LEMMA OnePassDef ==
    ASSUME NEW V, NEW vs \in Seq(V)
    PROVE  \E h : /\ OnePass(vs) = h[Len(vs)]
                  /\ h[0] = NothingPassed
                  /\ \A i \in 1..Len(vs) : h[i] = PassOver(h[i - 1], vs[i])
  <1> DEFINE Step(h, i) == IF i = 0 THEN NothingPassed ELSE PassOver(h[i - 1], vs[i])
             Solves(h, l) == h = [i \in 0..l |-> Step(h, i)]
             S == {l \in Nat : \E h : Solves(h, 0 + l)}
             m == Len(vs) - 0
  <1>1. /\ 0 \in Int /\ m \in Nat /\ Len(vs) = 0 + m
        /\ Len(vs) \in 0..Len(vs) /\ 0 \in 0..Len(vs) /\ 1 = 0 + 1
    OBVIOUS
  <1>2. 0 \in S
    <2> DEFINE g == [i \in 0..(0 + 0) |-> NothingPassed]
    <2>1. \A i \in 0..(0 + 0) : Step(g, i) = NothingPassed
      BY <1>1
    <2> HIDE DEF Step
    <2>2. Solves(g, 0 + 0)
      BY <2>1
    <2> HIDE DEF Solves, g
    <2> QED
      BY <2>2
  <1>3. ASSUME NEW l \in Nat, l \in S
        PROVE  l + 1 \in S
    <2>1. PICK h : Solves(h, 0 + l)
      BY <1>3
    <2> DEFINE next == 0 + l + 1
               g == [i \in 0..(0 + (l + 1)) |-> IF i = next THEN Step(h, next) ELSE h[i]]
    <2>2. ASSUME NEW i \in 0..(0 + (l + 1))
          PROVE  g[i] = Step(g, i)
      <3>1. i # 0 => i - 1 \in 0..(0 + (l + 1)) /\ i - 1 # next
        BY <1>1
      <3>2. i # 0 => g[i - 1] = h[i - 1]
        BY <3>1
      <3> HIDE DEF g
      <3>3. Step(g, i) = Step(h, i)
        BY <3>2
      <3>4. i # next => i \in 0..(0 + l)
        BY <1>1
      <3> HIDE DEF Step
      <3>5. i # next => h[i] = Step(h, i)
        BY <2>1, <3>4
      <3>6. g[i] = IF i = next THEN Step(h, next) ELSE h[i]
        BY DEF g
      <3> QED
        BY <3>3, <3>5, <3>6
    <2> HIDE DEF Step
    <2>3. Solves(g, 0 + (l + 1))
      <3>1. g = [i \in 0..(0 + (l + 1)) |-> g[i]]
        OBVIOUS
      <3> HIDE DEF g
      <3> QED
        BY <2>2, <3>1
    <2> HIDE DEF Solves, g
    <2> QED
      BY <2>3
  <1>4. m \in S
    <2> HIDE DEF S, m
    <2> QED
      BY <1>1, <1>2, <1>3, SetInduction
  <1>5. \E h : h = [i \in 0..Len(vs) |-> Step(h, i)]
    <2> HIDE DEF Step, m
    <2> QED
      BY <1>1, <1>4
  <1> DEFINE r == CHOOSE h : h = [i \in 0..Len(vs) |-> Step(h, i)]
  <1>6. OnePass(vs) = r[Len(vs)]
    BY DEF OnePass
  <1>7. r = [i \in 0..Len(vs) |-> Step(r, i)]
    <2> HIDE DEF Step
    <2> QED
      BY <1>5
  <1> HIDE DEF r
  <1>8. \A i \in 0..Len(vs) : r[i] = Step(r, i)
    <2> HIDE DEF Step
    <2> QED
      BY <1>7
  <1>9. r[0] = NothingPassed
    BY <1>1, <1>8
  <1>10. ASSUME NEW i \in 1..Len(vs)
         PROVE  r[i] = PassOver(r[i - 1], vs[i])
    <2>1. i \in 0..Len(vs) /\ i # 0
      BY <1>1
    <2> QED
      BY <1>8, <2>1
  <1> QED
    BY <1>6, <1>9, <1>10

(* Total, value by value. *)
Totals(h, vs) == /\ Total(vs) = h[Len(vs)]
                 /\ h[0] = 0
                 /\ \A i \in 1..Len(vs) : h[i] = h[i - 1] + vs[i]

LEMMA TotalDef ==
    ASSUME NEW V, NEW vs \in Seq(V)
    PROVE  \E h : Totals(h, vs)
  <1> DEFINE Step(h, i) == IF i = 0 THEN 0 ELSE h[i - 1] + vs[i]
             Solves(h, l) == h = [i \in 0..l |-> Step(h, i)]
             S == {l \in Nat : \E h : Solves(h, 0 + l)}
             m == Len(vs) - 0
  <1>1. /\ 0 \in Int /\ m \in Nat /\ Len(vs) = 0 + m
        /\ Len(vs) \in 0..Len(vs) /\ 0 \in 0..Len(vs) /\ 1 = 0 + 1
    OBVIOUS
  <1>2. 0 \in S
    <2> DEFINE g == [i \in 0..(0 + 0) |-> 0]
    <2>1. \A i \in 0..(0 + 0) : Step(g, i) = 0
      BY <1>1
    <2> HIDE DEF Step
    <2>2. Solves(g, 0 + 0)
      BY <2>1
    <2> HIDE DEF Solves, g
    <2> QED
      BY <2>2
  <1>3. ASSUME NEW l \in Nat, l \in S
        PROVE  l + 1 \in S
    <2>1. PICK h : Solves(h, 0 + l)
      BY <1>3
    <2> DEFINE next == 0 + l + 1
               g == [i \in 0..(0 + (l + 1)) |-> IF i = next THEN Step(h, next) ELSE h[i]]
    <2>2. ASSUME NEW i \in 0..(0 + (l + 1))
          PROVE  g[i] = Step(g, i)
      <3>1. i # 0 => i - 1 \in 0..(0 + (l + 1)) /\ i - 1 # next
        BY <1>1
      <3>2. i # 0 => g[i - 1] = h[i - 1]
        BY <3>1
      <3> HIDE DEF g
      <3>3. Step(g, i) = Step(h, i)
        BY <3>2
      <3>4. i # next => i \in 0..(0 + l)
        BY <1>1
      <3> HIDE DEF Step
      <3>5. i # next => h[i] = Step(h, i)
        BY <2>1, <3>4
      <3>6. g[i] = IF i = next THEN Step(h, next) ELSE h[i]
        BY DEF g
      <3> QED
        BY <3>3, <3>5, <3>6
    <2> HIDE DEF Step
    <2>3. Solves(g, 0 + (l + 1))
      <3>1. g = [i \in 0..(0 + (l + 1)) |-> g[i]]
        OBVIOUS
      <3> HIDE DEF g
      <3> QED
        BY <2>2, <3>1
    <2> HIDE DEF Solves, g
    <2> QED
      BY <2>3
  <1>4. m \in S
    <2> HIDE DEF S, m
    <2> QED
      BY <1>1, <1>2, <1>3, SetInduction
  <1>5. \E h : h = [i \in 0..Len(vs) |-> Step(h, i)]
    <2> HIDE DEF Step, m
    <2> QED
      BY <1>1, <1>4
  <1> DEFINE r == CHOOSE h : h = [i \in 0..Len(vs) |-> Step(h, i)]
  <1>6. Total(vs) = r[Len(vs)]
    BY DEF Total
  <1>7. r = [i \in 0..Len(vs) |-> Step(r, i)]
    <2> HIDE DEF Step
    <2> QED
      BY <1>5
  <1> HIDE DEF r
  <1>8. \A i \in 0..Len(vs) : r[i] = Step(r, i)
    <2> HIDE DEF Step
    <2> QED
      BY <1>7
  <1>9. r[0] = 0
    BY <1>1, <1>8
  <1>10. ASSUME NEW i \in 1..Len(vs)
         PROVE  r[i] = r[i - 1] + vs[i]
    <2>1. i \in 0..Len(vs) /\ i # 0
      BY <1>1
    <2> QED
      BY <1>8, <2>1
  <1> QED
    BY <1>6, <1>9, <1>10 DEF Totals

(* ConsumeRows, row by row. *)
Consumes(h, gs, f, k, from, to) ==
    /\ ConsumeRows(gs, f, k, from, to) = h[to]
    /\ h[from] = gs
    /\ \A i \in (from + 1)..to : h[i] = ConsumeRow(h[i - 1], f, k, i)

LEMMA ConsumeRowsDef ==
    ASSUME NEW gs, NEW f, NEW k, NEW from \in Nat, NEW to \in Nat, from <= to
    PROVE  \E h : Consumes(h, gs, f, k, from, to)
  <1> DEFINE Step(h, i) == IF i = from THEN gs ELSE ConsumeRow(h[i - 1], f, k, i)
             Solves(h, l) == h = [i \in from..l |-> Step(h, i)]
             S == {l \in Nat : \E h : Solves(h, from + l)}
             m == to - from
  <1>1. /\ from \in Int /\ m \in Nat /\ to = from + m
        /\ to \in from..to /\ from \in from..to /\ (from + 1) = from + 1
    OBVIOUS
  <1>2. 0 \in S
    <2> DEFINE g == [i \in from..(from + 0) |-> gs]
    <2>1. \A i \in from..(from + 0) : Step(g, i) = gs
      BY <1>1
    <2> HIDE DEF Step
    <2>2. Solves(g, from + 0)
      BY <2>1
    <2> HIDE DEF Solves, g
    <2> QED
      BY <2>2
  <1>3. ASSUME NEW l \in Nat, l \in S
        PROVE  l + 1 \in S
    <2>1. PICK h : Solves(h, from + l)
      BY <1>3
    <2> DEFINE next == from + l + 1
               g == [i \in from..(from + (l + 1)) |-> IF i = next THEN Step(h, next) ELSE h[i]]
    <2>2. ASSUME NEW i \in from..(from + (l + 1))
          PROVE  g[i] = Step(g, i)
      <3>1. i # from => i - 1 \in from..(from + (l + 1)) /\ i - 1 # next
        BY <1>1
      <3>2. i # from => g[i - 1] = h[i - 1]
        BY <3>1
      <3> HIDE DEF g
      <3>3. Step(g, i) = Step(h, i)
        BY <3>2
      <3>4. i # next => i \in from..(from + l)
        BY <1>1
      <3> HIDE DEF Step
      <3>5. i # next => h[i] = Step(h, i)
        BY <2>1, <3>4
      <3>6. g[i] = IF i = next THEN Step(h, next) ELSE h[i]
        BY DEF g
      <3> QED
        BY <3>3, <3>5, <3>6
    <2> HIDE DEF Step
    <2>3. Solves(g, from + (l + 1))
      <3>1. g = [i \in from..(from + (l + 1)) |-> g[i]]
        OBVIOUS
      <3> HIDE DEF g
      <3> QED
        BY <2>2, <3>1
    <2> HIDE DEF Solves, g
    <2> QED
      BY <2>3
  <1>4. m \in S
    <2> HIDE DEF S, m
    <2> QED
      BY <1>1, <1>2, <1>3, SetInduction
  <1>5. \E h : h = [i \in from..to |-> Step(h, i)]
    <2> HIDE DEF Step, m
    <2> QED
      BY <1>1, <1>4
  <1> DEFINE r == CHOOSE h : h = [i \in from..to |-> Step(h, i)]
  <1>6. ConsumeRows(gs, f, k, from, to) = r[to]
    BY DEF ConsumeRows
  <1>7. r = [i \in from..to |-> Step(r, i)]
    <2> HIDE DEF Step
    <2> QED
      BY <1>5
  <1> HIDE DEF r
  <1>8. \A i \in from..to : r[i] = Step(r, i)
    <2> HIDE DEF Step
    <2> QED
      BY <1>7
  <1>9. r[from] = gs
    BY <1>1, <1>8
  <1>10. ASSUME NEW i \in (from + 1)..to
         PROVE  r[i] = ConsumeRow(r[i - 1], f, k, i)
    <2>1. i \in from..to /\ i # from
      BY <1>1
    <2> QED
      BY <1>8, <2>1
  <1> QED
    BY <1>6, <1>9, <1>10 DEF Consumes

OwnKey(keys, k, row) == CellKey(keys[k].type, keys[k].cells[row])

\* h holds the key of a row, column by column.
Unfolds(h, keys, row) ==
    /\ RowKey(keys, row) = h[Len(keys)]
    /\ h[1] = OwnKey(keys, 1, row)
    /\ \A k \in 2..Len(keys) : h[k] = h[k - 1] \o <<Separator>> \o OwnKey(keys, k, row)

(* RowKey, column by column. *)
LEMMA RowKeyDef ==
    ASSUME NEW keys, Len(keys) \in Nat \ {0}, NEW row
    PROVE  \E h : Unfolds(h, keys, row)
  <1> DEFINE Step(h, i) == IF i = 1 THEN CellKey(keys[1].type, keys[1].cells[row]) ELSE h[i - 1] \o <<Separator>> \o CellKey(keys[i].type, keys[i].cells[row])
             Solves(h, l) == h = [i \in 1..l |-> Step(h, i)]
             S == {l \in Nat : \E h : Solves(h, 1 + l)}
             m == Len(keys) - 1
  <1>1. /\ 1 \in Int /\ m \in Nat /\ Len(keys) = 1 + m
        /\ Len(keys) \in 1..Len(keys) /\ 1 \in 1..Len(keys) /\ 2 = 1 + 1
    OBVIOUS
  <1>2. 0 \in S
    <2> DEFINE g == [i \in 1..(1 + 0) |-> CellKey(keys[1].type, keys[1].cells[row])]
    <2>1. \A i \in 1..(1 + 0) : Step(g, i) = CellKey(keys[1].type, keys[1].cells[row])
      BY <1>1
    <2> HIDE DEF Step
    <2>2. Solves(g, 1 + 0)
      BY <2>1
    <2> HIDE DEF Solves, g
    <2> QED
      BY <2>2
  <1>3. ASSUME NEW l \in Nat, l \in S
        PROVE  l + 1 \in S
    <2>1. PICK h : Solves(h, 1 + l)
      BY <1>3
    <2> DEFINE next == 1 + l + 1
               g == [i \in 1..(1 + (l + 1)) |-> IF i = next THEN Step(h, next) ELSE h[i]]
    <2>2. ASSUME NEW i \in 1..(1 + (l + 1))
          PROVE  g[i] = Step(g, i)
      <3>1. i # 1 => i - 1 \in 1..(1 + (l + 1)) /\ i - 1 # next
        BY <1>1
      <3>2. i # 1 => g[i - 1] = h[i - 1]
        BY <3>1
      <3> HIDE DEF g
      <3>3. Step(g, i) = Step(h, i)
        BY <3>2
      <3>4. i # next => i \in 1..(1 + l)
        BY <1>1
      <3> HIDE DEF Step
      <3>5. i # next => h[i] = Step(h, i)
        BY <2>1, <3>4
      <3>6. g[i] = IF i = next THEN Step(h, next) ELSE h[i]
        BY DEF g
      <3> QED
        BY <3>3, <3>5, <3>6
    <2> HIDE DEF Step
    <2>3. Solves(g, 1 + (l + 1))
      <3>1. g = [i \in 1..(1 + (l + 1)) |-> g[i]]
        OBVIOUS
      <3> HIDE DEF g
      <3> QED
        BY <2>2, <3>1
    <2> HIDE DEF Solves, g
    <2> QED
      BY <2>3
  <1>4. m \in S
    <2> HIDE DEF S, m
    <2> QED
      BY <1>1, <1>2, <1>3, SetInduction
  <1>5. \E h : h = [i \in 1..Len(keys) |-> Step(h, i)]
    <2> HIDE DEF Step, m
    <2> QED
      BY <1>1, <1>4
  <1> DEFINE r == CHOOSE h : h = [i \in 1..Len(keys) |-> Step(h, i)]
  <1>6. RowKey(keys, row) = r[Len(keys)]
    BY DEF RowKey
  <1>7. r = [i \in 1..Len(keys) |-> Step(r, i)]
    <2> HIDE DEF Step
    <2> QED
      BY <1>5
  <1> HIDE DEF r
  <1>8. \A i \in 1..Len(keys) : r[i] = Step(r, i)
    <2> HIDE DEF Step
    <2> QED
      BY <1>7
  <1>9. r[1] = CellKey(keys[1].type, keys[1].cells[row])
    BY <1>1, <1>8
  <1>10. ASSUME NEW i \in 2..Len(keys)
         PROVE  r[i] = r[i - 1] \o <<Separator>> \o CellKey(keys[i].type, keys[i].cells[row])
    <2>1. i \in 1..Len(keys) /\ i # 1
      BY <1>1
    <2> QED
      BY <1>8, <2>1
  <1> QED
    BY <1>6, <1>9, <1>10 DEF Unfolds, OwnKey

LEMMA OnePassAppend ==
    ASSUME NEW V, NEW vs \in Seq(V), NEW v \in V
    PROVE  /\ OnePass(<<>>) = NothingPassed
           /\ OnePass(Append(vs, v)) = PassOver(OnePass(vs), v)
  <1> DEFINE more == Append(vs, v)
             n == Len(vs)
  <1>1. n \in Nat /\ more \in Seq(V) /\ Len(more) = n + 1 /\ more[n + 1] = v
        /\ \A i \in 1..n : more[i] = vs[i]
    OBVIOUS
  <1>2. OnePass(<<>>) = NothingPassed
    <2>1. <<>> \in Seq(V) /\ Len(<<>>) = 0
      OBVIOUS
    <2> QED
      BY <2>1, OnePassDef
  <1>3. PICK h : /\ OnePass(vs) = h[n] /\ h[0] = NothingPassed
                 /\ \A i \in 1..n : h[i] = PassOver(h[i - 1], vs[i])
    BY OnePassDef
  <1>4. PICK g : /\ OnePass(more) = g[Len(more)] /\ g[0] = NothingPassed
                 /\ \A i \in 1..Len(more) : g[i] = PassOver(g[i - 1], more[i])
    <2> HIDE DEF more
    <2> QED
      BY <1>1, OnePassDef
  <1> DEFINE S == {i \in Nat : i <= n => g[i] = h[i]}
  <1>5. 0 \in S
    BY <1>3, <1>4
  <1>6. ASSUME NEW i \in Nat, i \in S
        PROVE  i + 1 \in S
    <2> SUFFICES ASSUME i + 1 <= n
                 PROVE  g[i + 1] = h[i + 1]
      OBVIOUS
    <2> HIDE DEF more, n
    <2>1. i + 1 \in 1..n /\ i + 1 \in 1..Len(more) /\ (i + 1) - 1 = i /\ g[i] = h[i]
      BY <1>1, <1>6
    <2> QED
      BY <1>1, <1>3, <1>4, <2>1
  <1>7. n \in S
    <2> HIDE DEF S, n
    <2> QED
      BY <1>1, <1>5, <1>6, SetInduction
  <1>8. OnePass(more) = PassOver(g[n], v)
    <2> HIDE DEF more, n
    <2>1. n + 1 \in 1..Len(more) /\ (n + 1) - 1 = n
      BY <1>1
    <2> QED
      BY <1>1, <1>4, <2>1
  <1> QED
    BY <1>1, <1>2, <1>3, <1>7, <1>8

LEMMA TotalAppend ==
    ASSUME NEW V, NEW vs \in Seq(V), NEW v \in V
    PROVE  /\ Total(<<>>) = 0
           /\ Total(Append(vs, v)) = Total(vs) + v
  <1> DEFINE more == Append(vs, v)
             n == Len(vs)
  <1>1. n \in Nat /\ more \in Seq(V) /\ Len(more) = n + 1 /\ more[n + 1] = v
        /\ \A i \in 1..n : more[i] = vs[i]
    OBVIOUS
  <1>2. Total(<<>>) = 0
    <2>1. <<>> \in Seq(V) /\ Len(<<>>) = 0
      OBVIOUS
    <2> QED
      BY <2>1, TotalDef DEF Totals
  <1>3. PICK h : /\ Total(vs) = h[n] /\ h[0] = 0
                 /\ \A i \in 1..n : h[i] = h[i - 1] + vs[i]
    BY TotalDef DEF Totals
  <1>4. PICK g : /\ Total(more) = g[Len(more)] /\ g[0] = 0
                 /\ \A i \in 1..Len(more) : g[i] = g[i - 1] + more[i]
    <2> HIDE DEF more
    <2>1. \E g : Totals(g, more)
      BY <1>1, TotalDef
    <2> QED
      BY <2>1 DEF Totals
  <1> DEFINE S == {i \in Nat : i <= n => g[i] = h[i]}
  <1>5. 0 \in S
    BY <1>3, <1>4
  <1>6. ASSUME NEW i \in Nat, i \in S
        PROVE  i + 1 \in S
    <2> SUFFICES ASSUME i + 1 <= n
                 PROVE  g[i + 1] = h[i + 1]
      OBVIOUS
    <2> HIDE DEF more, n
    <2>1. i + 1 \in 1..n /\ i + 1 \in 1..Len(more) /\ (i + 1) - 1 = i /\ g[i] = h[i]
      BY <1>1, <1>6
    <2>2. g[i + 1] = g[i] + more[i + 1]
      BY <1>4, <2>1
    <2>3. h[i + 1] = h[i] + vs[i + 1]
      BY <1>3, <2>1
    <2> QED
      BY <1>1, <2>1, <2>2, <2>3
  <1>7. n \in S
    <2> HIDE DEF S, n
    <2> QED
      BY <1>1, <1>5, <1>6, SetInduction
  <1>8. Total(more) = g[n] + v
    <2> HIDE DEF more, n
    <2>1. n + 1 \in 1..Len(more) /\ (n + 1) - 1 = n
      BY <1>1
    <2> QED
      BY <1>1, <1>4, <2>1
  <1> QED
    BY <1>1, <1>2, <1>3, <1>7, <1>8

\* The row next is the last one consumed.
Steps(gs, f, k, from, to, next) ==
    ConsumeRows(gs, f, k, from, next) = ConsumeRow(ConsumeRows(gs, f, k, from, to), f, k, next)

LEMMA ConsumeRowsNext ==
    ASSUME NEW gs, NEW f, NEW k, NEW from \in Nat, NEW to \in Nat, from <= to,
           NEW next, next = to + 1
    PROVE  /\ ConsumeRows(gs, f, k, from, from) = gs
           /\ Steps(gs, f, k, from, to, next)
  <1>1. ConsumeRows(gs, f, k, from, from) = gs
    <2>1. \E h : Consumes(h, gs, f, k, from, from)
      <3>1. from <= from
        OBVIOUS
      <3> QED
        BY <3>1, ConsumeRowsDef
    <2> QED
      BY <2>1 DEF Consumes
  <1>2. PICK h : /\ ConsumeRows(gs, f, k, from, to) = h[to] /\ h[from] = gs
                 /\ \A i \in (from + 1)..to : h[i] = ConsumeRow(h[i - 1], f, k, i)
    <2>1. \E h : Consumes(h, gs, f, k, from, to)
      BY ConsumeRowsDef
    <2> QED
      BY <2>1 DEF Consumes
  <1>3. PICK g : /\ ConsumeRows(gs, f, k, from, to + 1) = g[to + 1] /\ g[from] = gs
                 /\ \A i \in (from + 1)..(to + 1) : g[i] = ConsumeRow(g[i - 1], f, k, i)
    <2>1. to + 1 \in Nat /\ from <= to + 1
      OBVIOUS
    <2>2. \E g : Consumes(g, gs, f, k, from, to + 1)
      BY <2>1, ConsumeRowsDef
    <2> QED
      BY <2>2 DEF Consumes
  <1> DEFINE S == {l \in Nat : from + l <= to => g[from + l] = h[from + l]}
  <1>4. 0 \in S
    BY <1>2, <1>3
  <1>5. ASSUME NEW l \in Nat, l \in S
        PROVE  l + 1 \in S
    <2> SUFFICES ASSUME from + (l + 1) <= to
                 PROVE  g[from + (l + 1)] = h[from + (l + 1)]
      OBVIOUS
    <2>1. /\ from + (l + 1) \in (from + 1)..to /\ from + (l + 1) \in (from + 1)..(to + 1)
          /\ (from + (l + 1)) - 1 = from + l /\ g[from + l] = h[from + l]
      BY <1>5
    <2> QED
      BY <1>2, <1>3, <2>1
  <1>6. \A l \in Nat : l \in S
    <2> HIDE DEF S
    <2> QED
      BY <1>4, <1>5, SetInduction
  <1>7. to - from \in Nat /\ from + (to - from) = to
    OBVIOUS
  <1>8. g[to] = h[to]
    BY <1>6, <1>7
  <1>9. g[to + 1] = ConsumeRow(g[to], f, k, to + 1)
    <2>1. to + 1 \in (from + 1)..(to + 1) /\ (to + 1) - 1 = to
      OBVIOUS
    <2> QED
      BY <1>3, <2>1
  <1> QED
    BY <1>1, <1>2, <1>3, <1>8, <1>9 DEF Steps

(* Rows consumed in two goes are rows consumed in one. *)
LEMMA ConsumeRowsTwice ==
    ASSUME NEW gs, NEW f, NEW k, NEW from \in Nat, NEW to \in Nat, NEW last \in Nat,
           from <= to, to <= last
    PROVE  ConsumeRows(ConsumeRows(gs, f, k, from, to), f, k, to, last) =
              ConsumeRows(gs, f, k, from, last)
  <1> DEFINE half == ConsumeRows(gs, f, k, from, to)
             S == {l \in Nat : ConsumeRows(half, f, k, to, to + l) =
                                  ConsumeRows(gs, f, k, from, to + l)}
  <1>1. 0 \in S
    <2>1. to + 0 = to /\ to <= to /\ to + 1 = to + 1
      OBVIOUS
    <2> DEFINE next == to + 1
    <2>2. next = to + 1
      OBVIOUS
    <2> HIDE DEF next
    <2> QED
      BY <2>1, <2>2, ConsumeRowsNext
  <1>2. ASSUME NEW l \in Nat, l \in S
        PROVE  l + 1 \in S
    <2> DEFINE u == to + l
    <2>1. u \in Nat /\ to <= u /\ from <= u /\ to + (l + 1) = u + 1
      OBVIOUS
    <2>2. ConsumeRows(half, f, k, to, u) = ConsumeRows(gs, f, k, from, u)
      BY <1>2
    <2> HIDE DEF half, u
    <2> DEFINE next == u + 1
    <2> HIDE DEF next
    <2>7. next = u + 1
      BY DEF next
    <2>3. Steps(half, f, k, to, u, next)
      BY <2>1, <2>7, ConsumeRowsNext
    <2>4. Steps(gs, f, k, from, u, next)
      BY <2>1, <2>7, ConsumeRowsNext
    <2> QED
      BY <2>1, <2>2, <2>3, <2>4, <2>7 DEF Steps
  <1>3. \A l \in Nat : l \in S
    <2> HIDE DEF S
    <2> QED
      BY <1>1, <1>2, SetInduction
  <1>4. last - to \in Nat /\ to + (last - to) = last
    OBVIOUS
  <1>5. last - to \in S
    <2> HIDE DEF S
    <2> QED
      BY <1>3, <1>4
  <1> QED
    BY <1>4, <1>5

-----------------------------------------------------------------------------
(* Keys tell cells apart. *)

\* What Plain asks of a cell of a column.
PlainCell(type, cell) ==
    cell # Null => CASE type = "text" ->
                           cell[1] # NullKey /\ Separator \notin Range(cell[1])
                     [] type = "float" -> cell[1] % 2 = 0 /\ Units(cell[1]) \in Shorts
                     [] OTHER -> TRUE

\* A cell of a key column.
KeyCell(type, cell) == /\ type \in KeyTypes
                       /\ cell \in CellsOf(Values(type))
                       /\ PlainCell(type, cell)

(* The eight bytes of a number, two of them here, give it back. *)
LEMMA BigEndianBytes ==
    ASSUME NEW v \in Shorts, NEW w \in Shorts
    PROVE  /\ BigEndian(v) \in Seq(Int) /\ Len(BigEndian(v)) = 2
           /\ BigEndian(v)[1] = (v \div 256) % 256 /\ BigEndian(v)[2] = v % 256
           /\ BigEndian(v) = BigEndian(w) => v = w
  <1>0. /\ v \in Int /\ -(128 * 256) <= v /\ v < 128 * 256
        /\ w \in Int /\ -(128 * 256) <= w /\ w < 128 * 256
    BY DEF Shorts
  <1>1. (v \div 256) % 256 \in Int /\ v % 256 \in Int /\ (w \div 256) % 256 \in Int /\ w % 256 \in Int
    BY <1>0
  <1>2. /\ BigEndian(v) \in Seq(Int) /\ Len(BigEndian(v)) = 2
        /\ BigEndian(v)[1] = (v \div 256) % 256 /\ BigEndian(v)[2] = v % 256
        /\ BigEndian(w)[1] = (w \div 256) % 256 /\ BigEndian(w)[2] = w % 256
    BY <1>1 DEF BigEndian
  <1>3. ASSUME (v \div 256) % 256 = (w \div 256) % 256, v % 256 = w % 256
        PROVE  v = w
    <2> DEFINE x == v \div 256
               y == w \div 256
    <2>1. x \in Int /\ -128 <= x /\ x < 128 /\ y \in Int /\ -128 <= y /\ y < 128
      BY <1>0
    <2>2. x % 256 = y % 256
      BY <1>3
    <2>3. v % 256 = w % 256
      BY <1>3
    <2> HIDE DEF x, y
    <2>4. /\ x % 256 = IF x >= 0 THEN x ELSE x + 256
          /\ y % 256 = IF y >= 0 THEN y ELSE y + 256
      BY <2>1
    <2>5. x = y
      BY <2>1, <2>2, <2>4
    <2>6. v \in Int /\ w \in Int
      BY <1>0
    <2> QED
      BY <2>3, <2>5, <2>6 DEF x, y
  <1> QED
    BY <1>2, <1>3

LEMMA TruncatedHalf ==
    ASSUME NEW v \in Int, v % 2 = 0, Units(v) \in Shorts
    PROVE  Truncated(v) \in Shorts /\ v = 2 * Truncated(v)
  <1>1. Truncated(v) = Units(v)
    BY DEF Truncated
  <1>2. CASE v >= 0
    BY <1>1, <1>2 DEF Units
  <1>3. CASE v < 0
    <2>1. (-v) % 2 = 0
      BY <1>3
    <2>2. Truncated(v) = -((-v) \div 2)
      BY <1>1, <1>3 DEF Units
    <2> QED
      BY <1>1, <1>3, <2>1, <2>2
  <1> QED
    BY <1>2, <1>3

\* The number whose bytes a key holds.
Coded(type, v) == IF type = "float" THEN Truncated(v) ELSE v

\* key is t behind c.
IsCons(key, c, t) == /\ key \in Seq(Int) /\ Len(key) = Len(t) + 1 /\ key[1] = c
                     /\ \A i \in 1..Len(t) : key[i + 1] = t[i]

LEMMA Cons ==
    ASSUME NEW t \in Seq(Int), NEW c \in Int
    PROVE  IsCons(<<c>> \o t, c, t)
  <1> DEFINE one == <<c>>
             key == one \o t
  <1>1. one \in Seq(Int) /\ Len(one) = 1 /\ one[1] = c /\ Len(t) \in Nat
    OBVIOUS
  <1> HIDE DEF one
  <1>2. /\ key \in Seq(Int)
        /\ Len(key) = Len(one) + Len(t)
        /\ \A i \in 1..(Len(one) + Len(t)) : key[i] =
              IF i <= Len(one) THEN one[i] ELSE t[i - Len(one)]
    BY <1>1, ConcatProperties
  <1> HIDE DEF key
  <1>3. Len(key) = Len(t) + 1 /\ key[1] = c
    BY <1>1, <1>2
  <1>4. ASSUME NEW i \in 1..Len(t)
        PROVE  key[i + 1] = t[i]
    <2>1. i + 1 \in 1..(Len(one) + Len(t)) /\ ~ (i + 1 <= Len(one)) /\ (i + 1) - Len(one) = i
      BY <1>1
    <2> QED
      BY <1>2, <2>1
  <1>5. IsCons(key, c, t)
    BY <1>2, <1>3, <1>4 DEF IsCons
  <1> QED
    BY <1>5 DEF key, one

(* The shapes of a cell's key. *)
LEMMA CellKeyShape ==
    ASSUME NEW type, NEW cell, KeyCell(type, cell)
    PROVE  /\ CellKey(type, cell) \in Seq(Int) /\ Len(CellKey(type, cell)) >= 1
           /\ cell = Null => Len(CellKey(type, cell)) = 1 /\ CellKey(type, cell)[1] = 0
           /\ cell # Null =>
                 /\ CellKey(type, cell)[1] = Tag[type] /\ Tag[type] \in 1..5
                 /\ type = "text" =>
                       /\ cell[1] \in Seq(0..255) /\ Separator \notin Range(cell[1])
                       /\ Len(CellKey(type, cell)) = Len(cell[1]) + 1
                       /\ \A i \in 1..Len(cell[1]) : CellKey(type, cell)[i + 1] = cell[1][i]
                 /\ type = "bool" =>
                       /\ cell[1] \in 0..1
                       /\ Len(CellKey(type, cell)) = 2 /\ CellKey(type, cell)[2] = cell[1]
                 /\ type \in {"int", "float"} =>
                       /\ Coded(type, cell[1]) \in Shorts
                       /\ type = "float" => cell[1] = 2 * Coded(type, cell[1])
                       /\ Len(CellKey(type, cell)) = 3
                       /\ CellKey(type, cell)[2] = BigEndian(Coded(type, cell[1]))[1]
                       /\ CellKey(type, cell)[3] = BigEndian(Coded(type, cell[1]))[2]
  <1> DEFINE key == CellKey(type, cell)
             v == cell[1]
  <1>1. CASE cell = Null
    BY <1>1 DEF CellKey
  <1>2. ASSUME cell # Null, type = "text"
        PROVE  /\ v \in Seq(0..255) /\ Separator \notin Range(v) /\ v \in Seq(Int)
               /\ key = <<Tag[type]>> \o v /\ Tag[type] = 1
    <2>1. v \in Seq(0..255) /\ Separator \notin Range(v)
      BY <1>2 DEF KeyCell, PlainCell, CellsOf, Values
    <2>2. v \in Seq(Int)
      <3>1. 0..255 \subseteq Int
        OBVIOUS
      <3> HIDE DEF v
      <3> QED
        BY <2>1, <3>1, SeqMonotonic
    <2> QED
      BY <1>2, <2>1, <2>2 DEF CellKey, Tag
  <1>3. ASSUME cell # Null, type = "bool"
        PROVE  v \in 0..1 /\ key = <<Tag[type]>> \o <<v>> /\ Tag[type] = 4
    BY <1>3 DEF KeyCell, CellsOf, Values, CellKey, Tag
  <1>4. ASSUME cell # Null, type \in {"int", "float"}
        PROVE  /\ Coded(type, v) \in Shorts
               /\ type = "float" => v = 2 * Coded(type, v)
               /\ key = <<Tag[type]>> \o BigEndian(Coded(type, v)) /\ Tag[type] \in {2, 5}
    <2>1. CASE type = "int"
      BY <1>4, <2>1 DEF KeyCell, CellsOf, Values, CellKey, Tag, Coded, Shorts
    <2>2. CASE type = "float"
      <3>1. v \in Int /\ v % 2 = 0 /\ Units(v) \in Shorts
        BY <1>4, <2>2 DEF KeyCell, CellsOf, Values, PlainCell
      <3>2. key = <<5>> \o BigEndian(Truncated(v))
        BY <1>4, <2>2 DEF CellKey, Tag
      <3> QED
        BY <2>2, <3>1, <3>2, TruncatedHalf DEF Coded, Tag
    <2> QED
      BY <1>4, <2>1, <2>2
  <1>5. type \in {"text", "bool", "int", "float"}
    BY DEF KeyCell, KeyTypes
  <1> HIDE DEF key, v
  <1>6. ASSUME cell # Null, type = "text"
        PROVE  /\ key \in Seq(Int) /\ Len(key) = Len(v) + 1 /\ key[1] = Tag[type]
               /\ \A i \in 1..Len(v) : key[i + 1] = v[i]
    <2>2. key = <<Tag[type]>> \o v /\ Tag[type] \in Int /\ v \in Seq(Int)
      BY <1>2, <1>6
    <2>1. IsCons(key, Tag[type], v)
      BY <2>2, Cons
    <2> QED
      BY <2>1 DEF IsCons
  <1>7. ASSUME cell # Null, type = "bool"
        PROVE  /\ key \in Seq(Int) /\ Len(key) = 2 /\ key[1] = Tag[type] /\ key[2] = v
    <2>1. <<v>> \in Seq(Int) /\ Len(<<v>>) = 1 /\ <<v>>[1] = v
      BY <1>3, <1>7
    <2> DEFINE t == <<v>>
    <2>5. key = <<Tag[type]>> \o t /\ Tag[type] \in Int /\ t \in Seq(Int)
      BY <1>3, <1>7, <2>1
    <2> HIDE DEF t
    <2>2. IsCons(key, Tag[type], t)
      BY <2>5, Cons
    <2>3. 1 \in 1..Len(t) /\ Len(t) = 1 /\ t[1] = v
      BY <2>1 DEF t
    <2>4. key[1 + 1] = t[1]
      BY <2>2, <2>3 DEF IsCons
    <2> QED
      BY <2>2, <2>3, <2>4 DEF IsCons
  <1>8. ASSUME cell # Null, type \in {"int", "float"}
        PROVE  /\ key \in Seq(Int) /\ Len(key) = 3 /\ key[1] = Tag[type]
               /\ key[2] = BigEndian(Coded(type, v))[1]
               /\ key[3] = BigEndian(Coded(type, v))[2]
    <2> DEFINE t == BigEndian(Coded(type, v))
    <2>1. t \in Seq(Int) /\ Len(t) = 2
      BY <1>4, <1>8, BigEndianBytes
    <2>2. key = <<Tag[type]>> \o t /\ Tag[type] \in Int
      BY <1>4, <1>8
    <2> HIDE DEF t
    <2>3. key \in Seq(Int) /\ Len(key) = 3 /\ key[1] = Tag[type]
          /\ key[1 + 1] = t[1] /\ key[2 + 1] = t[2]
      <3>1. IsCons(key, Tag[type], t)
        BY <2>1, <2>2, Cons
      <3>2. 1 \in 1..Len(t) /\ 2 \in 1..Len(t)
        BY <2>1
      <3> QED
        BY <2>1, <3>1, <3>2 DEF IsCons
    <2> QED
      BY <2>3 DEF t
  <1>9. CASE cell # Null /\ type = "text"
    <2>1. Len(v) \in Nat
      BY <1>2, <1>9
    <2> QED
      BY <1>2, <1>6, <1>9, <2>1 DEF key, v
  <1>10. CASE cell # Null /\ type = "bool"
    BY <1>3, <1>7, <1>10 DEF key, v
  <1>11. CASE cell # Null /\ type \in {"int", "float"}
    BY <1>4, <1>8, <1>11 DEF key, v
  <1> QED
    BY <1>1, <1>5, <1>9, <1>10, <1>11

\* What may follow the key of a cell: nothing, or a separator.
Rest(u) == u \in Seq(Int) /\ (Len(u) = 0 \/ u[1] = Separator)

(* Behind a key without separators, the other key is as long. *)
LEMMA KeyNotShorter ==
    ASSUME NEW a \in Seq(Int), NEW b \in Seq(Int), NEW u, NEW v, Rest(u), Rest(v),
           Len(a) >= 1, \A i \in 2..Len(b) : b[i] # Separator, a \o u = b \o v
    PROVE  Len(a) >= Len(b)
  <1>1. u \in Seq(Int) /\ v \in Seq(Int)
    BY DEF Rest
  <1> DEFINE w == a \o u
  <1>2. /\ Len(w) = Len(a) + Len(u)
        /\ \A i \in 1..(Len(a) + Len(u)) : w[i] = IF i <= Len(a) THEN a[i] ELSE u[i - Len(a)]
    BY <1>1, ConcatProperties
  <1>3. /\ Len(w) = Len(b) + Len(v)
        /\ \A i \in 1..(Len(b) + Len(v)) : w[i] = IF i <= Len(b) THEN b[i] ELSE v[i - Len(b)]
    <2> DEFINE x == b \o v
    <2>1. /\ Len(x) = Len(b) + Len(v)
          /\ \A i \in 1..(Len(b) + Len(v)) : x[i] = IF i <= Len(b) THEN b[i] ELSE v[i - Len(b)]
      BY <1>1, ConcatProperties
    <2>2. w = x
      OBVIOUS
    <2> HIDE DEF w, x
    <2> QED
      BY <2>1, <2>2
  <1> HIDE DEF w
  <1>4. Len(a) \in Nat /\ Len(b) \in Nat /\ Len(u) \in Nat /\ Len(v) \in Nat
    BY <1>1
  <1> SUFFICES ASSUME Len(a) < Len(b)
               PROVE  FALSE
    BY <1>4
  <1>5. Len(u) > 0
    BY <1>2, <1>3, <1>4
  <1> DEFINE n == Len(a) + 1
  <1>6. n \in 1..(Len(a) + Len(u)) /\ n \in 1..(Len(b) + Len(v)) /\ ~ (n <= Len(a))
        /\ n <= Len(b) /\ n - Len(a) = 1 /\ n \in 2..Len(b)
    BY <1>4, <1>5
  <1> HIDE DEF n
  <1>7. w[n] = u[1]
    BY <1>2, <1>6
  <1>8. w[n] = b[n]
    BY <1>3, <1>6
  <1> QED
    BY <1>5, <1>6, <1>7, <1>8 DEF Rest

(* Equal strings whose first parts are as long have equal parts. *)
LEMMA ConcatSplit ==
    ASSUME NEW a \in Seq(Int), NEW b \in Seq(Int), NEW u \in Seq(Int), NEW v \in Seq(Int),
           Len(a) = Len(b), a \o u = b \o v
    PROVE  a = b /\ u = v
  <1> DEFINE w == a \o u
             x == b \o v
  <1>1. /\ Len(w) = Len(a) + Len(u)
        /\ \A i \in 1..(Len(a) + Len(u)) : w[i] = IF i <= Len(a) THEN a[i] ELSE u[i - Len(a)]
    BY ConcatProperties
  <1>2. /\ Len(x) = Len(b) + Len(v)
        /\ \A i \in 1..(Len(b) + Len(v)) : x[i] = IF i <= Len(b) THEN b[i] ELSE v[i - Len(b)]
    BY ConcatProperties
  <1>3. w = x
    OBVIOUS
  <1>4. Len(a) \in Nat /\ Len(b) \in Nat /\ Len(u) \in Nat /\ Len(v) \in Nat
    OBVIOUS
  <1> HIDE DEF w, x
  <1>5. Len(u) = Len(v)
    BY <1>1, <1>2, <1>3, <1>4
  <1>6. ASSUME NEW i \in 1..Len(a)
        PROVE  a[i] = b[i]
    <2>1. i \in 1..(Len(a) + Len(u)) /\ i \in 1..(Len(b) + Len(v)) /\ i <= Len(a) /\ i <= Len(b)
      BY <1>4
    <2> QED
      BY <1>1, <1>2, <1>3, <2>1
  <1>7. ASSUME NEW i \in 1..Len(u)
        PROVE  u[i] = v[i]
    <2> DEFINE n == Len(a) + i
    <2>1. n \in 1..(Len(a) + Len(u)) /\ n \in 1..(Len(b) + Len(v)) /\ ~ (n <= Len(a))
          /\ ~ (n <= Len(b)) /\ n - Len(a) = i /\ n - Len(b) = i
      BY <1>4, <1>5
    <2> HIDE DEF n
    <2> QED
      BY <1>1, <1>2, <1>3, <2>1
  <1> QED
    BY <1>5, <1>6, <1>7, SeqEqual

\* Two pairs of strings joined give one.
Joined(a, u, b, v) == a \o u = b \o v

(* A cell is read back from the front of a key. *)
LEMMA CellKeyTails ==
    ASSUME NEW type, NEW a, NEW b, KeyCell(type, a), KeyCell(type, b),
           NEW u, NEW v, Rest(u), Rest(v), Joined(CellKey(type, a), u, CellKey(type, b), v)
    PROVE  a = b /\ u = v
  <1> DEFINE k == CellKey(type, a)
             l == CellKey(type, b)
  <1>1. u \in Seq(Int) /\ v \in Seq(Int)
    BY DEF Rest
  <1>0. k \o u = l \o v
    BY DEF Joined
  <1>2. k \in Seq(Int) /\ l \in Seq(Int) /\ Len(k) >= 1 /\ Len(l) >= 1
    BY CellKeyShape
  <1>3. k[1] = l[1]
    <2> DEFINE x == k \o u
               y == l \o v
    <2>1. \A i \in 1..(Len(k) + Len(u)) : x[i] = IF i <= Len(k) THEN k[i] ELSE u[i - Len(k)]
      BY <1>1, <1>2, ConcatProperties
    <2>2. \A i \in 1..(Len(l) + Len(v)) : y[i] = IF i <= Len(l) THEN l[i] ELSE v[i - Len(l)]
      BY <1>1, <1>2, ConcatProperties
    <2>3. x = y
      BY <1>0
    <2>4. Len(u) \in Nat /\ Len(v) \in Nat /\ Len(k) \in Nat /\ Len(l) \in Nat
      BY <1>1, <1>2
    <2> HIDE DEF k, l, x, y
    <2>5. 1 \in 1..(Len(k) + Len(u)) /\ 1 \in 1..(Len(l) + Len(v))
      BY <1>2, <2>4
    <2> QED
      BY <1>2, <2>1, <2>2, <2>3, <2>5
  <1>4. a = Null <=> b = Null
    <2>1. a = Null => k[1] = 0
      BY CellKeyShape
    <2>2. b = Null => l[1] = 0
      BY CellKeyShape
    <2>3. a # Null => k[1] = Tag[type] /\ Tag[type] \in 1..5
      BY CellKeyShape
    <2>4. b # Null => l[1] = Tag[type] /\ Tag[type] \in 1..5
      BY CellKeyShape
    <2> HIDE DEF k, l
    <2> QED
      BY <1>3, <2>1, <2>2, <2>3, <2>4
  <1>5. CASE a = Null
    <2>1. Len(k) = 1 /\ Len(l) = 1
      BY <1>4, <1>5, CellKeyShape
    <2>2. k \o u = l \o v
      BY <1>0
    <2> HIDE DEF k, l
    <2> QED
      BY <1>1, <1>2, <1>4, <1>5, <2>1, <2>2, ConcatSplit
  <1>6. type \in {"text", "bool", "int", "float"}
    BY DEF KeyCell, KeyTypes
  <1>7. ASSUME a # Null
        PROVE  \E c, d : a = <<c>> /\ b = <<d>>
    BY <1>4, <1>7 DEF KeyCell, CellsOf
  <1>8. CASE a # Null /\ type = "text"
    <2> DEFINE p == a[1]
               q == b[1]
    <2>1. /\ p \in Seq(0..255) /\ Separator \notin Range(p) /\ Len(k) = Len(p) + 1
          /\ \A i \in 1..Len(p) : k[i + 1] = p[i]
      BY <1>8, CellKeyShape
    <2>2. /\ q \in Seq(0..255) /\ Separator \notin Range(q) /\ Len(l) = Len(q) + 1
          /\ \A i \in 1..Len(q) : l[i + 1] = q[i]
      BY <1>4, <1>8, CellKeyShape
    <2>3. k \o u = l \o v
      BY <1>0
    <2> HIDE DEF k, l, p, q
    <2>4. \A i \in 2..Len(k) : k[i] # Separator
      <3> TAKE i \in 2..Len(k)
      <3>1. i - 1 \in 1..Len(p) /\ (i - 1) + 1 = i
        BY <2>1
      <3>2. k[i] = p[i - 1]
        BY <2>1, <3>1
      <3> QED
        BY <2>1, <3>1, <3>2 DEF Range
    <2>5. \A i \in 2..Len(l) : l[i] # Separator
      <3> TAKE i \in 2..Len(l)
      <3>1. i - 1 \in 1..Len(q) /\ (i - 1) + 1 = i
        BY <2>2
      <3>2. l[i] = q[i - 1]
        BY <2>2, <3>1
      <3> QED
        BY <2>2, <3>1, <3>2 DEF Range
    <2>6. Len(k) >= Len(l)
      BY <1>2, <2>3, <2>5, KeyNotShorter
    <2>7. Len(l) >= Len(k)
      BY <1>2, <2>3, <2>4, KeyNotShorter
    <2>8. Len(k) = Len(l)
      BY <1>2, <2>6, <2>7
    <2>9. k = l /\ u = v
      BY <1>1, <1>2, <2>3, <2>8, ConcatSplit
    <2>10. p = q
      BY <2>1, <2>2, <2>9, SeqEqual
    <2> QED
      BY <1>7, <1>8, <2>9, <2>10 DEF p, q
  <1>9. CASE a # Null /\ type = "bool"
    <2>1. Len(k) = 2 /\ Len(l) = 2 /\ k[2] = a[1] /\ l[2] = b[1]
      BY <1>4, <1>9, CellKeyShape
    <2>2. k \o u = l \o v
      BY <1>0
    <2> HIDE DEF k, l
    <2>3. k = l /\ u = v
      BY <1>1, <1>2, <2>1, <2>2, ConcatSplit
    <2> QED
      BY <1>7, <1>9, <2>1, <2>3
  <1>10. CASE a # Null /\ type \in {"int", "float"}
    <2> DEFINE c == Coded(type, a[1])
               d == Coded(type, b[1])
    <2>1. /\ Len(k) = 3 /\ k[2] = BigEndian(c)[1] /\ k[3] = BigEndian(c)[2]
          /\ c \in Shorts /\ (type = "float" => a[1] = 2 * c)
      BY <1>10, CellKeyShape
    <2>2. /\ Len(l) = 3 /\ l[2] = BigEndian(d)[1] /\ l[3] = BigEndian(d)[2]
          /\ d \in Shorts /\ (type = "float" => b[1] = 2 * d)
      BY <1>4, <1>10, CellKeyShape
    <2>3. k \o u = l \o v
      BY <1>0
    <2>4. type # "float" => c = a[1] /\ d = b[1]
      BY DEF Coded
    <2> HIDE DEF k, l, c, d
    <2>5. k = l /\ u = v
      BY <1>1, <1>2, <2>1, <2>2, <2>3, ConcatSplit
    <2>6. BigEndian(c) = BigEndian(d)
      <3>1. /\ BigEndian(c) \in Seq(Int) /\ Len(BigEndian(c)) = 2
            /\ BigEndian(d) \in Seq(Int) /\ Len(BigEndian(d)) = 2
        BY <2>1, <2>2, BigEndianBytes
      <3>2. \A i \in 1..2 : BigEndian(c)[i] = BigEndian(d)[i]
        <4>1. \A i \in 1..2 : i = 1 \/ i = 2
          OBVIOUS
        <4> QED
          BY <2>1, <2>2, <2>5, <4>1
      <3> QED
        BY <3>1, <3>2, SeqEqual
    <2>7. c = d
      BY <2>1, <2>2, <2>6, BigEndianBytes
    <2> QED
      BY <1>7, <1>10, <2>1, <2>2, <2>4, <2>5, <2>7
  <1> QED
    BY <1>5, <1>6, <1>8, <1>9, <1>10

\* The cells of a row are those of key columns.
KeyRow(keys, row) ==
    \A k \in 1..Len(keys) : KeyCell(keys[k].type, keys[k].cells[row])

LEMMA RowKeyUnfolds ==
    ASSUME NEW keys, Len(keys) \in Nat \ {0}, NEW row, KeyRow(keys, row)
    PROVE  \E h : Unfolds(h, keys, row) /\ \A k \in 1..Len(keys) : h[k] \in Seq(Int)
  <1>1. PICK h : Unfolds(h, keys, row)
    BY RowKeyDef
  <1> DEFINE S == {k \in Nat : k \in 1..Len(keys) => h[k] \in Seq(Int)}
  <1>2. \A k \in 1..Len(keys) : OwnKey(keys, k, row) \in Seq(Int)
    BY CellKeyShape DEF KeyRow, OwnKey
  <1>3. 0 \in S
    OBVIOUS
  <1>4. ASSUME NEW k \in Nat, k \in S
        PROVE  k + 1 \in S
    <2> SUFFICES ASSUME k + 1 \in 1..Len(keys)
                 PROVE  h[k + 1] \in Seq(Int)
      OBVIOUS
    <2>1. CASE k = 0
      BY <1>1, <1>2, <2>1 DEF Unfolds
    <2>2. CASE k # 0
      <3>1. k \in 1..Len(keys) /\ k + 1 \in 2..Len(keys) /\ (k + 1) - 1 = k
        BY <2>2
      <3>2. h[k] \in Seq(Int)
        BY <1>4, <3>1
      <3> DEFINE own == OwnKey(keys, k + 1, row)
      <3>3. own \in Seq(Int)
        BY <1>2
      <3>4. h[k + 1] = h[k] \o <<Separator>> \o own
        BY <1>1, <3>1 DEF Unfolds
      <3> HIDE DEF own, S
      <3>5. <<Separator>> \in Seq(Int)
        BY DEF Separator
      <3>6. h[k] \o <<Separator>> \in Seq(Int)
        BY <3>2, <3>5, ConcatProperties
      <3>7. h[k] \o <<Separator>> \o own \in Seq(Int)
        BY <3>3, <3>6, ConcatProperties
      <3> QED
        BY <3>4, <3>7
    <2> QED
      BY <2>1, <2>2
  <1>5. \A k \in Nat : k \in S
    <2> HIDE DEF S
    <2> QED
      BY <1>3, <1>4, SetInduction
  <1> QED
    BY <1>1, <1>5

(* A separator and a key, before what may follow. *)
LEMMA RestOf ==
    ASSUME NEW t \in Seq(Int)
    PROVE  Rest(<<Separator>> \o t)
  <1> DEFINE s == <<Separator>> \o t
  <1>1. Separator \in Int
    BY DEF Separator
  <1>2. IsCons(s, Separator, t)
    BY <1>1, Cons
  <1> HIDE DEF s
  <1>3. Rest(s)
    BY <1>2 DEF IsCons, Rest
  <1> QED
    BY <1>3 DEF s

LEMMA OwnKeyTails ==
    ASSUME NEW keys, NEW r, NEW s, KeyRow(keys, r), KeyRow(keys, s),
           NEW k \in 1..Len(keys), NEW u, NEW v, Rest(u), Rest(v),
           Joined(OwnKey(keys, k, r), u, OwnKey(keys, k, s), v)
    PROVE  keys[k].cells[r] = keys[k].cells[s] /\ u = v
  <1>1. KeyCell(keys[k].type, keys[k].cells[r]) /\ KeyCell(keys[k].type, keys[k].cells[s])
    BY DEF KeyRow
  <1> QED
    BY <1>1, CellKeyTails DEF OwnKey

LEMMA Associates ==
    ASSUME NEW a \in Seq(Int), NEW b \in Seq(Int), NEW c \in Seq(Int)
    PROVE  a \o b \in Seq(Int) /\ Joined(a \o b, c, a, b \o c)
  <1>1. (a \o b) \o c = a \o (b \o c)
    BY ConcatAssociative
  <1>2. a \o b \in Seq(Int)
    BY ConcatProperties
  <1> QED
    BY <1>1, <1>2 DEF Joined

LEMMA Regroup ==
    ASSUME NEW t \in Seq(Int), NEW b \in Seq(Int), NEW x \in Seq(Int), NEW y \in Seq(Int)
    PROVE  /\ Joined(t \o b \o x, y, t, b \o (x \o y))
           /\ x \o y \in Seq(Int) /\ b \o (x \o y) \in Seq(Int)
  <1> DEFINE tb == t \o b
             xy == x \o y
  <1>1. tb \in Seq(Int) /\ xy \in Seq(Int)
    BY Associates
  <1>2. b \o xy \in Seq(Int) /\ Joined(tb, xy, t, b \o xy)
    <2> HIDE DEF xy
    <2> QED
      BY <1>1, Associates DEF tb
  <1>3. Joined(tb \o x, y, tb, xy)
    <2> HIDE DEF tb
    <2> QED
      BY <1>1, Associates DEF xy
  <1>4. Joined(tb \o x, y, t, b \o xy)
    <2> HIDE DEF tb, xy
    <2> QED
      BY <1>2, <1>3 DEF Joined
  <1> QED
    BY <1>1, <1>2, <1>4

(* Rows with one key have the same cells, and the other way round. *)
LEMMA RowKeyCells ==
    ASSUME NEW keys, Len(keys) \in Nat \ {0}, NEW r, NEW s, KeyRow(keys, r), KeyRow(keys, s)
    PROVE  /\ RowKey(keys, r) \in Seq(Int)
           /\ RowKey(keys, r) = RowKey(keys, s) <=> KeyCells(keys, r) = KeyCells(keys, s)
  <1> DEFINE n == Len(keys)
  <1>1. PICK h : Unfolds(h, keys, r) /\ \A k \in 1..n : h[k] \in Seq(Int)
    BY RowKeyUnfolds
  <1>2. PICK g : Unfolds(g, keys, s) /\ \A k \in 1..n : g[k] \in Seq(Int)
    BY RowKeyUnfolds
  <1>3. n \in 1..n /\ 1 \in 1..n /\ n \in Nat
    OBVIOUS
  <1>4. \A k \in 1..n : OwnKey(keys, k, r) \in Seq(Int) /\ OwnKey(keys, k, s) \in Seq(Int)
    BY CellKeyShape DEF KeyRow, OwnKey
  <1> DEFINE Same(k) == \A i \in 1..k : keys[i].cells[r] = keys[i].cells[s]
             Told(k) == \A u, v : Rest(u) /\ Rest(v) /\ h[k] \o u = g[k] \o v => Same(k) /\ u = v
             S == {k \in Nat : k \in 1..n => Told(k)}
  <1>5. 0 \in S
    OBVIOUS
  <1>6. ASSUME NEW k \in Nat, k \in S
        PROVE  k + 1 \in S
    <2> SUFFICES ASSUME k + 1 \in 1..n
                 PROVE  Told(k + 1)
      <3> HIDE DEF Told
      <3> QED
        OBVIOUS
    <2> SUFFICES ASSUME NEW u, NEW v, Rest(u), Rest(v), h[k + 1] \o u = g[k + 1] \o v
                 PROVE  Same(k + 1) /\ u = v
      OBVIOUS
    <2> DEFINE a == OwnKey(keys, k + 1, r)
               b == OwnKey(keys, k + 1, s)
    <2>1. a \in Seq(Int) /\ b \in Seq(Int) /\ u \in Seq(Int) /\ v \in Seq(Int)
      BY <1>4 DEF Rest
    <2>2. ASSUME a \o u = b \o v
          PROVE  keys[k + 1].cells[r] = keys[k + 1].cells[s] /\ u = v
      <3> DEFINE l == k + 1
      <3>1. l \in 1..Len(keys) /\ Joined(OwnKey(keys, l, r), u, OwnKey(keys, l, s), v)
        BY <2>2 DEF Joined
      <3> HIDE DEF l
      <3>2. keys[l].cells[r] = keys[l].cells[s] /\ u = v
        BY <3>1, OwnKeyTails
      <3> QED
        BY <3>2 DEF l
    <2>3. CASE k = 0
      <3>1. h[k + 1] = a /\ g[k + 1] = b
        BY <1>1, <1>2, <2>3 DEF Unfolds
      <3>2. \A i \in 1..(k + 1) : i = k + 1
        BY <2>3
      <3> HIDE DEF a, b
      <3>3. keys[k + 1].cells[r] = keys[k + 1].cells[s] /\ u = v
        BY <2>2, <3>1
      <3> QED
        BY <3>2, <3>3
    <2>4. CASE k # 0
      <3>1. k \in 1..n /\ k + 1 \in 2..n /\ (k + 1) - 1 = k
        BY <2>4
      <3>2. h[k] \in Seq(Int) /\ g[k] \in Seq(Int)
        BY <1>1, <1>2, <3>1
      <3>3. h[k + 1] = h[k] \o <<Separator>> \o a /\ g[k + 1] = g[k] \o <<Separator>> \o b
        BY <1>1, <1>2, <3>1 DEF Unfolds
      <3> DEFINE bar == <<Separator>>
      <3>4. bar \in Seq(Int)
        BY DEF Separator
      <3> DEFINE x == a \o u
                 y == b \o v
                 barx == bar \o x
                 bary == bar \o y
      <3>6. x \in Seq(Int) /\ y \in Seq(Int) /\ barx \in Seq(Int) /\ bary \in Seq(Int)
            /\ h[k + 1] \o u = h[k] \o barx /\ g[k + 1] \o v = g[k] \o bary
        <4> HIDE DEF a, b, bar
        <4>1. h[k + 1] = h[k] \o bar \o a /\ g[k + 1] = g[k] \o bar \o b
          BY <3>3 DEF bar
        <4>2. /\ x \in Seq(Int) /\ barx \in Seq(Int)
              /\ Joined(h[k] \o bar \o a, u, h[k], barx)
          BY <2>1, <3>2, <3>4, Regroup
        <4>3. /\ y \in Seq(Int) /\ bary \in Seq(Int)
              /\ Joined(g[k] \o bar \o b, v, g[k], bary)
          BY <2>1, <3>2, <3>4, Regroup
        <4> HIDE DEF x, y, barx, bary
        <4> QED
          BY <4>1, <4>2, <4>3 DEF Joined
      <3>7. Rest(barx) /\ Rest(bary)
        BY <3>6, RestOf
      <3>8. Same(k) /\ barx = bary
        <4> HIDE DEF Same, barx, bary
        <4> QED
          BY <1>6, <3>1, <3>6, <3>7
      <3>9. x = y
        <4> HIDE DEF x, y
        <4> QED
          BY <3>4, <3>6, <3>8, ConcatSplit
      <3>10. keys[k + 1].cells[r] = keys[k + 1].cells[s] /\ u = v
        <4> HIDE DEF a, b
        <4> QED
          BY <2>2, <3>9
      <3> QED
        BY <3>8, <3>10
    <2> QED
      BY <2>3, <2>4
  <1>7. n \in S
    <2> HIDE DEF S, n
    <2> QED
      BY <1>3, <1>5, <1>6, SetInduction
  <1>8. ASSUME RowKey(keys, r) = RowKey(keys, s)
        PROVE  Same(n)
    <2>1. Rest(<<>>)
      BY DEF Rest
    <2>2. h[n] = g[n]
      BY <1>1, <1>2, <1>8 DEF Unfolds
    <2>3. h[n] \o <<>> = g[n] \o <<>>
      BY <2>2
    <2> HIDE DEF n, Same
    <2> QED
      BY <1>3, <1>7, <2>1, <2>3
  <1>9. ASSUME Same(n)
        PROVE  RowKey(keys, r) = RowKey(keys, s)
    <2>1. \A k \in 1..n : OwnKey(keys, k, r) = OwnKey(keys, k, s)
      BY <1>9 DEF OwnKey
    <2> DEFINE T == {k \in Nat : k \in 1..n => h[k] = g[k]}
    <2>2. 0 \in T
      OBVIOUS
    <2>3. ASSUME NEW k \in Nat, k \in T
          PROVE  k + 1 \in T
      <3> SUFFICES ASSUME k + 1 \in 1..n
                   PROVE  h[k + 1] = g[k + 1]
        OBVIOUS
      <3>1. CASE k = 0
        BY <1>1, <1>2, <2>1, <3>1 DEF Unfolds
      <3>2. CASE k # 0
        <4>1. k \in 1..n /\ k + 1 \in 2..n /\ (k + 1) - 1 = k
          BY <3>2
        <4>2. h[k] = g[k]
          BY <2>3, <4>1
        <4> HIDE DEF T
        <4> QED
          BY <1>1, <1>2, <2>1, <4>1, <4>2 DEF Unfolds
      <3> QED
        BY <3>1, <3>2
    <2>4. n \in T
      <3> HIDE DEF T, n
      <3> QED
        BY <1>3, <2>2, <2>3, SetInduction
    <2> HIDE DEF n
    <2> QED
      BY <1>1, <1>2, <1>3, <2>4 DEF Unfolds, n
  <1>10. Same(n) <=> KeyCells(keys, r) = KeyCells(keys, s)
    <2>1. ASSUME KeyCells(keys, r) = KeyCells(keys, s), NEW i \in 1..n
          PROVE  keys[i].cells[r] = keys[i].cells[s]
      <3>1. KeyCells(keys, r)[i] = KeyCells(keys, s)[i]
        BY <2>1
      <3> QED
        BY <3>1 DEF KeyCells
    <2> QED
      BY <2>1 DEF KeyCells
  <1>11. RowKey(keys, r) \in Seq(Int)
    BY <1>1, <1>3 DEF Unfolds
  <1> QED
    BY <1>8, <1>9, <1>10, <1>11

-----------------------------------------------------------------------------
(* Groups. *)

Rows(f) == 1..NumRows(f)

\* The rows of a key, and its group.
RowsWith(f, key) == {r \in Rows(f) : KeyCells(f.keys, r) = key}
GroupOf(f, key) == [key |-> key, rows |-> InOrder(RowsWith(f, key))]
AllGroups(f) == {GroupOf(f, key) : key \in {KeyCells(f.keys, r) : r \in Rows(f)}}

\* G holds the group of every key, once.
Faithful(f, G) ==
    /\ G \in Seq(AllGroups(f))
    /\ \A i, j \in 1..Len(G) : G[i].key = G[j].key => i = j
    /\ \A x \in AllGroups(f) : \E i \in 1..Len(G) : G[i] = x

\* Ids stand for keys.
IdsAgree(f, ids) ==
    \A r, s \in Rows(f) : ids[r] = ids[s] <=> KeyCells(f.keys, r) = KeyCells(f.keys, s)

\* order lists the ids of the rows, each once.
OrderOf(f, ids, order) ==
    /\ Len(order) \in Nat
    /\ \A i, j \in 1..Len(order) : order[i] = order[j] => i = j
    /\ \A i \in 1..Len(order) : \E r \in Rows(f) : ids[r] = order[i]
    /\ \A r \in Rows(f) : \E i \in 1..Len(order) : order[i] = ids[r]

RowsOfId(f, ids, id) == {r \in Rows(f) : ids[r] = id}

\* G holds the groups of the ids in their order, each with the key of one of
\* its rows.
GroupedBy(f, ids, order, G) ==
    /\ G = [i \in 1..Len(order) |-> G[i]]
    /\ \A i \in 1..Len(order) : \E r \in Rows(f) :
          /\ ids[r] = order[i]
          /\ G[i] = [key |-> KeyCells(f.keys, r), rows |-> InOrder(RowsOfId(f, ids, order[i]))]

(* Grouping by ids that stand for the keys is grouping by key. *)
LEMMA GroupedIsFaithful ==
    ASSUME NEW f, NEW ids, NEW order, NEW G,
           IdsAgree(f, ids), OrderOf(f, ids, order), GroupedBy(f, ids, order, G)
    PROVE  Faithful(f, G)
  <1> DEFINE n == Len(order)
  <1>1. n \in Nat /\ G = [i \in 1..n |-> G[i]]
    BY DEF OrderOf, GroupedBy
  <1>2. ASSUME NEW i \in 1..n
        PROVE  \E r \in Rows(f) : ids[r] = order[i] /\ G[i] = GroupOf(f, KeyCells(f.keys, r))
    <2>1. PICK r \in Rows(f) :
             /\ ids[r] = order[i]
             /\ G[i] = [key |-> KeyCells(f.keys, r), rows |-> InOrder(RowsOfId(f, ids, order[i]))]
      BY DEF GroupedBy
    <2>2. RowsOfId(f, ids, order[i]) = RowsWith(f, KeyCells(f.keys, r))
      BY <2>1 DEF RowsOfId, RowsWith, IdsAgree
    <2> QED
      BY <2>1, <2>2 DEF GroupOf
  <1> HIDE DEF n
  <1>3. G \in Seq(AllGroups(f)) /\ Len(G) = n
    <2>1. \A i \in 1..n : G[i] \in AllGroups(f)
      BY <1>2 DEF AllGroups
    <2> QED
      BY <1>1, <2>1
  <1>4. ASSUME NEW i \in 1..n, NEW j \in 1..n, G[i].key = G[j].key
        PROVE  i = j
    <2>1. PICK r \in Rows(f) : ids[r] = order[i] /\ G[i] = GroupOf(f, KeyCells(f.keys, r))
      BY <1>2
    <2>2. PICK s \in Rows(f) : ids[s] = order[j] /\ G[j] = GroupOf(f, KeyCells(f.keys, s))
      BY <1>2
    <2>3. KeyCells(f.keys, r) = KeyCells(f.keys, s)
      BY <1>4, <2>1, <2>2 DEF GroupOf
    <2>4. order[i] = order[j]
      BY <2>1, <2>2, <2>3 DEF IdsAgree
    <2> QED
      BY <2>4 DEF OrderOf, n
  <1>5. ASSUME NEW x \in AllGroups(f)
        PROVE  \E i \in 1..n : G[i] = x
    <2>1. PICK r \in Rows(f) : x = GroupOf(f, KeyCells(f.keys, r))
      BY DEF AllGroups
    <2>2. PICK i \in 1..n : order[i] = ids[r]
      BY DEF OrderOf, n
    <2>3. PICK s \in Rows(f) : ids[s] = order[i] /\ G[i] = GroupOf(f, KeyCells(f.keys, s))
      BY <1>2
    <2>4. KeyCells(f.keys, r) = KeyCells(f.keys, s)
      BY <2>2, <2>3 DEF IdsAgree
    <2> QED
      BY <2>1, <2>3, <2>4
  <1> QED
    BY <1>3, <1>4, <1>5 DEF Faithful

(* The first row of a group that is not empty is one of its rows. *)
LEMMA FirstOfOrder ==
    ASSUME NEW f, NumRows(f) \in Nat, NEW ids, NEW r \in Rows(f)
    PROVE  LET s == InOrder(RowsOfId(f, ids, ids[r]))[1]
           IN  s \in Rows(f) /\ ids[s] = ids[r]
  <1> DEFINE S == RowsOfId(f, ids, ids[r])
             s == InOrder(S)
  <1>1. S \subseteq Int /\ IsFiniteSet(S) /\ r \in S
    <2>1. IsFiniteSet(Rows(f)) /\ Rows(f) \subseteq Int
      BY FS_Interval DEF Rows
    <2> QED
      BY <2>1, FS_Subset DEF RowsOfId
  <1> HIDE DEF S
  <1>2. s \in Seq(S) /\ \E i \in 1..Len(s) : s[i] = r
    BY <1>1, InOrderLists
  <1> HIDE DEF s
  <1>3. s[1] \in S
    BY <1>2
  <1> QED
    BY <1>3 DEF S, s, RowsOfId

(* The groups of WithFirstKey. *)
LEMMA FirstKeyGroups ==
    ASSUME NEW f, NumRows(f) \in Nat, NEW ids, NEW order, OrderOf(f, ids, order),
           NEW gs, gs = [i \in 1..Len(order) |-> InOrder(RowsOfId(f, ids, order[i]))]
    PROVE  GroupedBy(f, ids, order, WithFirstKey(f.keys, gs))
  <1> DEFINE G == WithFirstKey(f.keys, gs)
             n == Len(order)
  <1>1. n \in Nat /\ Len(gs) = n
    BY DEF OrderOf
  <1>2. G = [i \in 1..n |-> [key |-> KeyCells(f.keys, gs[i][1]), rows |-> gs[i]]]
    BY <1>1 DEF WithFirstKey
  <1>3. ASSUME NEW i \in 1..n
        PROVE  \E r \in Rows(f) :
                 /\ ids[r] = order[i]
                 /\ G[i] = [key |-> KeyCells(f.keys, r), rows |-> InOrder(RowsOfId(f, ids, order[i]))]
    <2>1. PICK r \in Rows(f) : ids[r] = order[i]
      BY DEF OrderOf
    <2> DEFINE s == gs[i][1]
    <2>2. gs[i] = InOrder(RowsOfId(f, ids, order[i]))
      OBVIOUS
    <2>3. s \in Rows(f) /\ ids[s] = order[i]
      BY <2>1, <2>2, FirstOfOrder
    <2>4. G[i] = [key |-> KeyCells(f.keys, s), rows |-> gs[i]]
      BY <1>2
    <2> HIDE DEF G, s
    <2> QED
      BY <2>2, <2>3, <2>4
  <1>4. G = [i \in 1..n |-> G[i]]
    BY <1>2
  <1> HIDE DEF G
  <1>5. GroupedBy(f, ids, order, G)
    BY <1>3, <1>4 DEF GroupedBy
  <1> QED
    BY <1>5 DEF G

-----------------------------------------------------------------------------
(* Answers. *)

\* The row of a group in the answer.
RowOf(f, k, group) ==
    [key |-> group.key,
     agg |-> AppendAgg(k, f.value.type,
                       [i \in 1..Len(group.rows) |-> f.value.cells[group.rows[i]]])]

\* A row of an answer is its group's key beside its aggregate.
LEMMA RowOfShape ==
    ASSUME NEW f, NEW k, NEW group
    PROVE  /\ RowOf(f, k, group).key = group.key
           /\ RowOf(f, k, group) = [key |-> group.key, agg |-> RowOf(f, k, group).agg]
  <1> DEFINE a == AppendAgg(k, f.value.type,
                            [i \in 1..Len(group.rows) |-> f.value.cells[group.rows[i]]])
  <1>1. RowOf(f, k, group) = [key |-> group.key, agg |-> a]
    BY DEF RowOf
  <1> HIDE DEF a
  <1> QED
    BY <1>1

\* a is the answer: the rows of the groups, or none after an error.
Answers(f, G, k, a) ==
    a = IF \E g \in 1..Len(G) : RowOf(f, k, G[g]).agg = Error THEN <<>>
        ELSE [g \in 1..Len(G) |-> RowOf(f, k, G[g])]

LEMMA AnswerRows ==
    ASSUME NEW f, NEW G, NEW k, Len(G) \in Nat
    PROVE  Answers(f, G, k, Answer(f, G, k))
  <1> DEFINE rows == [g \in 1..Len(G) |-> RowOf(f, k, G[g])]
  <1>1. Answer(f, G, k) = IF \E g \in 1..Len(rows) : rows[g].agg = Error THEN <<>> ELSE rows
    BY DEF Answer, RowOf
  <1>2. Len(rows) = Len(G) /\ \A g \in 1..Len(G) : rows[g] = RowOf(f, k, G[g])
    OBVIOUS
  <1> HIDE DEF rows
  <1>3. Answer(f, G, k) = IF \E g \in 1..Len(G) : RowOf(f, k, G[g]).agg = Error THEN <<>> ELSE rows
    BY <1>1, <1>2
  <1> QED
    BY <1>3 DEF rows, Answers

Distinct(s) == \A i, j \in 1..Len(s) : s[i] = s[j] => i = j
Within(s, t) == \A i \in 1..Len(s) : \E j \in 1..Len(t) : t[j] = s[i]

(* Two sequences that hold the same things, each once, are as long. *)
LEMMA SameLength ==
    ASSUME NEW s, NEW t, Len(s) \in Nat, Len(t) \in Nat,
           Distinct(s), Distinct(t), Within(s, t), Within(t, s)
    PROVE  Len(s) = Len(t)
  <1> DEFINE m == Len(s)
             n == Len(t)
             f == [i \in 1..m |-> CHOOSE j \in 1..n : t[j] = s[i]]
             g == [j \in 1..n |-> CHOOSE i \in 1..m : s[i] = t[j]]
  <1>1. /\ m \in Nat /\ n \in Nat
        /\ IsFiniteSet(1..m) /\ Cardinality(1..m) = m
        /\ IsFiniteSet(1..n) /\ Cardinality(1..n) = n
    <2>1. m \in Nat /\ n \in Nat
      OBVIOUS
    <2> HIDE DEF m, n
    <2>2. IsFiniteSet(1..m) /\ Cardinality(1..m) = m /\ IsFiniteSet(1..n) /\ Cardinality(1..n) = n
      BY <2>1, UpTo
    <2> QED
      BY <2>1, <2>2
  <1>2. \A i \in 1..m : f[i] \in 1..n /\ t[f[i]] = s[i]
    BY DEF Within
  <1>3. \A j \in 1..n : g[j] \in 1..m /\ s[g[j]] = t[j]
    BY DEF Within
  <1>4. f \in [1..m -> 1..n] /\ g \in [1..n -> 1..m]
    BY <1>2, <1>3
  <1> HIDE DEF f, g
  <1>5. \A i, j \in 1..m : f[i] = f[j] => i = j
    BY <1>2 DEF Distinct
  <1>6. \A i, j \in 1..n : g[i] = g[j] => i = j
    BY <1>3 DEF Distinct
  <1> DEFINE A == 1..m
             B == 1..n
  <1>7. f \in Injection(A, B) /\ g \in Injection(B, A)
    BY <1>4, <1>5, <1>6 DEF Injection, IsInjective
  <1>8. IsFiniteSet(A) /\ IsFiniteSet(B) /\ Cardinality(A) = m /\ Cardinality(B) = n
    BY <1>1
  <1> HIDE DEF A, B, m, n
  <1>9. m <= n /\ n <= m
    BY <1>7, <1>8, FS_Injection
  <1> QED
    BY <1>1, <1>9 DEF m, n

(* Groupings by key give the same answer. *)
LEMMA FaithfulAnswers ==
    ASSUME NEW f, NEW G, NEW H, NEW k, Faithful(f, G), Faithful(f, H)
    PROVE  SameRows(Answer(f, G, k), Answer(f, H, k))
  <1>1. Len(G) \in Nat /\ Len(H) \in Nat /\ Distinct(G) /\ Distinct(H)
    <2>1. G \in Seq(AllGroups(f)) /\ H \in Seq(AllGroups(f))
      BY DEF Faithful
    <2>2. Distinct(G)
      BY DEF Faithful, Distinct
    <2>3. Distinct(H)
      BY DEF Faithful, Distinct
    <2> QED
      BY <2>1, <2>2, <2>3
  <1>2. Within(G, H)
    <2> SUFFICES ASSUME NEW i \in 1..Len(G)
                 PROVE  \E j \in 1..Len(H) : H[j] = G[i]
      BY DEF Within
    <2>1. G[i] \in AllGroups(f)
      BY DEF Faithful
    <2> QED
      BY <2>1 DEF Faithful
  <1>3. Within(H, G)
    <2> SUFFICES ASSUME NEW i \in 1..Len(H)
                 PROVE  \E j \in 1..Len(G) : G[j] = H[i]
      BY DEF Within
    <2>1. H[i] \in AllGroups(f)
      BY DEF Faithful
    <2> QED
      BY <2>1 DEF Faithful
  <1>4. Len(G) = Len(H)
    BY <1>1, <1>2, <1>3, SameLength
  <1>5. (\E i \in 1..Len(G) : RowOf(f, k, G[i]).agg = Error)
           <=> \E j \in 1..Len(H) : RowOf(f, k, H[j]).agg = Error
    BY <1>2, <1>3 DEF Within
  <1> DEFINE a == [g \in 1..Len(G) |-> RowOf(f, k, G[g])]
             b == [g \in 1..Len(H) |-> RowOf(f, k, H[g])]
  <1>6. ASSUME NEW x
        PROVE  x \in Range(a) <=> x \in Range(b)
    <2>1. x \in Range(a) <=> \E g \in 1..Len(G) : x = RowOf(f, k, G[g])
      BY DEF Range
    <2>2. x \in Range(b) <=> \E g \in 1..Len(H) : x = RowOf(f, k, H[g])
      BY DEF Range
    <2> HIDE DEF a, b
    <2> QED
      BY <1>2, <1>3, <2>1, <2>2 DEF Within
  <1>7. Len(a) = Len(b)
    BY <1>1, <1>4
  <1>8. Answers(f, G, k, Answer(f, G, k)) /\ Answers(f, H, k, Answer(f, H, k))
    BY <1>1, AnswerRows
  <1>9. /\ Answer(f, G, k) = IF \E i \in 1..Len(G) : RowOf(f, k, G[i]).agg = Error THEN <<>> ELSE a
        /\ Answer(f, H, k) = IF \E i \in 1..Len(H) : RowOf(f, k, H[i]).agg = Error THEN <<>> ELSE b
    BY <1>8 DEF Answers
  <1> HIDE DEF a, b
  <1>10. Range(a) = Range(b)
    BY <1>6
  <1> QED
    BY <1>5, <1>7, <1>9, <1>10 DEF SameRows

-----------------------------------------------------------------------------
(* The eager paths. *)

\* A frame whose key columns are plain.
PlainFrame(f) == \A k \in 1..Len(f.keys) : Plain(f.keys[k])

(* What a frame holds. *)
LEMMA FrameFacts ==
    ASSUME NEW f \in Inputs
    PROVE  /\ NumRows(f) \in Nat /\ Len(f.keys) \in Nat \ {0}
           /\ f.value.cells \in Seq(CellsOf(Values(f.value.type)))
           /\ \A k \in 1..Len(f.keys) :
                 /\ f.keys[k].type \in KeyTypes /\ Len(f.keys[k].cells) = NumRows(f)
                 /\ f.keys[k].cells \in Seq(CellsOf(Values(f.keys[k].type)))
                 /\ \A r \in Rows(f) : f.keys[k].cells[r] \in CellsOf(Values(f.keys[k].type))
  <1>1. IsFrame(f)
    BY InputsAssumption
  <1>2. f.value.cells \in Seq(CellsOf(Values(f.value.type))) /\ Len(f.keys) \in Nat \ {0}
    BY <1>1 DEF IsFrame, IsColumn, CellsOf
  <1>3. NumRows(f) \in Nat
    BY <1>2 DEF NumRows
  <1>4. ASSUME NEW k \in 1..Len(f.keys)
        PROVE  /\ f.keys[k].type \in KeyTypes /\ Len(f.keys[k].cells) = NumRows(f)
               /\ f.keys[k].cells \in Seq(CellsOf(Values(f.keys[k].type)))
               /\ \A r \in Rows(f) : f.keys[k].cells[r] \in CellsOf(Values(f.keys[k].type))
    <2> DEFINE c == f.keys[k]
               V == CellsOf(Values(c.type))
    <2>1. c.type \in KeyTypes /\ Len(c.cells) = NumRows(f) /\ c.cells \in Seq(V)
      BY <1>1 DEF IsFrame, IsColumn, CellsOf
    <2> HIDE DEF c, V
    <2>2. \A r \in Rows(f) : c.cells[r] \in V
      BY <2>1 DEF Rows
    <2> QED
      BY <2>1, <2>2 DEF c, V
  <1> QED
    BY <1>2, <1>3, <1>4

LEMMA PlainRows ==
    ASSUME NEW f \in Inputs, PlainFrame(f), NEW r \in Rows(f)
    PROVE  KeyRow(f.keys, r)
  <1> SUFFICES ASSUME NEW k \in 1..Len(f.keys)
               PROVE  KeyCell(f.keys[k].type, f.keys[k].cells[r])
    BY DEF KeyRow
  <1> DEFINE c == f.keys[k]
  <1>1. c.type \in KeyTypes /\ Len(c.cells) = NumRows(f) /\ c.cells[r] \in CellsOf(Values(c.type))
    BY FrameFacts
  <1>2. Plain(c) /\ r \in 1..Len(c.cells)
    BY <1>1 DEF PlainFrame, Rows
  <1> HIDE DEF c
  <1>3. PlainCell(c.type, c.cells[r])
    BY <1>2 DEF Plain, PlainCell
  <1>4. KeyCell(c.type, c.cells[r])
    BY <1>1, <1>3 DEF KeyCell
  <1> QED
    BY <1>4 DEF c

(* The ids of the rows, sorted. *)
LEMMA SortedOrder ==
    ASSUME NEW f, NumRows(f) \in Nat, NEW numeric \in BOOLEAN,
           NEW ids, \A r \in Rows(f) : ids[r] \in Ids(numeric),
           NEW S, S = {ids[r] : r \in Rows(f)}
    PROVE  /\ OrderOf(f, ids, Ascending(numeric, S))
           /\ Lists(numeric, Ascending(numeric, S), S)
  <1> DEFINE order == Ascending(numeric, S)
             n == Len(order)
             g == [r \in Rows(f) |-> ids[r]]
  <1>1. IsFiniteSet(S)
    <2>1. IsFiniteSet(Rows(f))
      BY UpTo DEF Rows
    <2>2. g \in Surjection(Rows(f), S)
      BY DEF Surjection
    <2> HIDE DEF g
    <2> QED
      BY <2>1, <2>2, FS_Surjection
  <1>2. S \subseteq Ids(numeric)
    OBVIOUS
  <1>3. Lists(numeric, order, S)
    BY <1>1, <1>2, AscendingLists
  <1> HIDE DEF order, g
  <1>4. /\ order \in Seq(S) /\ n \in Nat
        /\ \A i, j \in 1..n : i < j => Before(numeric, order[i], order[j])
        /\ \A x \in S : \E i \in 1..n : order[i] = x
        /\ \A i \in 1..n : order[i] \in S
    BY <1>3 DEF Lists
  <1>5. ASSUME NEW i \in 1..n, NEW j \in 1..n, order[i] = order[j]
        PROVE  i = j
    <2>1. order[i] \in Ids(numeric) /\ order[j] \in Ids(numeric)
      BY <1>2, <1>4
    <2>2. ~ Before(numeric, order[i], order[j]) /\ ~ Before(numeric, order[j], order[i])
      BY <1>5, <2>1, BeforeOrders
    <2>3. ~ (i < j) /\ ~ (j < i)
      BY <1>4, <2>2
    <2> QED
      BY <1>4, <2>3
  <1>6. OrderOf(f, ids, order)
    BY <1>4, <1>5 DEF OrderOf
  <1> QED
    BY <1>3, <1>6 DEF order

(* The general path, its ids in order and its groups. *)
LEMMA GenericGroups ==
    ASSUME NEW f \in Inputs, PlainFrame(f)
    PROVE  LET ids == RowKeys(f)
               order == Ascending(FALSE, {ids[r] : r \in Rows(f)})
           IN  /\ IdsAgree(f, ids) /\ OrderOf(f, ids, order)
               /\ Lists(FALSE, order, {ids[r] : r \in Rows(f)})
               /\ GroupedBy(f, ids, order, Generic(f))
               /\ \A r \in Rows(f) : ids[r] \in Seq(Int)
               /\ Faithful(f, Generic(f))
  <1> DEFINE ids == RowKeys(f)
             S == {ids[r] : r \in Rows(f)}
             order == Ascending(FALSE, S)
  <1>1. NumRows(f) \in Nat /\ Len(f.keys) \in Nat \ {0}
    BY FrameFacts
  <1>2. ids = [r \in Rows(f) |-> RowKey(f.keys, r)] /\ \A r \in Rows(f) : ids[r] = RowKey(f.keys, r)
    BY DEF RowKeys, Rows
  <1>3. \A r \in Rows(f) : KeyRow(f.keys, r)
    BY PlainRows
  <1>4. Range(ids) = S /\ Len(ids) = NumRows(f)
    BY <1>1, <1>2 DEF Range, RowKeys, Rows
  <1> HIDE DEF ids
  <1>5. IdsAgree(f, ids)
    <2> SUFFICES ASSUME NEW r \in Rows(f), NEW s \in Rows(f)
                 PROVE  ids[r] = ids[s] <=> KeyCells(f.keys, r) = KeyCells(f.keys, s)
      BY DEF IdsAgree
    <2>1. RowKey(f.keys, r) = RowKey(f.keys, s) <=> KeyCells(f.keys, r) = KeyCells(f.keys, s)
      BY <1>1, <1>3, RowKeyCells
    <2> QED
      BY <1>2, <2>1
  <1>6. \A r \in Rows(f) : ids[r] \in Seq(Int)
    BY <1>1, <1>2, <1>3, RowKeyCells
  <1>7. \A r \in Rows(f) : ids[r] \in Ids(FALSE)
    BY <1>6 DEF Ids
  <1> HIDE DEF S
  <1>8. OrderOf(f, ids, order) /\ Lists(FALSE, order, S)
    BY <1>1, <1>7, SortedOrder DEF S
  <1> DEFINE gs == RowsById(ids)
  <1>9. gs = [i \in 1..Len(order) |-> InOrder(RowsOfId(f, ids, order[i]))]
    BY <1>4 DEF RowsById, RowsOfId, Rows
  <1>10. Generic(f) = WithFirstKey(f.keys, gs)
    BY DEF Generic, ids
  <1> HIDE DEF gs, order
  <1>11. GroupedBy(f, ids, order, Generic(f))
    BY <1>1, <1>8, <1>9, <1>10, FirstKeyGroups
  <1>12. Faithful(f, Generic(f))
    BY <1>5, <1>8, <1>11, GroupedIsFaithful
  <1> QED
    BY <1>5, <1>6, <1>8, <1>11, <1>12 DEF ids, order, S

(* The key of a row of one column. *)
LEMMA OneCell ==
    ASSUME NEW keys, Len(keys) = 1, NEW r
    PROVE  KeyCells(keys, r) = <<keys[1].cells[r]>>
  <1> DEFINE c == keys[1].cells[r]
  <1>1. KeyCells(keys, r) = [k \in 1..1 |-> c]
    <2>1. \A k \in 1..1 : k = 1
      OBVIOUS
    <2>2. \A k \in 1..1 : keys[k].cells[r] = c
      BY <2>1
    <2>3. KeyCells(keys, r) = [k \in 1..1 |-> keys[k].cells[r]]
      BY DEF KeyCells
    <2> HIDE DEF c
    <2> QED
      BY <2>2, <2>3
  <1> HIDE DEF c
  <1>2. [k \in 1..1 |-> c] = <<c>>
    <2>1. \A k \in 1..1 : <<c>>[k] = c
      OBVIOUS
    <2>2. <<c>> = [k \in 1..1 |-> <<c>>[k]]
      OBVIOUS
    <2> QED
      BY <2>1, <2>2
  <1> QED
    BY <1>1, <1>2 DEF c

LEMMA OneValue == \A x, y : <<x>> # Null /\ (<<x>> = <<y>> <=> x = y)
  BY DEF Null

(* A cell that is not null holds one value. *)
LEMMA CellForm ==
    ASSUME NEW V, NEW cell \in CellsOf(V)
    PROVE  cell # Null => cell[1] \in V /\ cell = <<cell[1]>>
  BY DEF CellsOf

\* The ids of FastText.
TextIds(cells) == [r \in 1..Len(cells) |-> IF cells[r] = Null THEN NullKey ELSE cells[r][1]]

LEMMA FastTextGroups ==
    ASSUME NEW f \in Inputs, PlainFrame(f), Texts(f.keys)
    PROVE  LET ids == TextIds(f.keys[1].cells)
               order == Ascending(FALSE, {ids[r] : r \in Rows(f)})
           IN  /\ IdsAgree(f, ids) /\ OrderOf(f, ids, order)
               /\ Lists(FALSE, order, {ids[r] : r \in Rows(f)})
               /\ GroupedBy(f, ids, order, FastText(f.keys[1].cells))
               /\ \A r \in Rows(f) : ids[r] \in Seq(Int)
               /\ Faithful(f, FastText(f.keys[1].cells))
  <1> DEFINE cells == f.keys[1].cells
             ids == TextIds(cells)
             S == {ids[r] : r \in Rows(f)}
             order == Ascending(FALSE, S)
  <1>1. Len(f.keys) = 1 /\ f.keys[1].type = "text" /\ 1 \in 1..Len(f.keys)
    BY DEF Texts
  <1>2. NumRows(f) \in Nat /\ Len(cells) = NumRows(f)
        /\ \A r \in Rows(f) : cells[r] \in CellsOf(Seq(0..255))
    <2>1. Values(f.keys[1].type) = Seq(0..255)
      BY <1>1 DEF Values
    <2> QED
      BY <1>1, <2>1, FrameFacts
  <1>3. \A r \in Rows(f) : KeyCells(f.keys, r) = <<cells[r]>>
    BY <1>1, OneCell
  <1>4. ASSUME NEW r \in Rows(f), cells[r] # Null
        PROVE  /\ cells[r][1] \in Seq(Int) /\ cells[r][1] # NullKey
               /\ cells[r] = <<cells[r][1]>>
    <2>1. cells[r][1] \in Seq(0..255) /\ cells[r] = <<cells[r][1]>>
      BY <1>2, <1>4, CellForm
    <2>2. cells[r][1] \in Seq(Int)
      <3>1. 0..255 \subseteq Int
        OBVIOUS
      <3> QED
        BY <2>1, <3>1, SeqMonotonic
    <2>3. KeyRow(f.keys, r)
      BY PlainRows
    <2>4. PlainCell("text", cells[r])
      BY <1>1, <2>3 DEF KeyRow, KeyCell
    <2>5. cells[r][1] # NullKey
      BY <1>4, <2>4 DEF PlainCell
    <2> QED
      BY <2>1, <2>2, <2>5
  <1>5. \A r \in Rows(f) : ids[r] = IF cells[r] = Null THEN NullKey ELSE cells[r][1]
    BY <1>2 DEF TextIds, Rows
  <1>6. Range(ids) = S /\ Len(ids) = NumRows(f)
    BY <1>2 DEF Range, TextIds, Rows
  <1>7. NullKey \in Seq(Int)
    BY DEF NullKey
  <1>8. FastText(cells) = [g \in 1..Len(RowsById(ids)) |->
              [key |-> IF ids[RowsById(ids)[g][1]] = NullKey THEN <<Null>>
                       ELSE <<<<ids[RowsById(ids)[g][1]]>>>>,
               rows |-> RowsById(ids)[g]]]
    BY DEF FastText, TextIds
  <1> HIDE DEF cells, ids
  <1>9. IdsAgree(f, ids)
    <2> SUFFICES ASSUME NEW r \in Rows(f), NEW s \in Rows(f)
                 PROVE  ids[r] = ids[s] <=> cells[r] = cells[s]
      BY <1>3 DEF IdsAgree
    <2> QED
      BY <1>4, <1>5
  <1>10. \A r \in Rows(f) : ids[r] \in Seq(Int)
    BY <1>4, <1>5, <1>7
  <1>11. \A r \in Rows(f) : ids[r] \in Ids(FALSE)
    BY <1>10 DEF Ids
  <1> HIDE DEF S
  <1>12. OrderOf(f, ids, order) /\ Lists(FALSE, order, S)
    BY <1>2, <1>11, SortedOrder DEF S
  <1> DEFINE gs == RowsById(ids)
             G == FastText(cells)
  <1>13. gs = [i \in 1..Len(order) |-> InOrder(RowsOfId(f, ids, order[i]))]
    BY <1>6 DEF RowsById, RowsOfId, Rows
  <1>14. G = [g \in 1..Len(gs) |->
              [key |-> IF ids[gs[g][1]] = NullKey THEN <<Null>> ELSE <<<<ids[gs[g][1]]>>>>,
               rows |-> gs[g]]]
    BY <1>8
  <1>15. Len(order) \in Nat
    BY <1>12 DEF OrderOf
  <1> HIDE DEF gs, order, G
  <1>16. Len(gs) = Len(order) /\ \A i \in 1..Len(order) : gs[i] = InOrder(RowsOfId(f, ids, order[i]))
    BY <1>13, <1>15
  <1>17. ASSUME NEW i \in 1..Len(order)
         PROVE  \E r \in Rows(f) :
                  /\ ids[r] = order[i]
                  /\ G[i] = [key |-> KeyCells(f.keys, r), rows |-> InOrder(RowsOfId(f, ids, order[i]))]
    <2>1. PICK r \in Rows(f) : ids[r] = order[i]
      BY <1>12 DEF OrderOf
    <2> DEFINE s == gs[i][1]
    <2>2. s \in Rows(f) /\ ids[s] = order[i]
      BY <1>2, <1>16, <2>1, FirstOfOrder
    <2>3. G[i] = [key |-> IF ids[s] = NullKey THEN <<Null>> ELSE <<<<ids[s]>>>>, rows |-> gs[i]]
      BY <1>14, <1>16
    <2> HIDE DEF s
    <2>4. (IF ids[s] = NullKey THEN <<Null>> ELSE <<<<ids[s]>>>>) = <<cells[s]>>
      BY <1>4, <1>5, <2>2
    <2> QED
      BY <1>3, <1>16, <2>2, <2>3, <2>4
  <1>18. GroupedBy(f, ids, order, G)
    <2>1. G = [i \in 1..Len(order) |-> G[i]]
      BY <1>14, <1>16
    <2> QED
      BY <1>17, <2>1 DEF GroupedBy
  <1>19. Faithful(f, G)
    BY <1>9, <1>12, <1>18, GroupedIsFaithful
  <1> QED
    BY <1>9, <1>10, <1>12, <1>18, <1>19 DEF ids, order, S, G, cells

-----------------------------------------------------------------------------
(* One number column. *)

\* The values of a column, in order, as cells; the null last.
NumberOrder(order, nulls) ==
    IF nulls = {} THEN [i \in 1..Len(order) |-> <<order[i]>>]
    ELSE Append([i \in 1..Len(order) |-> <<order[i]>>], Null)

LEMMA FastNumberGroups ==
    ASSUME NEW f \in Inputs, Len(f.keys) = 1, f.keys[1].type \in {"int", "float"}
    PROVE  LET cells == f.keys[1].cells
               present == {r \in Rows(f) : cells[r] # Null}
               V == {cells[r][1] : r \in present}
               order == Ascending(TRUE, V)
               all == NumberOrder(order, Rows(f) \ present)
           IN  /\ Lists(TRUE, order, V)
               /\ \A r \in present : cells[r][1] \in Int /\ cells[r] = <<cells[r][1]>>
               /\ IdsAgree(f, cells) /\ OrderOf(f, cells, all)
               /\ GroupedBy(f, cells, all, FastNumber(f, cells))
               /\ Faithful(f, FastNumber(f, cells))
  <1> DEFINE cells == f.keys[1].cells
             present == {r \in Rows(f) : cells[r] # Null}
             nulls == Rows(f) \ present
             V == {cells[r][1] : r \in present}
             order == Ascending(TRUE, V)
             n == Len(order)
             all == NumberOrder(order, nulls)
  <1>1. NumRows(f) \in Nat /\ Len(cells) = NumRows(f)
        /\ \A r \in Rows(f) : cells[r] \in CellsOf(Int)
    <2>1. 1 \in 1..Len(f.keys)
      OBVIOUS
    <2>2. Values(f.keys[1].type) \subseteq Int
      BY DEF Values, Shorts
    <2>3. NumRows(f) \in Nat /\ Len(cells) = NumRows(f)
          /\ \A r \in Rows(f) : cells[r] \in CellsOf(Values(f.keys[1].type))
      BY <2>1, FrameFacts
    <2> HIDE DEF cells
    <2>4. ASSUME NEW c \in CellsOf(Values(f.keys[1].type))
          PROVE  c \in CellsOf(Int)
      BY <2>2, <2>4 DEF CellsOf
    <2> QED
      BY <2>3, <2>4
  <1>2. \A r \in Rows(f) : KeyCells(f.keys, r) = <<cells[r]>>
    BY OneCell
  <1>3. 1..Len(cells) = Rows(f)
    BY <1>1 DEF Rows
  <1> HIDE DEF cells
  <1>4. \A r \in present : cells[r][1] \in Int /\ cells[r] = <<cells[r][1]>>
    BY <1>1, CellForm
  <1>5. V \subseteq Int /\ IsFiniteSet(V)
    <2> DEFINE g == [r \in present |-> cells[r][1]]
    <2>1. IsFiniteSet(present)
      BY <1>1, UpTo, FS_Subset DEF Rows
    <2>2. g \in Surjection(present, V)
      BY DEF Surjection
    <2> HIDE DEF g, present
    <2> QED
      BY <1>4, <2>1, <2>2, FS_Surjection
  <1>6. Lists(TRUE, order, V)
    BY <1>5, AscendingLists DEF Ids
  <1>7. /\ n \in Nat /\ \A i \in 1..n : order[i] \in V /\ order[i] \in Int
        /\ \A i, j \in 1..n : i < j => order[i] < order[j]
        /\ \A x \in V : \E i \in 1..n : order[i] = x
    <2> HIDE DEF V, order
    <2>1. /\ order \in Seq(V) /\ V \subseteq Int
          /\ \A i, j \in 1..n : i < j => Before(TRUE, order[i], order[j])
          /\ \A x \in V : \E i \in 1..n : order[i] = x
      BY <1>5, <1>6 DEF Lists
    <2>2. n \in Nat /\ \A i \in 1..n : order[i] \in V
      BY <2>1
    <2> QED
      BY <2>1, <2>2 DEF Before
  <1> HIDE DEF order
  <1>8. IdsAgree(f, cells)
    BY <1>2 DEF IdsAgree
  <1>9. /\ Len(all) = IF nulls = {} THEN n ELSE n + 1
        /\ \A i \in 1..n : all[i] = <<order[i]>>
        /\ nulls # {} => all[n + 1] = Null
    <2> DEFINE s == [i \in 1..n |-> <<order[i]>>]
               W == {<<order[i]>> : i \in 1..n} \cup {Null}
    <2>1. s \in Seq(W) /\ Len(s) = n /\ \A i \in 1..n : s[i] = <<order[i]>>
      BY <1>7
    <2>2. all = IF nulls = {} THEN s ELSE Append(s, Null)
      BY DEF NumberOrder
    <2>3. Null \in W
      OBVIOUS
    <2> HIDE DEF s, W, all, nulls
    <2>4. /\ Len(Append(s, Null)) = n + 1 /\ Append(s, Null)[n + 1] = Null
          /\ \A i \in 1..n : Append(s, Null)[i] = s[i]
      BY <1>7, <2>1, <2>3, AppendProperties
    <2> QED
      BY <2>1, <2>2, <2>4
  <1> HIDE DEF all
  <1>10. OrderOf(f, cells, all)
    <2>1. Len(all) \in Nat
      BY <1>7, <1>9
    <2>2. ASSUME NEW i \in 1..n
          PROVE  all[i] # Null
      <3>1. all[i] = <<order[i]>>
        BY <1>9
      <3>2. <<order[i]>> # Null
        BY OneValue
      <3> QED
        BY <3>1, <3>2
    <2>3. ASSUME NEW i \in 1..Len(all), NEW j \in 1..Len(all), all[i] = all[j]
          PROVE  i = j
      <3>1. CASE i \in 1..n /\ j \in 1..n
        <4>1. order[i] = order[j]
          BY <1>9, <2>3, <3>1
        <4>2. ~ (i < j) /\ ~ (j < i)
          BY <1>7, <3>1, <4>1
        <4> QED
          BY <1>7, <3>1, <4>2
      <3>2. CASE ~ (i \in 1..n /\ j \in 1..n)
        <4>1. nulls # {} /\ Len(all) = n + 1 /\ all[n + 1] = Null
          BY <1>7, <1>9, <3>2
        <4>2. (i \in 1..n \/ i = n + 1) /\ (j \in 1..n \/ j = n + 1)
          BY <1>7, <4>1
        <4> QED
          BY <2>2, <2>3, <3>2, <4>1, <4>2
      <3> QED
        BY <3>1, <3>2
    <2>4. ASSUME NEW i \in 1..Len(all)
          PROVE  \E r \in Rows(f) : cells[r] = all[i]
      <3>1. CASE i \in 1..n
        <4>1. PICK r \in present : order[i] = cells[r][1]
          BY <1>7, <3>1
        <4> QED
          BY <1>4, <1>9, <3>1, <4>1
      <3>2. CASE i \notin 1..n
        <4>1. nulls # {} /\ Len(all) = n + 1 /\ i = n + 1
          BY <1>7, <1>9, <3>2
        <4>2. PICK r \in nulls : TRUE
          BY <4>1
        <4> QED
          BY <1>9, <4>1, <4>2
      <3> QED
        BY <3>1, <3>2
    <2>5. ASSUME NEW r \in Rows(f)
          PROVE  \E i \in 1..Len(all) : all[i] = cells[r]
      <3>1. CASE r \in present
        <4>1. PICK i \in 1..n : order[i] = cells[r][1]
          BY <1>7, <3>1
        <4>2. i \in 1..Len(all)
          BY <1>7, <1>9
        <4> QED
          BY <1>4, <1>9, <3>1, <4>1, <4>2
      <3>2. CASE r \notin present
        <4>1. r \in nulls /\ cells[r] = Null
          BY <3>2
        <4>2. n + 1 \in 1..Len(all)
          BY <1>7, <1>9, <4>1
        <4> QED
          BY <1>9, <4>1, <4>2
      <3> QED
        BY <3>1, <3>2
    <2> QED
      BY <2>1, <2>3, <2>4, <2>5 DEF OrderOf
  <1> DEFINE valued == [g \in 1..n |-> InOrder({r \in present : cells[r][1] = order[g]})]
             gs == IF nulls = {} THEN valued ELSE Append(valued, InOrder(nulls))
  <1>11. FastNumber(f, cells) = WithFirstKey(f.keys, gs)
    <2>1. {r \in 1..Len(cells) : cells[r] # Null} = present
      BY <1>3
    <2>2. {r \in 1..Len(cells) : cells[r] = Null} = nulls
      BY <1>3
    <2>3. FastNumber(f, cells) =
            LET o == Ascending(TRUE, {cells[r][1] : r \in present})
                g == [k \in 1..Len(o) |-> InOrder({r \in present : cells[r][1] = o[k]})]
            IN  WithFirstKey(f.keys, IF nulls = {} THEN g ELSE Append(g, InOrder(nulls)))
      BY <2>1, <2>2 DEF FastNumber
    <2> QED
      BY <2>3 DEF order
  <1>12. ASSUME NEW i \in 1..n
         PROVE  {r \in present : cells[r][1] = order[i]} = RowsOfId(f, cells, all[i])
    <2>1. all[i] = <<order[i]>>
      BY <1>9
    <2>2. ASSUME NEW r \in Rows(f)
          PROVE  (cells[r] # Null /\ cells[r][1] = order[i]) <=> cells[r] = all[i]
      <3>1. CASE cells[r] = Null
        BY <2>1, <3>1, OneValue
      <3>2. CASE cells[r] # Null
        <4>1. cells[r] = <<cells[r][1]>>
          BY <1>4, <3>2
        <4> HIDE DEF all
        <4>2. <<cells[r][1]>> = <<order[i]>> <=> cells[r][1] = order[i]
          BY OneValue
        <4> QED
          BY <2>1, <3>2, <4>1, <4>2
      <3> QED
        BY <3>1, <3>2
    <2> QED
      BY <2>2 DEF RowsOfId
  <1>13. nulls # {} => nulls = RowsOfId(f, cells, all[n + 1])
    BY <1>9 DEF RowsOfId
  <1>14. gs = [i \in 1..Len(all) |-> InOrder(RowsOfId(f, cells, all[i]))]
    <2> DEFINE X(i) == InOrder(RowsOfId(f, cells, all[i]))
               W == {X(i) : i \in 1..Len(all)}
    <2>1. valued = [i \in 1..n |-> X(i)]
      BY <1>12
    <2>2. CASE nulls = {}
      <3>1. Len(all) = n
        BY <1>9, <2>2
      <3> QED
        BY <2>1, <2>2, <3>1
    <2>3. CASE nulls # {}
      <3>1. Len(all) = n + 1 /\ gs = Append(valued, X(n + 1))
        BY <1>9, <1>13, <2>3
      <3>2. \A i \in 1..(n + 1) : X(i) \in W
        BY <3>1
      <3> HIDE DEF valued, gs, X, W
      <3>3. valued \in Seq(W) /\ Len(valued) = n /\ \A i \in 1..n : valued[i] = X(i)
        BY <1>7, <2>1, <3>2
      <3>4. /\ gs \in Seq(W) /\ Len(gs) = n + 1 /\ gs[n + 1] = X(n + 1)
            /\ \A i \in 1..n : gs[i] = X(i)
        BY <1>7, <3>1, <3>2, <3>3, AppendProperties
      <3>5. \A i \in 1..(n + 1) : i \in 1..n \/ i = n + 1
        BY <1>7
      <3>6. gs = [i \in 1..(n + 1) |-> X(i)]
        BY <3>4, <3>5
      <3> QED
        BY <3>1, <3>6 DEF X
    <2> QED
      BY <2>2, <2>3
  <1> HIDE DEF gs, nulls, present
  <1>15. GroupedBy(f, cells, all, WithFirstKey(f.keys, gs))
    BY <1>1, <1>10, <1>14, FirstKeyGroups
  <1>16. Faithful(f, FastNumber(f, cells))
    BY <1>8, <1>10, <1>11, <1>15, GroupedIsFaithful
  <1>17. GroupedBy(f, cells, all, FastNumber(f, cells))
    BY <1>11, <1>15
  <1> QED
    BY <1>4, <1>6, <1>8, <1>10, <1>16, <1>17 DEF all, order, nulls, present, cells

-----------------------------------------------------------------------------
(* The aligned scan. *)

Starts(f) == {r \in 1..NumRows(f) : r = 1 \/ RowKey(f.keys, r) # RowKey(f.keys, r - 1)}

\* s starts the run r is in.
StartOf(f, s, r) == /\ s \in Starts(f) /\ s <= r
                    /\ KeyCells(f.keys, s) = KeyCells(f.keys, r)
                    /\ \A t \in Starts(f) : t <= s \/ r < t

LEMMA StartFacts ==
    ASSUME NEW f \in Inputs, PlainFrame(f)
    PROVE  \A r \in Rows(f) :
             r \in Starts(f) <=> r = 1 \/ KeyCells(f.keys, r) # KeyCells(f.keys, r - 1)
  <1> TAKE r \in Rows(f)
  <1>1. NumRows(f) \in Nat /\ Len(f.keys) \in Nat \ {0}
    BY FrameFacts
  <1>2. CASE r = 1
    BY <1>2 DEF Starts, Rows
  <1>3. CASE r # 1
    <2> DEFINE q == r - 1
    <2>1. q \in Rows(f)
      BY <1>1, <1>3 DEF Rows
    <2> HIDE DEF q
    <2>2. KeyRow(f.keys, r) /\ KeyRow(f.keys, q)
      BY <2>1, PlainRows
    <2>3. RowKey(f.keys, r) = RowKey(f.keys, q) <=> KeyCells(f.keys, r) = KeyCells(f.keys, q)
      BY <1>1, <2>2, RowKeyCells
    <2> QED
      BY <1>3, <2>3 DEF Starts, Rows, q
  <1> QED
    BY <1>2, <1>3

(* Every row is in a run. *)
LEMMA StartExists ==
    ASSUME NEW f \in Inputs, PlainFrame(f)
    PROVE  \A r \in Rows(f) : \E s \in Rows(f) : StartOf(f, s, r)
  <1>1. NumRows(f) \in Nat /\ Starts(f) \subseteq Rows(f) /\ Rows(f) \subseteq Nat
    BY FrameFacts DEF Starts, Rows
  <1> DEFINE S == {r \in Nat : r \in Rows(f) => \E s \in Rows(f) : StartOf(f, s, r)}
  <1>2. 0 \in S
    BY <1>1 DEF Rows
  <1>3. ASSUME NEW r \in Nat, r \in S
        PROVE  r + 1 \in S
    <2> SUFFICES ASSUME r + 1 \in Rows(f)
                 PROVE  \E s \in Rows(f) : StartOf(f, s, r + 1)
      OBVIOUS
    <2>1. CASE r + 1 \in Starts(f)
      <3>1. \A t \in Starts(f) : t <= r + 1 \/ r + 1 < t
        BY <1>1
      <3>2. StartOf(f, r + 1, r + 1)
        BY <2>1, <3>1 DEF StartOf
      <3> QED
        BY <3>2
    <2>2. CASE r + 1 \notin Starts(f)
      <3>1. r + 1 # 1 /\ KeyCells(f.keys, r + 1) = KeyCells(f.keys, (r + 1) - 1)
        BY <2>2, StartFacts
      <3>2. r \in Rows(f) /\ (r + 1) - 1 = r
        BY <1>1, <3>1 DEF Rows
      <3>3. PICK s \in Rows(f) : StartOf(f, s, r)
        BY <1>3, <3>2
      <3>4. s \in Starts(f) /\ s <= r /\ KeyCells(f.keys, s) = KeyCells(f.keys, r)
        BY <3>3 DEF StartOf
      <3>5. \A t \in Starts(f) : t <= s \/ r + 1 < t
        <4> TAKE t \in Starts(f)
        <4>1. t <= s \/ r < t
          BY <3>3 DEF StartOf
        <4>2. t # r + 1 /\ t \in Nat
          BY <1>1, <2>2
        <4> QED
          BY <4>1, <4>2
      <3>6. s <= r + 1
        BY <1>1, <3>4
      <3>7. KeyCells(f.keys, s) = KeyCells(f.keys, r + 1)
        BY <3>1, <3>2, <3>4
      <3> QED
        BY <3>4, <3>5, <3>6, <3>7 DEF StartOf
    <2> QED
      BY <2>1, <2>2
  <1>4. \A r \in Nat : r \in S
    <2> HIDE DEF S
    <2> QED
      BY <1>2, <1>3, SetInduction
  <1> QED
    BY <1>1, <1>4

(* When equal keys are neighbours, no key starts twice. *)
LEMMA StartOnce ==
    ASSUME NEW f \in Inputs, PlainFrame(f), Contiguous(f)
    PROVE  \A r, s \in Starts(f) : KeyCells(f.keys, r) = KeyCells(f.keys, s) => r = s
  <1>1. NumRows(f) \in Nat /\ Starts(f) \subseteq Rows(f) /\ Rows(f) \subseteq Nat
    BY FrameFacts DEF Starts, Rows
  <1>2. ASSUME NEW r \in Starts(f), NEW s \in Starts(f),
               KeyCells(f.keys, r) = KeyCells(f.keys, s), r < s
        PROVE  FALSE
    <2> DEFINE q == s - 1
    <2>1. q \in Rows(f) /\ r <= q /\ q < s /\ s # 1 /\ r \in Rows(f) /\ s \in Rows(f)
      BY <1>1, <1>2 DEF Rows
    <2>2. KeyCells(f.keys, s) # KeyCells(f.keys, q)
      BY <2>1, StartFacts
    <2> HIDE DEF q
    <2>3. CASE r = q
      BY <1>2, <2>2, <2>3
    <2>4. CASE r # q
      <3>1. r < q
        BY <1>1, <2>1, <2>4
      <3>2. KeyCells(f.keys, q) = KeyCells(f.keys, r)
        BY <1>2, <2>1, <3>1 DEF Contiguous, Rows
      <3> QED
        BY <1>2, <2>2, <3>2
    <2> QED
      BY <2>3, <2>4
  <1>3. \A r, s \in Starts(f) : r = s \/ r < s \/ s < r
    BY <1>1
  <1> QED
    BY <1>2, <1>3

(* The runs are the groups of the keys. *)
LEMMA AlignedGroups ==
    ASSUME NEW f \in Inputs, PlainFrame(f), Contiguous(f)
    PROVE  Faithful(f, Aligned(f))
  <1> DEFINE K(r) == KeyCells(f.keys, r)
             ids == [r \in Rows(f) |-> K(r)]
             starts == Starts(f)
             first == InOrder(starts)
             n == Len(first)
             order == [g \in 1..n |-> K(first[g])]
             Run(g) == {r \in first[g]..NumRows(f) : \A s \in starts : s <= first[g] \/ r < s}
             gs == [g \in 1..n |-> InOrder(Run(g))]
  <1>1. NumRows(f) \in Nat /\ starts \subseteq Rows(f) /\ Rows(f) \subseteq Nat
        /\ Rows(f) = 1..NumRows(f)
    BY FrameFacts DEF Starts, Rows
  <1>2. starts \subseteq Int /\ IsFiniteSet(starts)
    <2>1. IsFiniteSet(Rows(f))
      BY <1>1, UpTo
    <2> QED
      BY <1>1, <2>1, FS_Subset
  <1>3. Aligned(f) = WithFirstKey(f.keys, gs)
    BY DEF Aligned, Starts
  <1> HIDE DEF starts
  <1>4. /\ first \in Seq(starts) /\ n \in Nat /\ \A i \in 1..n : first[i] \in starts
        /\ \A i, j \in 1..n : i < j => first[i] < first[j]
        /\ \A x \in starts : \E i \in 1..n : first[i] = x
    <2> HIDE DEF Run, gs, order, ids, K
    <2>1. Lists(TRUE, first, starts)
      BY <1>2, InOrderListed
    <2> HIDE DEF first
    <2>2. first \in Seq(starts)
      BY <2>1 DEF Lists
    <2>3. /\ \A i, j \in 1..n : i < j => first[i] < first[j]
          /\ \A x \in starts : \E i \in 1..n : first[i] = x
      BY <2>1 DEF Lists, Before
    <2> QED
      BY <2>2, <2>3
  <1> HIDE DEF first
  <1>5. \A r \in Rows(f) : ids[r] = K(r)
    OBVIOUS
  <1>6. Len(order) = n /\ \A i \in 1..n : order[i] = K(first[i])
    BY <1>4
  <1> HIDE DEF ids, order
  <1>7. IdsAgree(f, ids)
    BY <1>5 DEF IdsAgree
  <1>8. OrderOf(f, ids, order)
    <2>1. ASSUME NEW i \in 1..n, NEW j \in 1..n, order[i] = order[j]
          PROVE  i = j
      <3>1. first[i] \in starts /\ first[j] \in starts /\ K(first[i]) = K(first[j])
        BY <1>4, <1>6, <2>1
      <3>2. first[i] = first[j]
        BY <3>1, StartOnce DEF starts
      <3>3. first[i] \in Int /\ first[j] \in Int
        BY <1>2, <3>1
      <3>4. ~ (first[i] < first[j]) /\ ~ (first[j] < first[i])
        BY <3>2, <3>3
      <3>5. ~ (i < j) /\ ~ (j < i)
        BY <1>4, <3>4
      <3> QED
        BY <1>4, <3>5
    <2>2. ASSUME NEW i \in 1..n
          PROVE  \E r \in Rows(f) : ids[r] = order[i]
      <3>1. first[i] \in Rows(f)
        BY <1>1, <1>4
      <3> QED
        BY <1>5, <1>6, <3>1
    <2>3. ASSUME NEW r \in Rows(f)
          PROVE  \E i \in 1..n : order[i] = ids[r]
      <3>1. PICK s \in Rows(f) : StartOf(f, s, r)
        BY StartExists
      <3>2. s \in starts /\ K(s) = K(r)
        BY <3>1 DEF StartOf, starts
      <3>3. PICK i \in 1..n : first[i] = s
        BY <1>4, <3>2
      <3> QED
        BY <1>5, <1>6, <3>2, <3>3
    <2> QED
      BY <1>4, <1>6, <2>1, <2>2, <2>3 DEF OrderOf
  <1>9. ASSUME NEW i \in 1..n
        PROVE  Run(i) = RowsOfId(f, ids, order[i])
    <2> DEFINE o == first[i]
    <2>1. o \in starts /\ o \in Rows(f) /\ o \in Nat /\ order[i] = K(o)
      BY <1>1, <1>4, <1>6
    <2> HIDE DEF o
    <2>2. ASSUME NEW r, r \in Rows(f)
          PROVE  (o <= r /\ \A s \in starts : s <= o \/ r < s) <=> K(r) = K(o)
      <3>1. PICK s \in Rows(f) : StartOf(f, s, r)
        BY <2>2, StartExists
      <3>2. /\ s \in starts /\ s <= r /\ K(s) = K(r) /\ s \in Nat /\ r \in Nat
            /\ \A t \in starts : t <= s \/ r < t
        BY <1>1, <2>2, <3>1 DEF StartOf, starts
      <3>3. ASSUME o <= r, \A t \in starts : t <= o \/ r < t
            PROVE  K(r) = K(o)
        <4>1. s <= o
          BY <3>2, <3>3
        <4>2. o <= s
          BY <2>1, <3>2, <3>3
        <4>3. s = o
          BY <2>1, <3>2, <4>1, <4>2
        <4> QED
          BY <3>2, <4>3
      <3>4. ASSUME K(r) = K(o)
            PROVE  o <= r /\ \A t \in starts : t <= o \/ r < t
        <4>1. K(s) = K(o)
          BY <3>2, <3>4
        <4>2. s = o
          BY <2>1, <3>2, <4>1, StartOnce DEF starts
        <4> QED
          BY <3>2, <4>2
      <3> QED
        BY <3>3, <3>4
    <2>3. Run(i) = {r \in o..NumRows(f) : \A s \in starts : s <= o \/ r < s}
      BY DEF o
    <2>4. \A r : r \in o..NumRows(f) <=> r \in Rows(f) /\ o <= r
      BY <1>1, <2>1
    <2>5. \A r : r \in RowsOfId(f, ids, order[i]) <=> r \in Rows(f) /\ K(r) = K(o)
      BY <1>5, <2>1 DEF RowsOfId
    <2> HIDE DEF Run, K
    <2> QED
      BY <2>2, <2>3, <2>4, <2>5
  <1>10. gs = [i \in 1..Len(order) |-> InOrder(RowsOfId(f, ids, order[i]))]
    <2> HIDE DEF Run
    <2> QED
      BY <1>6, <1>9
  <1> HIDE DEF gs
  <1>11. GroupedBy(f, ids, order, WithFirstKey(f.keys, gs))
    BY <1>1, <1>8, <1>10, FirstKeyGroups
  <1> QED
    BY <1>3, <1>7, <1>8, <1>11, GroupedIsFaithful

(* The fast path groups by key. *)
LEMMA FastFaithful ==
    ASSUME NEW f \in Inputs, PlainFrame(f), NEW k, FastApplies(f, k)
    PROVE  Faithful(f, Fast(f))
  <1>1. CASE Texts(f.keys)
    <2> DEFINE ids == TextIds(f.keys[1].cells)
               order == Ascending(FALSE, {ids[r] : r \in Rows(f)})
    <2>1. /\ IdsAgree(f, ids) /\ OrderOf(f, ids, order)
          /\ GroupedBy(f, ids, order, FastText(f.keys[1].cells))
      BY <1>1, FastTextGroups
    <2> HIDE DEF ids, order
    <2>2. Faithful(f, FastText(f.keys[1].cells))
      BY <2>1, GroupedIsFaithful
    <2> QED
      BY <1>1, <2>2 DEF Fast
  <1>2. CASE ~Texts(f.keys)
    <2>1. Len(f.keys) = 1 /\ f.keys[1].type \in {"int", "float"}
      BY <1>2 DEF FastApplies, Texts
    <2>2. Faithful(f, FastNumber(f, f.keys[1].cells))
      BY <2>1, FastNumberGroups
    <2> QED
      BY <1>2, <2>2 DEF Fast
  <1> QED
    BY <1>1, <1>2

-----------------------------------------------------------------------------
(* One pass over the values of a group. *)

(* What holds of the empty sequence and of one more value holds of all. *)
LEMMA SeqInduct ==
    ASSUME NEW V, NEW S, <<>> \in S,
           \A vs \in Seq(V), v \in V : vs \in S => Append(vs, v) \in S
    PROVE  \A vs \in Seq(V) : vs \in S
  <1> DEFINE T == {l \in Nat : \A vs \in Seq(V) : Len(vs) = l => vs \in S}
  <1>1. 0 \in T
    <2>1. \A vs \in Seq(V) : Len(vs) = 0 => vs = <<>>
      OBVIOUS
    <2> QED
      BY <2>1
  <1>2. ASSUME NEW l \in Nat, l \in T
        PROVE  l + 1 \in T
    <2> SUFFICES ASSUME NEW vs \in Seq(V), Len(vs) = l + 1
                 PROVE  vs \in S
      OBVIOUS
    <2> DEFINE front == [i \in 1..l |-> vs[i]]
               v == vs[l + 1]
               all == Append(front, v)
    <2>1. v \in V /\ \A i \in 1..l : vs[i] \in V
      OBVIOUS
    <2>2. front \in Seq(V) /\ Len(front) = l /\ \A i \in 1..l : front[i] = vs[i]
      BY <2>1
    <2>3. front \in S
      BY <1>2, <2>2
    <2>4. /\ all \in Seq(V) /\ Len(all) = l + 1 /\ all[l + 1] = v
          /\ \A i \in 1..l : all[i] = front[i]
      <3> HIDE DEF front, v
      <3> QED
        BY <2>1, <2>2, AppendProperties
    <2>5. \A i \in 1..(l + 1) : i = l + 1 \/ i \in 1..l
      OBVIOUS
    <2> HIDE DEF front, all
    <2>6. \A i \in 1..(l + 1) : all[i] = vs[i]
      BY <2>2, <2>4, <2>5
    <2>7. all = vs
      BY <2>4, <2>6, SeqEqual
    <2> HIDE DEF v
    <2> QED
      BY <1>2, <2>1, <2>2, <2>3, <2>7 DEF all
  <1>3. \A l \in Nat : l \in T
    <2> HIDE DEF T
    <2> QED
      BY <1>1, <1>2, SetInduction
  <1> QED
    BY <1>3

PassType == [n : Nat, sum : Int, min : Int, max : Int, mean : Int, m2 : Int]

\* The least and the largest of the values.
Least(vs, x) == x \in Range(vs) /\ \A v \in Range(vs) : x <= v
Largest(vs, x) == x \in Range(vs) /\ \A v \in Range(vs) : x >= v

LEMMA RangeAppend ==
    ASSUME NEW V, NEW vs \in Seq(V), NEW v \in V
    PROVE  /\ Range(Append(vs, v)) = Range(vs) \cup {v} /\ Range(vs) \subseteq V
           /\ Range(<<>>) = {} /\ (Len(vs) = 0 => Range(vs) = {})
  <1> DEFINE more == Append(vs, v)
  <1>1. /\ more \in Seq(V) /\ Len(more) = Len(vs) + 1 /\ more[Len(vs) + 1] = v
        /\ \A i \in 1..Len(vs) : more[i] = vs[i]
    OBVIOUS
  <1>2. /\ \A x : x \in Range(vs) <=> \E i \in 1..Len(vs) : x = vs[i]
        /\ \A x : x \in Range(more) <=> \E i \in 1..(Len(vs) + 1) : x = more[i]
    <2>1. DOMAIN vs = 1..Len(vs) /\ DOMAIN more = 1..(Len(vs) + 1)
      BY <1>1
    <2> HIDE DEF more
    <2> QED
      BY <2>1 DEF Range
  <1>3. \A i \in 1..(Len(vs) + 1) : i = Len(vs) + 1 \/ i \in 1..Len(vs)
    OBVIOUS
  <1>4. \A i \in 1..Len(vs) : i \in 1..(Len(vs) + 1)
    OBVIOUS
  <1>5. Len(vs) + 1 \in 1..(Len(vs) + 1)
    OBVIOUS
  <1> HIDE DEF more
  <1>6. Range(more) = Range(vs) \cup {v}
    <2>1. ASSUME NEW x
          PROVE  x \in Range(more) <=> x \in Range(vs) \/ x = v
      <3>1. x \in Range(more) => x \in Range(vs) \/ x = v
        BY <1>1, <1>2, <1>3
      <3>2. x \in Range(vs) => x \in Range(more)
        BY <1>1, <1>2, <1>4
      <3>3. x = v => x \in Range(more)
        BY <1>1, <1>2, <1>5
      <3> QED
        BY <3>1, <3>2, <3>3
    <2> QED
      BY <2>1
  <1>7. Range(vs) \subseteq V
    BY <1>2
  <1>8. Range(<<>>) = {}
    BY DEF Range
  <1>9. Len(vs) = 0 => Range(vs) = {}
    BY <1>2
  <1> QED
    BY <1>6, <1>7, <1>8, <1>9 DEF more

LEMMA DivInt ==
    ASSUME NEW a \in Int, NEW b \in Nat \ {0}
    PROVE  a \div b \in Int
  OBVIOUS

Passed(vs) == /\ OnePass(vs) \in PassType
              /\ OnePass(vs).n = Len(vs)
              /\ OnePass(vs).sum = Total(vs)
              /\ Len(vs) # 0 => Least(vs, OnePass(vs).min) /\ Largest(vs, OnePass(vs).max)

(* What the pass holds at its end. *)
LEMMA PassFacts ==
    \A vs \in Seq(Int) : Passed(vs)
  <1> DEFINE S == {vs \in Seq(Int) : Passed(vs)}
  <1>1. <<>> \in S
    <2>1. <<>> \in Seq(Int) /\ Len(<<>>) = 0 /\ 0 \in Int
      OBVIOUS
    <2>2. OnePass(<<>>) = NothingPassed /\ Total(<<>>) = 0
      BY <2>1, OnePassAppend, TotalAppend
    <2> QED
      BY <2>1, <2>2 DEF Passed, NothingPassed, PassType
  <1>2. ASSUME NEW vs \in Seq(Int), NEW v \in Int, vs \in S
        PROVE  Append(vs, v) \in S
    <2> DEFINE more == Append(vs, v)
               a == OnePass(vs)
               b == OnePass(more)
    <2>1. /\ more \in Seq(Int) /\ Len(more) = Len(vs) + 1 /\ Len(vs) \in Nat
          /\ Range(more) = Range(vs) \cup {v} /\ Range(vs) \subseteq Int
          /\ (Len(vs) = 0 => Range(vs) = {})
      BY RangeAppend
    <2>2. b = PassOver(a, v) /\ Total(more) = Total(vs) + v
      BY OnePassAppend, TotalAppend
    <2>3. a \in PassType /\ a.n = Len(vs) /\ a.sum = Total(vs)
          /\ (Len(vs) # 0 => Least(vs, a.min) /\ Largest(vs, a.max))
      BY <1>2 DEF Passed
    <2> HIDE DEF a, b, more
    <2> DEFINE n == a.n + 1
               delta == Unit * v - a.mean
               q == delta \div n
               mean == a.mean + q
               m2 == a.m2 + delta * (Unit * v - mean)
    <2>4. n \in Nat \ {0} /\ delta \in Int
      BY <2>3, UnitAssumption DEF PassType
    <2>5. q \in Int
      <3> HIDE DEF n, delta
      <3> QED
        BY <2>4, DivInt
    <2>6. mean \in Int /\ m2 \in Int
      <3> HIDE DEF q
      <3> QED
        BY <2>3, <2>5, UnitAssumption DEF PassType
    <2>7. b = [n |-> n, sum |-> a.sum + v,
               min |-> IF a.n = 0 \/ v < a.min THEN v ELSE a.min,
               max |-> IF a.n = 0 \/ v > a.max THEN v ELSE a.max,
               mean |-> mean, m2 |-> m2]
      BY <2>2 DEF PassOver
    <2> HIDE DEF n, mean, m2
    <2>8. b \in PassType /\ b.n = n /\ b.sum = a.sum + v
      BY <2>3, <2>4, <2>6, <2>7 DEF PassType
    <2>9. b.n = Len(more) /\ b.sum = Total(more)
      BY <2>1, <2>2, <2>3, <2>8 DEF n
    <2>10. /\ b.min = IF a.n = 0 \/ v < a.min THEN v ELSE a.min
           /\ b.max = IF a.n = 0 \/ v > a.max THEN v ELSE a.max
      BY <2>7
    <2>11. a.min \in Int /\ a.max \in Int
      BY <2>3 DEF PassType
    <2>12. Least(more, b.min)
      BY <2>1, <2>3, <2>10, <2>11 DEF Least
    <2>13. Largest(more, b.max)
      BY <2>1, <2>3, <2>10, <2>11 DEF Largest
    <2>14. Passed(more)
      BY <2>8, <2>9, <2>12, <2>13 DEF Passed, b
    <2> QED
      BY <2>1, <2>14 DEF more
  <1>3. \A vs \in Seq(Int) : vs \in S
    <2> HIDE DEF S
    <2> QED
      BY <1>1, <1>2, SeqInduct
  <1> QED
    BY <1>3

-----------------------------------------------------------------------------
(* Counting. *)

\* How many of vs are in T.
Count(vs, T) == Cardinality({i \in 1..Len(vs) : vs[i] \in T})

LEMMA CountAppend ==
    ASSUME NEW V, NEW vs \in Seq(V), NEW v \in V, NEW T
    PROVE  /\ Count(vs, T) \in Nat /\ (Len(vs) = 0 => Count(vs, T) = 0)
           /\ Count(Append(vs, v), T) = IF v \in T THEN Count(vs, T) + 1 ELSE Count(vs, T)
  <1> DEFINE more == Append(vs, v)
             n == Len(vs)
             H == {i \in 1..n : vs[i] \in T}
             G == {i \in 1..Len(more) : more[i] \in T}
  <1>1. /\ Len(more) = n + 1 /\ more[n + 1] = v /\ n \in Nat
        /\ \A i \in 1..n : more[i] = vs[i]
    BY AppendProperties
  <1>2. IsFiniteSet(1..n)
    <2> HIDE DEF n
    <2> QED
      BY <1>1, UpTo
  <1>3. IsFiniteSet(H) /\ Cardinality(H) \in Nat
    BY <1>2, FS_Subset, FS_CardinalityType
  <1>4. n = 0 => H = {}
    OBVIOUS
  <1>5. n + 1 \notin H
    BY <1>1
  <1>6. CASE v \in T
    <2>1. G = H \cup {n + 1}
      <3>1. \A i : i \in 1..(n + 1) <=> i \in 1..n \/ i = n + 1
        BY <1>1
      <3> HIDE DEF more, n
      <3> QED
        BY <1>1, <1>6, <3>1
    <2> HIDE DEF H, G, n
    <2>2. Cardinality(G) = Cardinality(H) + 1
      BY <1>3, <1>5, <2>1, FS_AddElement
    <2> QED
      BY <1>3, <1>4, <1>6, <2>2, FS_EmptySet DEF Count, H, G, n
  <1>7. CASE v \notin T
    <2>1. G = H
      <3>1. \A i : i \in 1..(n + 1) <=> i \in 1..n \/ i = n + 1
        BY <1>1
      <3> HIDE DEF more, n
      <3> QED
        BY <1>1, <1>7, <3>1
    <2> HIDE DEF H, G, n
    <2> QED
      BY <1>3, <1>4, <1>7, <2>1, FS_EmptySet DEF Count, H, G, n
  <1> QED
    BY <1>6, <1>7

-----------------------------------------------------------------------------
(* The tallies of nunique and mode. *)

WithKey(type, V, key) == {v \in V : CellKey(type, <<v>>) = key}
KeysOf(type, V) == {CellKey(type, <<v>>) : v \in V}

\* p finds, for every distinct key, the value that came first.
FirstOnes(type, a, vs, p) ==
    /\ \A i \in 1..Len(a.firsts) :
          /\ p[i] \in 1..Len(vs) /\ a.values[i] = vs[p[i]]
          /\ a.firsts[i] = CellKey(type, <<vs[p[i]]>>)
    /\ \A i, j \in 1..Len(a.firsts) : i < j => p[i] < p[j]
    /\ \A j \in 1..Len(vs) : \E i \in 1..Len(a.firsts) :
          a.firsts[i] = CellKey(type, <<vs[j]>>) /\ p[i] <= j

\* a has counted the values of vs.
Tallied(type, V, a, vs) ==
    /\ Len(a.counts) = Len(a.firsts) /\ Len(a.values) = Len(a.firsts)
    /\ Distinct(a.firsts)
    /\ \A i \in 1..Len(a.firsts) : a.counts[i] = Count(vs, WithKey(type, V, a.firsts[i]))
    /\ \E p : FirstOnes(type, a, vs, p)

\* An accumulator of values of V.
AccType(type, V) == [n : Nat, sum : Int, seen : BOOLEAN, value : CellsOf(V), mean : Int,
                     m2 : Int, values : Seq(V), firsts : Seq(KeysOf(type, V)),
                     counts : Seq(Nat)]

(* A value already seen is counted once more. *)
LEMMA TallySeen ==
    ASSUME NEW type, NEW V, NEW a \in AccType(type, V), NEW vs \in Seq(V), NEW v \in V,
           Tallied(type, V, a, vs),
           \E i \in 1..Len(a.firsts) : a.firsts[i] = CellKey(type, <<v>>)
    PROVE  /\ Counted(a, type, v) \in AccType(type, V)
           /\ Tallied(type, V, Counted(a, type, v), Append(vs, v))
  <1> DEFINE key == CellKey(type, <<v>>)
             w == CHOOSE i \in 1..Len(a.firsts) : a.firsts[i] = key
             b == [a EXCEPT !.counts[w] = @ + 1]
             more == Append(vs, v)
             m == Len(a.firsts)
  <1>1. w \in 1..m /\ a.firsts[w] = key
    OBVIOUS
  <1>2. Counted(a, type, v) = b
    BY DEF Counted
  <1>3. a.firsts \in Seq(KeysOf(type, V)) /\ a.counts \in Seq(Nat) /\ a.values \in Seq(V)
    BY DEF AccType
  <1>4. m \in Nat /\ Len(a.counts) = m /\ Len(a.values) = m /\ Distinct(a.firsts)
    BY <1>3 DEF Tallied
  <1> HIDE DEF w
  <1>5. b = [a EXCEPT !.counts = [a.counts EXCEPT ![w] = a.counts[w] + 1]]
    BY DEF AccType
  <1> DEFINE c == [a.counts EXCEPT ![w] = a.counts[w] + 1]
  <1>6. c \in Seq(Nat) /\ Len(c) = m /\ \A i \in 1..m : c[i] = IF i = w THEN a.counts[w] + 1 ELSE a.counts[i]
    <2>1. \A i \in 1..m : a.counts[i] \in Nat
      BY <1>3, <1>4
    <2>2. c = [i \in 1..m |-> IF i = w THEN a.counts[w] + 1 ELSE a.counts[i]]
      <3>1. DOMAIN a.counts = 1..m
        BY <1>3, <1>4, LenProperties
      <3>2. c = [i \in DOMAIN a.counts |-> IF i = w THEN a.counts[w] + 1 ELSE a.counts[i]]
        OBVIOUS
      <3> HIDE DEF c
      <3> QED
        BY <3>1, <3>2
    <2> HIDE DEF c, m
    <2> QED
      BY <1>1, <1>4, <2>1, <2>2
  <1> HIDE DEF c
  <1>7. b \in AccType(type, V)
    BY <1>5, <1>6 DEF AccType, c
  <1>8. b.firsts = a.firsts /\ b.values = a.values /\ b.counts = c
    BY <1>5 DEF AccType, c
  <1> HIDE DEF b
  <1>9. /\ more \in Seq(V) /\ Len(more) = Len(vs) + 1 /\ more[Len(vs) + 1] = v /\ Len(vs) \in Nat
        /\ \A i \in 1..Len(vs) : more[i] = vs[i]
    BY AppendProperties
  <1>10. \A i \in 1..m : b.counts[i] = Count(more, WithKey(type, V, b.firsts[i]))
    <2> SUFFICES ASSUME NEW i \in 1..m
                 PROVE  c[i] = Count(more, WithKey(type, V, a.firsts[i]))
      BY <1>8
    <2> DEFINE T == WithKey(type, V, a.firsts[i])
    <2>1. a.counts[i] = Count(vs, T)
      BY DEF Tallied
    <2>2. v \in T <=> i = w
      <3>1. v \in T <=> key = a.firsts[i]
        BY DEF WithKey
      <3>2. a.firsts[i] = a.firsts[w] => i = w
        BY <1>1, <1>4 DEF Distinct
      <3> QED
        BY <1>1, <3>1, <3>2
    <2> HIDE DEF T
    <2>3. Count(more, T) = IF v \in T THEN Count(vs, T) + 1 ELSE Count(vs, T)
      BY CountAppend
    <2> QED
      BY <1>6, <2>1, <2>2, <2>3 DEF T
  <1>11. PICK p : FirstOnes(type, a, vs, p)
    BY DEF Tallied
  <1> HIDE DEF more, key
  <1>12. FirstOnes(type, b, more, p)
    <2>1. \A i \in 1..m : /\ p[i] \in 1..Len(vs) /\ p[i] \in 1..Len(more)
                          /\ a.values[i] = vs[p[i]] /\ more[p[i]] = vs[p[i]]
                          /\ a.firsts[i] = CellKey(type, <<vs[p[i]]>>)
      BY <1>9, <1>11 DEF FirstOnes
    <2>2. ASSUME NEW j \in 1..Len(more)
          PROVE  \E i \in 1..m : a.firsts[i] = CellKey(type, <<more[j]>>) /\ p[i] <= j
      <3>1. CASE j \in 1..Len(vs)
        BY <1>9, <1>11, <3>1 DEF FirstOnes
      <3>2. CASE j = Len(vs) + 1
        <4>1. more[j] = v /\ a.firsts[w] = CellKey(type, <<more[j]>>)
          BY <1>1, <1>9, <3>2 DEF key
        <4>2. p[w] \in 1..Len(vs)
          BY <1>1, <2>1
        <4>3. p[w] <= j
          BY <1>9, <3>2, <4>2
        <4> QED
          BY <1>1, <4>1, <4>3
      <3> QED
        BY <1>9, <3>1, <3>2
    <2>3. \A i, j \in 1..m : i < j => p[i] < p[j]
      BY <1>11 DEF FirstOnes
    <2> QED
      BY <1>8, <2>1, <2>2, <2>3 DEF FirstOnes
  <1> QED
    BY <1>2, <1>4, <1>6, <1>7, <1>8, <1>10, <1>12 DEF Tallied, more

(* A new value is counted from one. *)
LEMMA TallyNew ==
    ASSUME NEW type, NEW V, NEW a \in AccType(type, V), NEW vs \in Seq(V), NEW v \in V,
           Tallied(type, V, a, vs),
           ~ \E i \in 1..Len(a.firsts) : a.firsts[i] = CellKey(type, <<v>>)
    PROVE  /\ Counted(a, type, v) \in AccType(type, V)
           /\ Tallied(type, V, Counted(a, type, v), Append(vs, v))
  <1> DEFINE key == CellKey(type, <<v>>)
             b == [a EXCEPT !.firsts = Append(@, key), !.counts = Append(@, 1),
                            !.values = Append(@, v)]
             more == Append(vs, v)
             m == Len(a.firsts)
  <1>1. Counted(a, type, v) = b
    BY DEF Counted
  <1>2. a.firsts \in Seq(KeysOf(type, V)) /\ a.counts \in Seq(Nat) /\ a.values \in Seq(V)
    BY DEF AccType
  <1>3. m \in Nat /\ Len(a.counts) = m /\ Len(a.values) = m /\ Distinct(a.firsts)
    BY <1>2 DEF Tallied
  <1>4. key \in KeysOf(type, V)
    BY DEF KeysOf
  <1> DEFINE F == Append(a.firsts, key)
             C == Append(a.counts, 1)
             W == Append(a.values, v)
  <1> HIDE DEF key
  <1>5. /\ F \in Seq(KeysOf(type, V)) /\ Len(F) = m + 1 /\ F[m + 1] = key
        /\ \A i \in 1..m : F[i] = a.firsts[i]
    BY <1>2, <1>3, <1>4, AppendProperties
  <1>6. /\ C \in Seq(Nat) /\ Len(C) = m + 1 /\ C[m + 1] = 1
        /\ \A i \in 1..m : C[i] = a.counts[i]
    BY <1>2, <1>3, AppendProperties
  <1>7. /\ W \in Seq(V) /\ Len(W) = m + 1 /\ W[m + 1] = v
        /\ \A i \in 1..m : W[i] = a.values[i]
    <2>1. a.values \in Seq(V) /\ v \in V /\ Len(a.values) = m
      BY <1>2, <1>3
    <2> HIDE DEF m
    <2> QED
      BY <2>1, AppendProperties
  <1>8. b = [a EXCEPT !.firsts = F, !.counts = C, !.values = W]
    OBVIOUS
  <1> HIDE DEF b, F, C, W
  <1>9. b \in AccType(type, V) /\ b.firsts = F /\ b.counts = C /\ b.values = W
    BY <1>5, <1>6, <1>7, <1>8 DEF AccType
  <1>10. /\ more \in Seq(V) /\ Len(more) = Len(vs) + 1 /\ more[Len(vs) + 1] = v /\ Len(vs) \in Nat
         /\ \A i \in 1..Len(vs) : more[i] = vs[i]
    BY AppendProperties
  <1>11. PICK p : FirstOnes(type, a, vs, p)
    BY DEF Tallied
  <1>12. \A i \in 1..m : a.firsts[i] # key
    BY DEF key
  <1> HIDE DEF more, m
  <1>13. \A i \in 1..(m + 1) : i \in 1..m \/ i = m + 1
    BY <1>3
  <1>14. \A i \in 1..(m + 1) : b.counts[i] = Count(more, WithKey(type, V, b.firsts[i]))
    <2>1. ASSUME NEW i \in 1..m
          PROVE  C[i] = Count(more, WithKey(type, V, F[i]))
      <3> DEFINE T == WithKey(type, V, a.firsts[i])
      <3>1. a.counts[i] = Count(vs, T)
        BY DEF Tallied, m
      <3>2. v \notin T
        BY <1>12 DEF WithKey, key
      <3> HIDE DEF T
      <3>3. Count(more, T) = IF v \in T THEN Count(vs, T) + 1 ELSE Count(vs, T)
        BY CountAppend DEF more
      <3> QED
        BY <1>5, <1>6, <3>1, <3>2, <3>3 DEF T
    <2>2. C[m + 1] = Count(more, WithKey(type, V, key))
      <3> DEFINE T == WithKey(type, V, key)
      <3>1. v \in T
        BY DEF WithKey, key
      <3>2. ASSUME NEW j \in 1..Len(vs)
            PROVE  vs[j] \notin T
        <4>1. PICK i \in 1..m : a.firsts[i] = CellKey(type, <<vs[j]>>)
          BY <1>11 DEF FirstOnes, m
        <4> QED
          BY <1>12, <4>1 DEF WithKey
      <3> HIDE DEF T
      <3>3. Count(vs, T) = 0
        <4>1. {j \in 1..Len(vs) : vs[j] \in T} = {}
          BY <3>2
        <4> QED
          BY <4>1, FS_EmptySet DEF Count
      <3>4. Count(more, T) = IF v \in T THEN Count(vs, T) + 1 ELSE Count(vs, T)
        BY CountAppend DEF more
      <3> QED
        BY <1>6, <3>1, <3>3, <3>4 DEF T
    <2> QED
      BY <1>5, <1>9, <1>13, <2>1, <2>2
  <1>15. Distinct(F)
    <2> SUFFICES ASSUME NEW i \in 1..(m + 1), NEW j \in 1..(m + 1), F[i] = F[j]
                 PROVE  i = j
      BY <1>5 DEF Distinct
    <2>1. CASE i \in 1..m /\ j \in 1..m
      <3>1. a.firsts[i] = a.firsts[j]
        BY <1>5, <2>1
      <3> QED
        BY <1>3, <2>1, <3>1 DEF Distinct, m
    <2>2. CASE i \in 1..m /\ j = m + 1
      BY <1>5, <1>12, <2>2
    <2>3. CASE i = m + 1 /\ j \in 1..m
      BY <1>5, <1>12, <2>3
    <2> QED
      BY <1>13, <2>1, <2>2, <2>3
  <1> DEFINE q == [i \in 1..(m + 1) |-> IF i = m + 1 THEN Len(vs) + 1 ELSE p[i]]
  <1>16. q[m + 1] = Len(vs) + 1 /\ \A i \in 1..m : q[i] = p[i]
    BY <1>3
  <1> HIDE DEF q
  <1>17. FirstOnes(type, b, more, q)
    <2>1. \A i \in 1..m : /\ p[i] \in 1..Len(vs)
                          /\ a.values[i] = vs[p[i]]
                          /\ a.firsts[i] = CellKey(type, <<vs[p[i]]>>)
      BY <1>11 DEF FirstOnes, m
    <2>2. \A i \in 1..m : /\ q[i] \in 1..Len(more) /\ W[i] = more[q[i]]
                          /\ F[i] = CellKey(type, <<more[q[i]]>>)
      <3> TAKE i \in 1..m
      <3>1. q[i] = p[i] /\ p[i] \in 1..Len(vs) /\ more[p[i]] = vs[p[i]]
        BY <1>10, <1>16, <2>1
      <3>2. q[i] \in 1..Len(more)
        BY <1>10, <3>1
      <3>3. F[i] = a.firsts[i] /\ W[i] = a.values[i]
        BY <1>5, <1>7
      <3> QED
        BY <2>1, <3>1, <3>2, <3>3
    <2>3. /\ q[m + 1] \in 1..Len(more) /\ W[m + 1] = more[q[m + 1]]
          /\ F[m + 1] = CellKey(type, <<more[q[m + 1]]>>)
      BY <1>5, <1>7, <1>10, <1>16 DEF key
    <2>4. \A i, j \in 1..(m + 1) : i < j => q[i] < q[j]
      <3> SUFFICES ASSUME NEW i \in 1..(m + 1), NEW j \in 1..(m + 1), i < j
                   PROVE  q[i] < q[j]
        OBVIOUS
      <3>1. i \in 1..m
        BY <1>3
      <3>2. CASE j \in 1..m
        BY <1>11, <1>16, <3>1, <3>2 DEF FirstOnes, m
      <3>3. CASE j = m + 1
        <4>1. p[i] \in 1..Len(vs)
          BY <2>1, <3>1
        <4>2. p[i] < Len(vs) + 1
          BY <1>10, <4>1
        <4> QED
          BY <1>16, <3>1, <3>3, <4>2
      <3> QED
        BY <1>13, <3>2, <3>3
    <2>5. ASSUME NEW j \in 1..Len(more)
          PROVE  \E i \in 1..(m + 1) : F[i] = CellKey(type, <<more[j]>>) /\ q[i] <= j
      <3>1. CASE j \in 1..Len(vs)
        <4>1. PICK i \in 1..m : a.firsts[i] = CellKey(type, <<vs[j]>>) /\ p[i] <= j
          BY <1>11, <3>1 DEF FirstOnes, m
        <4>2. i \in 1..(m + 1)
          BY <1>3
        <4> QED
          BY <1>5, <1>10, <1>16, <3>1, <4>1, <4>2
      <3>2. CASE j = Len(vs) + 1
        <4>1. m + 1 \in 1..(m + 1) /\ F[m + 1] = CellKey(type, <<more[j]>>)
          BY <1>3, <1>5, <1>10, <3>2 DEF key
        <4>2. q[m + 1] <= j
          BY <1>10, <1>16, <3>2
        <4> QED
          BY <4>1, <4>2
      <3> QED
        BY <1>10, <3>1, <3>2
    <2>6. \A i \in 1..(m + 1) : /\ q[i] \in 1..Len(more) /\ W[i] = more[q[i]]
                                /\ F[i] = CellKey(type, <<more[q[i]]>>)
      BY <1>13, <2>2, <2>3
    <2> QED
      BY <1>5, <1>9, <2>4, <2>5, <2>6 DEF FirstOnes
  <1> QED
    BY <1>1, <1>5, <1>6, <1>7, <1>9, <1>14, <1>15, <1>17 DEF Tallied, more

-----------------------------------------------------------------------------
(* The accumulators. *)

\* a is the accumulator of k after size cells, whose values are vs.
Kept(k, type, V, a, size, vs) ==
    /\ a \in AccType(type, V)
    /\ k = "star" => a.n = size
    /\ k = "count" => a.n = Len(vs)
    /\ k = "sum" => a.sum = Total(vs) /\ (a.seen <=> Len(vs) # 0)
    /\ k = "mean" => a.sum = Total(vs) /\ a.n = Len(vs)
    /\ k \in {"min", "max", "first", "last"} =>
          (a.seen <=> Len(vs) # 0) /\ (Len(vs) = 0 => a.value = Null)
    /\ (k = "min" /\ Len(vs) # 0) => a.value = <<OnePass(vs).min>>
    /\ (k = "max" /\ Len(vs) # 0) => a.value = <<OnePass(vs).max>>
    /\ (k = "first" /\ Len(vs) # 0) => a.value = <<vs[1]>>
    /\ (k = "last" /\ Len(vs) # 0) => a.value = <<vs[Len(vs)]>>
    /\ k = "var" => a.n = OnePass(vs).n /\ a.mean = OnePass(vs).mean /\ a.m2 = OnePass(vs).m2
    /\ k = "median" => a.values = vs
    /\ k \in {"nunique", "mode"} => Tallied(type, V, a, vs)

LEMMA KeptNew ==
    ASSUME NEW k, NEW type, NEW V
    PROVE  Kept(k, type, V, NewAccumulator, 0, <<>>)
  <1> DEFINE a == NewAccumulator
             none == <<>>
  <1>1. \A S : none \in Seq(S) /\ Len(none) = 0
    OBVIOUS
  <1>2. a = [n |-> 0, sum |-> 0, seen |-> FALSE, value |-> Null, mean |-> 0,
             m2 |-> 0, values |-> none, firsts |-> none, counts |-> none]
    BY DEF NewAccumulator
  <1> HIDE DEF a, none
  <1>3. /\ a.n = 0 /\ a.sum = 0 /\ a.seen = FALSE /\ a.value = Null /\ a.mean = 0
        /\ a.m2 = 0 /\ a.values = none /\ a.firsts = none /\ a.counts = none
    BY <1>2
  <1>4. a \in AccType(type, V)
    BY <1>1, <1>2 DEF AccType, CellsOf
  <1>5. Total(none) = 0 /\ OnePass(none) = NothingPassed
    <2>1. none \in Seq(Int) /\ 0 \in Int
      BY <1>1
    <2> QED
      BY <2>1, TotalAppend, OnePassAppend DEF none
  <1>6. Tallied(type, V, a, none)
    <2>1. \A p : FirstOnes(type, a, none, p)
      BY <1>1, <1>3 DEF FirstOnes
    <2> QED
      BY <1>1, <1>3, <2>1 DEF Tallied, Distinct
  <1>7. OnePass(none).n = 0 /\ OnePass(none).mean = 0 /\ OnePass(none).m2 = 0
    BY <1>5 DEF NothingPassed
  <1>8. Kept(k, type, V, a, 0, none)
    BY <1>1, <1>3, <1>4, <1>5, <1>6, <1>7 DEF Kept
  <1> QED
    BY <1>8 DEF a, none

LEMMA NumericValues ==
    ASSUME NEW type \in Numeric
    PROVE  Values(type) \subseteq Int
  BY DEF Numeric, Values, Shorts

LEMMA UpdateIs ==
    ASSUME NEW k \in Kinds, NEW type, NEW a, NEW cell, cell # Null
    PROVE  /\ k \in {"star", "count"} => Update(k, type, a, cell) = CountAcc(a)
           /\ k = "sum" => Update(k, type, a, cell) = SumAcc(a, cell[1])
           /\ k = "mean" => Update(k, type, a, cell) = MeanAcc(a, cell[1])
           /\ k \in {"min", "max"} => Update(k, type, a, cell) = MinMaxAcc(k, a, cell[1])
           /\ k \in {"first", "last"} => Update(k, type, a, cell) = FirstLastAcc(k, a, cell[1])
           /\ k = "var" => Update(k, type, a, cell) = Welford(a, cell[1])
           /\ k = "median" => Update(k, type, a, cell) = MedianAcc(a, cell[1])
           /\ k \in {"nunique", "mode"} => Update(k, type, a, cell) = Counted(a, type, cell[1])
  BY DEF Update

LEMMA KindsAre ==
    ASSUME NEW k \in Kinds
    PROVE  \/ k \in {"star", "count"} \/ k = "sum" \/ k = "mean" \/ k \in {"min", "max"}
           \/ k \in {"first", "last"} \/ k = "var" \/ k = "median" \/ k \in {"nunique", "mode"}
  BY DEF Kinds

(* The extreme an accumulator keeps. *)
LEMMA ExtremeKeeps ==
    ASSUME NEW type, NEW V, NEW a \in AccType(type, V), NEW v \in V, NEW replaces \in BOOLEAN
    PROVE  /\ Extreme(a, v, replaces) \in AccType(type, V)
           /\ Extreme(a, v, replaces).seen
           /\ Extreme(a, v, replaces).value = IF ~a.seen \/ replaces THEN <<v>> ELSE a.value
  <1> DEFINE b == [a EXCEPT !.value = <<v>>, !.seen = TRUE]
  <1>1. <<v>> \in CellsOf(V)
    BY DEF CellsOf
  <1>2. b \in AccType(type, V)
    BY <1>1 DEF AccType
  <1>3. b.value = <<v>> /\ b.seen = TRUE
    BY DEF AccType
  <1>4. CASE ~a.seen \/ replaces
    BY <1>2, <1>3, <1>4 DEF Extreme
  <1>5. CASE ~(~a.seen \/ replaces)
    BY <1>5 DEF Extreme
  <1> QED
    BY <1>4, <1>5

(* The accumulators that count and add. *)
LEMMA CountKeeps ==
    ASSUME NEW type, NEW V, NEW a \in AccType(type, V)
    PROVE  CountAcc(a) \in AccType(type, V) /\ CountAcc(a).n = a.n + 1
  <1> DEFINE m == a.n + 1
             b == [a EXCEPT !.n = m]
  <1>1. m \in Nat
    BY DEF AccType
  <1>2. CountAcc(a) = b
    BY DEF CountAcc
  <1> HIDE DEF m
  <1>3. b \in AccType(type, V) /\ b.n = m
    BY <1>1 DEF AccType
  <1> QED
    BY <1>2, <1>3 DEF m

LEMMA SumKeeps ==
    ASSUME NEW type, NEW V, NEW a \in AccType(type, V), NEW v \in Int
    PROVE  /\ SumAcc(a, v) \in AccType(type, V)
           /\ SumAcc(a, v).sum = a.sum + v /\ SumAcc(a, v).seen
  <1> DEFINE s == a.sum + v
             b == [a EXCEPT !.sum = s, !.seen = TRUE]
  <1>1. s \in Int
    BY DEF AccType
  <1>2. SumAcc(a, v) = b
    BY DEF SumAcc
  <1> HIDE DEF s
  <1>3. b \in AccType(type, V) /\ b.sum = s /\ b.seen = TRUE
    BY <1>1 DEF AccType
  <1> QED
    BY <1>2, <1>3 DEF s

LEMMA MeanKeeps ==
    ASSUME NEW type, NEW V, NEW a \in AccType(type, V), NEW v \in Int
    PROVE  /\ MeanAcc(a, v) \in AccType(type, V)
           /\ MeanAcc(a, v).sum = a.sum + v /\ MeanAcc(a, v).n = a.n + 1
  <1> DEFINE s == a.sum + v
             m == a.n + 1
             b == [a EXCEPT !.sum = s, !.n = m]
  <1>1. s \in Int /\ m \in Nat
    BY DEF AccType
  <1>2. MeanAcc(a, v) = b
    BY DEF MeanAcc
  <1> HIDE DEF s, m
  <1>3. b \in AccType(type, V) /\ b.sum = s /\ b.n = m
    BY <1>1 DEF AccType
  <1> QED
    BY <1>2, <1>3 DEF s, m

(* A value updates the accumulator as it extends the values. *)
LEMMA KeptValue ==
    ASSUME NEW k \in Kinds, NEW type, NEW size \in Nat, NEW vs \in Seq(Values(type)),
           NEW a, Kept(k, type, Values(type), a, size, vs),
           NEW cell, cell # Null, cell[1] \in Values(type), ~UpdateFails(k, type, cell)
    PROVE  Kept(k, type, Values(type), Update(k, type, a, cell), size + 1, Append(vs, cell[1]))
  <1> DEFINE V == Values(type)
             v == cell[1]
             b == Update(k, type, a, cell)
             more == Append(vs, v)
             n == Len(vs)
  <1> SUFFICES Kept(k, type, V, b, size + 1, more)
    OBVIOUS
  <1>1. a \in AccType(type, V) /\ v \in V /\ vs \in Seq(V)
    BY DEF Kept
  <1>2. k \in Summed => V \subseteq Int
    BY NumericValues DEF UpdateFails
  <1>3. Kept(k, type, V, a, size, vs)
    OBVIOUS
  <1> HIDE DEF V, v, b
  <1>4. /\ more \in Seq(V) /\ Len(more) = n + 1 /\ more[n + 1] = v /\ n \in Nat
        /\ \A i \in 1..n : more[i] = vs[i]
    BY <1>1, AppendProperties
  <1>5. more[1] = IF n = 0 THEN v ELSE vs[1]
    BY <1>4
  <1> HIDE DEF more, n
  <1>6. Len(vs) = n
    BY DEF n
  <1>7. CASE k \in {"star", "count"}
    <2>1. b = CountAcc(a)
      BY <1>7, UpdateIs DEF b
    <2>2. b \in AccType(type, V) /\ b.n = a.n + 1
      BY <1>1, <2>1, CountKeeps
    <2> QED
      BY <1>3, <1>4, <1>6, <1>7, <2>2 DEF Kept
  <1>8. CASE k \in Summed
    <2>1. V \subseteq Int /\ vs \in Seq(Int) /\ v \in Int
      BY <1>1, <1>2, <1>8
    <2>2. Total(more) = Total(vs) + v /\ OnePass(more) = PassOver(OnePass(vs), v)
      BY <2>1, TotalAppend, OnePassAppend DEF more
    <2> DEFINE p == OnePass(vs)
    <2>3. /\ p \in PassType /\ p.n = n /\ p.sum = Total(vs) /\ Total(vs) \in Int
      BY <2>1, PassFacts DEF Passed, PassType, n
    <2> HIDE DEF p
    <2>4. CASE k = "sum"
      <3>1. b = SumAcc(a, v)
        BY <2>4, UpdateIs DEF b, v
      <3>2. b \in AccType(type, V) /\ b.sum = a.sum + v /\ b.seen
        BY <1>1, <2>1, <3>1, SumKeeps
      <3>3. a.sum = Total(vs)
        BY <1>3, <2>4 DEF Kept
      <3> QED
        BY <1>4, <2>2, <2>4, <3>2, <3>3 DEF Kept
    <2>5. CASE k = "mean"
      <3>1. b = MeanAcc(a, v)
        BY <2>5, UpdateIs DEF b, v
      <3>2. b \in AccType(type, V) /\ b.sum = a.sum + v /\ b.n = a.n + 1
        <4>1. MeanAcc(a, v) \in AccType(type, V)
          BY <1>1, <2>1, MeanKeeps
        <4>2. MeanAcc(a, v).sum = a.sum + v
          BY <1>1, <2>1, MeanKeeps
        <4>3. MeanAcc(a, v).n = a.n + 1
          BY <1>1, <2>1, MeanKeeps
        <4> QED
          BY <3>1, <4>1, <4>2, <4>3
      <3>3. a.sum = Total(vs) /\ a.n = n
        BY <1>3, <1>6, <2>5 DEF Kept
      <3> QED
        BY <1>4, <2>2, <2>5, <3>2, <3>3 DEF Kept
    <2>6. CASE k \in {"min", "max"}
      <3> DEFINE replaces == IF k = "min" THEN a.seen /\ v < a.value[1]
                             ELSE a.seen /\ v > a.value[1]
      <3>1. b = Extreme(a, v, replaces)
        BY <2>6, UpdateIs DEF b, MinMaxAcc, v
      <3>2. replaces \in BOOLEAN
        OBVIOUS
      <3>3. /\ b \in AccType(type, V) /\ b.seen
            /\ b.value = IF ~a.seen \/ replaces THEN <<v>> ELSE a.value
        <4> HIDE DEF replaces
        <4> QED
          BY <1>1, <3>1, <3>2, ExtremeKeeps
      <3>4. (a.seen <=> n # 0)
        BY <1>3, <1>6, <2>6 DEF Kept
      <3>5. /\ OnePass(more).min = IF p.n = 0 \/ v < p.min THEN v ELSE p.min
            /\ OnePass(more).max = IF p.n = 0 \/ v > p.max THEN v ELSE p.max
        BY <2>2 DEF PassOver, p
      <3>6. CASE k = "min"
        <4>1. n # 0 => a.value = <<p.min>>
          BY <1>3, <1>6, <3>6 DEF Kept, p
        <4>2. n # 0 => a.value[1] = p.min
          BY <4>1
        <4>3. b.value = <<OnePass(more).min>>
          BY <2>3, <3>3, <3>4, <3>5, <3>6, <4>1, <4>2
        <4> HIDE DEF replaces
        <4> QED
          BY <1>4, <3>3, <3>6, <4>3 DEF Kept
      <3>7. CASE k = "max"
        <4>1. n # 0 => a.value = <<p.max>>
          BY <1>3, <1>6, <3>7 DEF Kept, p
        <4>2. n # 0 => a.value[1] = p.max
          BY <4>1
        <4>3. b.value = <<OnePass(more).max>>
          BY <2>3, <3>3, <3>4, <3>5, <3>7, <4>1, <4>2
        <4> HIDE DEF replaces
        <4> QED
          BY <1>4, <3>3, <3>7, <4>3 DEF Kept
      <3> QED
        BY <2>6, <3>6, <3>7
    <2>7. CASE k = "var"
      <3>1. a.n = p.n /\ a.mean = p.mean /\ a.m2 = p.m2
        BY <1>3, <2>7 DEF Kept, p
      <3> DEFINE m == a.n + 1
                 delta == Unit * v - a.mean
                 q == delta \div m
                 mean == a.mean + q
                 m2 == a.m2 + delta * (Unit * v - mean)
      <3>2. m \in Nat \ {0} /\ delta \in Int
        BY <1>1, <2>1, UnitAssumption DEF AccType
      <3>3. q \in Int
        <4> HIDE DEF m, delta
        <4> QED
          BY <3>2, DivInt
      <3>4. mean \in Int /\ m2 \in Int
        <4>1. a.mean \in Int /\ a.m2 \in Int
          BY <1>1 DEF AccType
        <4> HIDE DEF q
        <4>2. mean \in Int
          BY <3>3, <4>1
        <4>3. Unit * v - mean \in Int
          <5> HIDE DEF mean
          <5> QED
            BY <2>1, <4>2, UnitAssumption
        <4> DEFINE e == Unit * v - mean
        <4> HIDE DEF e, delta
        <4>4. a.m2 + delta * e \in Int
          BY <3>2, <4>1, <4>3 DEF e
        <4> QED
          BY <4>2, <4>4 DEF e
      <3>5. b = [a EXCEPT !.n = m, !.mean = mean, !.m2 = m2]
        <4>1. b = Welford(a, v)
          BY <2>7, UpdateIs DEF b, v
        <4> QED
          BY <4>1 DEF Welford
      <3>6. OnePass(more).n = m /\ OnePass(more).mean = mean /\ OnePass(more).m2 = m2
        BY <2>2, <3>1 DEF PassOver, p
      <3> HIDE DEF m, mean, m2
      <3>7. b \in AccType(type, V) /\ b.n = m /\ b.mean = mean /\ b.m2 = m2
        BY <1>1, <3>2, <3>4, <3>5 DEF AccType
      <3> QED
        BY <2>7, <3>6, <3>7 DEF Kept
    <2>8. CASE k = "median"
      <3>1. b = [a EXCEPT !.values = Append(@, v)]
        BY <2>8, UpdateIs DEF b, MedianAcc, v
      <3>2. a.values = vs
        BY <1>3, <2>8 DEF Kept
      <3>3. b = [a EXCEPT !.values = more]
        BY <3>1, <3>2 DEF more
      <3>4. b \in AccType(type, V) /\ b.values = more
        BY <1>1, <1>4, <3>3 DEF AccType
      <3> QED
        BY <2>8, <3>4 DEF Kept
    <2> QED
      BY <1>8, <2>4, <2>5, <2>6, <2>7, <2>8 DEF Summed
  <1>9. CASE k \in {"first", "last"}
    <2> DEFINE replaces == k = "last"
    <2>1. b = Extreme(a, v, replaces)
      BY <1>9, UpdateIs DEF b, FirstLastAcc, v
    <2>2. replaces \in BOOLEAN
      OBVIOUS
    <2>3. /\ b \in AccType(type, V) /\ b.seen
          /\ b.value = IF ~a.seen \/ replaces THEN <<v>> ELSE a.value
      <3> HIDE DEF replaces
      <3> QED
        BY <1>1, <2>1, <2>2, ExtremeKeeps
    <2>4. (a.seen <=> n # 0)
      BY <1>3, <1>6, <1>9 DEF Kept
    <2>5. CASE k = "first"
      <3>1. n # 0 => a.value = <<vs[1]>>
        BY <1>3, <1>6, <2>5 DEF Kept
      <3>2. b.value = <<more[1]>>
        BY <1>5, <2>3, <2>4, <2>5, <3>1
      <3> QED
        BY <1>4, <2>3, <2>5, <3>2 DEF Kept
    <2>6. CASE k = "last"
      <3>1. b.value = <<more[n + 1]>>
        BY <1>4, <2>3, <2>6
      <3> QED
        BY <1>4, <2>3, <2>6, <3>1 DEF Kept
    <2> QED
      BY <1>9, <2>5, <2>6
  <1>10. CASE k \in {"nunique", "mode"}
    <2>1. b = Counted(a, type, v)
      BY <1>10, UpdateIs DEF b, v
    <2>2. Tallied(type, V, a, vs)
      BY <1>3, <1>10 DEF Kept
    <2>3. b \in AccType(type, V) /\ Tallied(type, V, b, more)
      BY <1>1, <2>1, <2>2, TallySeen, TallyNew DEF more
    <2> QED
      BY <1>10, <2>3 DEF Kept
  <1> QED
    BY <1>7, <1>8, <1>9, <1>10, KindsAre DEF Summed

(* A cell updates the accumulator as it extends the cells. *)
LEMMA KeptCell ==
    ASSUME NEW k \in Kinds, NEW type, NEW cells \in Seq(CellsOf(Values(type))),
           NEW cell \in CellsOf(Values(type)), ~UpdateFails(k, type, cell),
           NEW a, Kept(k, type, Values(type), a, Len(cells), Present(cells))
    PROVE  Kept(k, type, Values(type), Update(k, type, a, cell), Len(cells) + 1,
                Present(Append(cells, cell)))
  <1> DEFINE V == Values(type)
             vs == Present(cells)
             size == Len(cells)
  <1>1. /\ vs \in Seq(V) /\ size \in Nat
        /\ Present(Append(cells, cell)) = IF cell = Null THEN vs ELSE Append(vs, cell[1])
    BY PresentAppend
  <1>2. Kept(k, type, V, a, size, vs)
    OBVIOUS
  <1>3. cell # Null => cell[1] \in V
    BY CellForm
  <1> HIDE DEF V, vs, size
  <1>4. Kept(k, type, V, Update(k, type, a, cell), size + 1, Present(Append(cells, cell)))
    <2>1. CASE cell # Null
      <3>1. vs \in Seq(Values(type)) /\ Kept(k, type, Values(type), a, size, vs)
            /\ cell[1] \in Values(type)
        BY <1>1, <1>2, <1>3, <2>1 DEF V
      <3>2. Kept(k, type, Values(type), Update(k, type, a, cell), size + 1, Append(vs, cell[1]))
        BY <1>1, <2>1, <3>1, KeptValue
      <3> QED
        BY <1>1, <2>1, <3>2 DEF V
    <2>2. CASE cell = Null /\ k # "star"
      <3>1. Update(k, type, a, cell) = a
        BY <2>2 DEF Update
      <3>2. Kept(k, type, V, a, size + 1, vs)
        BY <1>2, <2>2 DEF Kept
      <3> QED
        BY <1>1, <2>2, <3>1, <3>2
    <2>3. CASE cell = Null /\ k = "star"
      <3>1. Update(k, type, a, cell) = CountAcc(a)
        BY <2>3 DEF Update
      <3>2. a \in AccType(type, V) /\ a.n = size
        BY <1>2, <2>3 DEF Kept
      <3>3. CountAcc(a) \in AccType(type, V) /\ CountAcc(a).n = size + 1
        BY <3>2, CountKeeps
      <3>4. Kept(k, type, V, CountAcc(a), size + 1, vs)
        BY <2>3, <3>3 DEF Kept
      <3> QED
        BY <1>1, <2>3, <3>1, <3>4
    <2> QED
      BY <2>1, <2>2, <2>3
  <1> QED
    BY <1>4 DEF V, size

-----------------------------------------------------------------------------
(* The most frequent value. *)

Best(c, n, i) == /\ i \in 1..n
                 /\ \A j \in 1..n : c[j] < c[i] \/ (c[j] = c[i] /\ i <= j)

LEMMA BestExists ==
    ASSUME NEW n \in Nat \ {0}, NEW c, \A i \in 1..n : c[i] \in Nat
    PROVE  \E i \in 1..n : Best(c, n, i)
  <1> DEFINE S == {m \in Nat : (m # 0 /\ m <= n) => \E i \in 1..m : Best(c, m, i)}
  <1>1. 0 \in S
    OBVIOUS
  <1>2. ASSUME NEW m \in Nat, m \in S
        PROVE  m + 1 \in S
    <2> SUFFICES ASSUME m + 1 <= n
                 PROVE  \E i \in 1..(m + 1) : Best(c, m + 1, i)
      OBVIOUS
    <2>1. \A i \in 1..(m + 1) : c[i] \in Nat
      OBVIOUS
    <2>2. \A i \in 1..(m + 1) : i \in 1..m \/ i = m + 1
      OBVIOUS
    <2>3. CASE m = 0
      BY <2>1, <2>2, <2>3 DEF Best
    <2>4. CASE m # 0
      <3>1. PICK i \in 1..m : Best(c, m, i)
        BY <1>2, <2>4
      <3>2. \A j \in 1..m : c[j] < c[i] \/ (c[j] = c[i] /\ i <= j)
        BY <3>1 DEF Best
      <3>3. /\ i \in 1..(m + 1) /\ m + 1 \in 1..(m + 1) /\ i <= m + 1
            /\ \A j \in 1..m : j \in 1..(m + 1)
        OBVIOUS
      <3>4. CASE c[m + 1] <= c[i]
        <4>1. c[m + 1] < c[i] \/ (c[m + 1] = c[i] /\ i <= m + 1)
          BY <2>1, <3>3, <3>4
        <4>2. Best(c, m + 1, i)
          BY <2>2, <3>2, <3>3, <4>1 DEF Best
        <4> QED
          BY <3>3, <4>2
      <3>5. CASE c[i] < c[m + 1]
        <4>1. \A j \in 1..m : c[j] < c[m + 1]
          BY <2>1, <3>2, <3>3, <3>5
        <4>2. Best(c, m + 1, m + 1)
          BY <2>2, <3>3, <4>1 DEF Best
        <4> QED
          BY <3>3, <4>2
      <3> QED
        BY <2>1, <3>3, <3>4, <3>5
    <2> QED
      BY <2>3, <2>4
  <1>3. \A m \in Nat : m \in S
    <2> HIDE DEF S
    <2> QED
      BY <1>1, <1>2, SetInduction
  <1> QED
    BY <1>3

LEMMA BestOne ==
    ASSUME NEW n \in Nat, NEW c, \A i \in 1..n : c[i] \in Nat,
           NEW i, NEW j, Best(c, n, i), Best(c, n, j)
    PROVE  i = j
  <1>1. i \in 1..n /\ j \in 1..n /\ c[i] \in Nat /\ c[j] \in Nat
    BY DEF Best
  <1>2. /\ c[j] < c[i] \/ (c[j] = c[i] /\ i <= j)
        /\ c[i] < c[j] \/ (c[i] = c[j] /\ j <= i)
    BY <1>1 DEF Best
  <1> QED
    BY <1>1, <1>2

LEMMA BestIndexIs ==
    ASSUME NEW n \in Nat \ {0}, NEW c, DOMAIN c = 1..n, \A i \in 1..n : c[i] \in Nat
    PROVE  Best(c, n, BestIndex(c))
  <1>1. \E i \in DOMAIN c : \A j \in DOMAIN c : c[j] < c[i] \/ (c[j] = c[i] /\ i <= j)
    BY BestExists DEF Best
  <1>2. /\ BestIndex(c) \in DOMAIN c
        /\ \A j \in DOMAIN c : c[j] < c[BestIndex(c)]
                               \/ (c[j] = c[BestIndex(c)] /\ BestIndex(c) <= j)
    BY <1>1 DEF BestIndex
  <1> QED
    BY <1>2 DEF Best

\* How often the key of the value at i comes.
TimesOf(type, V, vs) ==
    [i \in 1..Len(vs) |-> Count(vs, WithKey(type, V, CellKey(type, <<vs[i]>>)))]

(* The most frequent value, by the index it first stands at. *)
LEMMA MostFrequentIs ==
    ASSUME NEW type, NEW V, NEW vs \in Seq(V), vs # <<>>
    PROVE  /\ MostFrequent(type, vs) = <<vs[BestIndex(TimesOf(type, V, vs))]>>
           /\ Best(TimesOf(type, V, vs), Len(vs), BestIndex(TimesOf(type, V, vs)))
           /\ \A i \in 1..Len(vs) : TimesOf(type, V, vs)[i] \in Nat
  <1> DEFINE n == Len(vs)
             keyed == [i \in 1..n |-> CellKey(type, <<vs[i]>>)]
             T(i) == WithKey(type, V, CellKey(type, <<vs[i]>>))
             times == TimesOf(type, V, vs)
             own == [i \in 1..n |-> Cardinality({j \in 1..n : keyed[j] = keyed[i]})]
  <1>1. n \in Nat \ {0} /\ \A i \in 1..n : vs[i] \in V
    BY EmptySeq
  <1>2. MostFrequent(type, vs) = <<vs[BestIndex(own)]>>
    BY DEF MostFrequent
  <1>3. ASSUME NEW i \in 1..n
        PROVE  own[i] = times[i]
    <2>1. times[i] = Cardinality({j \in 1..n : vs[j] \in T(i)})
      BY DEF TimesOf, Count
    <2>2. \A j \in 1..n : vs[j] \in T(i) <=> keyed[j] = keyed[i]
      BY <1>1 DEF WithKey
    <2> HIDE DEF keyed, T, n
    <2>3. {j \in 1..n : vs[j] \in T(i)} = {j \in 1..n : keyed[j] = keyed[i]}
      BY <2>2
    <2> QED
      BY <2>1, <2>3
  <1>4. times = [i \in 1..n |-> times[i]] /\ DOMAIN times = 1..n
    BY DEF TimesOf
  <1>5. own = times
    <2> HIDE DEF times, keyed
    <2> QED
      BY <1>3, <1>4
  <1>6. \A i \in 1..n : times[i] \in Nat
    <2> TAKE i \in 1..n
    <2>1. times[i] = Count(vs, T(i))
      BY DEF TimesOf
    <2>2. Count(vs, T(i)) \in Nat
      <3> HIDE DEF T
      <3> QED
        BY <1>1, CountAppend
    <2> QED
      BY <2>1, <2>2
  <1> HIDE DEF own, times, n
  <1>7. Best(times, n, BestIndex(times))
    BY <1>1, <1>4, <1>6, BestIndexIs
  <1> QED
    BY <1>2, <1>5, <1>6, <1>7 DEF times, n

LEMMA FavouriteIs ==
    ASSUME NEW type, NEW V, NEW a \in AccType(type, V), NEW vs \in Seq(V),
           Tallied(type, V, a, vs)
    PROVE  Favourite(a) = MostFrequent(type, vs)
  <1> DEFINE m == Len(a.firsts)
             n == Len(vs)
             times == TimesOf(type, V, vs)
  <1>1. a.firsts \in Seq(KeysOf(type, V)) /\ a.counts \in Seq(Nat) /\ a.values \in Seq(V)
    BY DEF AccType
  <1>2. m \in Nat /\ Len(a.counts) = m /\ Len(a.values) = m /\ Distinct(a.firsts) /\ n \in Nat
    BY <1>1 DEF Tallied
  <1>3. PICK p : FirstOnes(type, a, vs, p)
    BY DEF Tallied
  <1>4. \A i \in 1..m : /\ p[i] \in 1..n /\ a.values[i] = vs[p[i]]
                        /\ a.firsts[i] = CellKey(type, <<vs[p[i]]>>)
    BY <1>3 DEF FirstOnes
  <1>5. \A j \in 1..n : \E i \in 1..m : a.firsts[i] = CellKey(type, <<vs[j]>>) /\ p[i] <= j
    BY <1>3 DEF FirstOnes
  <1>6. \A i, j \in 1..m : i < j => p[i] < p[j]
    BY <1>3 DEF FirstOnes
  <1>7. CASE n = 0
    <2>1. m = 0
      <3>1. m # 0 => 1 \in 1..m
        BY <1>2
      <3> QED
        BY <1>2, <1>4, <1>7, <3>1
    <2>2. a.counts = <<>> /\ vs = <<>>
      BY <1>1, <1>2, <1>7, <2>1
    <2> QED
      BY <2>2 DEF Favourite, MostFrequent
  <1>8. CASE n # 0
    <2>1. m # 0
      <3>1. 1 \in 1..n
        BY <1>2, <1>8
      <3>2. PICK i \in 1..m : a.firsts[i] = CellKey(type, <<vs[1]>>)
        BY <1>5, <3>1
      <3> HIDE DEF m
      <3> QED
        BY <1>2, <3>2
    <2>2. a.counts # <<>> /\ vs # <<>>
      BY <1>2, <1>8, <2>1
    <2> DEFINE c == a.counts
               w == BestIndex(c)
    <2>3. DOMAIN c = 1..m /\ \A i \in 1..m : c[i] \in Nat
      BY <1>1, <1>2
    <2>4. Favourite(a) = <<a.values[w]>>
      BY <2>2 DEF Favourite
    <2> HIDE DEF c
    <2>5. Best(c, m, w)
      BY <1>2, <2>1, <2>3, BestIndexIs
    <2> HIDE DEF w, m, n
    <2>6. w \in 1..m /\ \A i \in 1..m : c[i] < c[w] \/ (c[i] = c[w] /\ w <= i)
      BY <2>5 DEF Best
    <2>7. ASSUME NEW j \in 1..n, NEW i \in 1..m, a.firsts[i] = CellKey(type, <<vs[j]>>)
          PROVE  times[j] = c[i]
      <3>1. times[j] = Count(vs, WithKey(type, V, CellKey(type, <<vs[j]>>)))
        BY DEF TimesOf, n
      <3>2. c[i] = Count(vs, WithKey(type, V, a.firsts[i]))
        BY DEF Tallied, c, m
      <3> QED
        BY <2>7, <3>1, <3>2
    <2> HIDE DEF times
    <2>8. p[w] \in 1..n /\ times[p[w]] = c[w]
      BY <1>4, <2>6, <2>7
    <2>9. ASSUME NEW j \in 1..n
          PROVE  times[j] < times[p[w]] \/ (times[j] = times[p[w]] /\ p[w] <= j)
      <3>1. PICK i \in 1..m : a.firsts[i] = CellKey(type, <<vs[j]>>) /\ p[i] <= j
        BY <1>5
      <3>2. times[j] = c[i]
        BY <2>7, <3>1
      <3>3. c[i] < c[w] \/ (c[i] = c[w] /\ w <= i)
        BY <2>6
      <3>4. w <= i => p[w] <= p[i]
        <4>1. p[w] \in 1..n /\ p[i] \in 1..n
          BY <1>4, <2>6
        <4>2. w <= i => w = i \/ w < i
          BY <1>2, <2>6
        <4>3. w < i => p[w] < p[i]
          BY <1>6, <2>6
        <4> QED
          BY <1>2, <4>1, <4>2, <4>3
      <3>5. p[w] \in Int /\ p[i] \in Int /\ j \in Int
        <4>1. p[w] \in 1..n /\ p[i] \in 1..n
          BY <1>4, <2>6
        <4> QED
          BY <1>2, <4>1
      <3> QED
        BY <2>8, <3>1, <3>2, <3>3, <3>4, <3>5
    <2>10. Best(times, n, p[w])
      BY <2>8, <2>9 DEF Best
    <2>11. /\ MostFrequent(type, vs) = <<vs[BestIndex(times)]>>
           /\ Best(times, n, BestIndex(times)) /\ \A i \in 1..n : times[i] \in Nat
      BY <2>2, MostFrequentIs DEF times, n
    <2>12. BestIndex(times) = p[w]
      BY <1>2, <2>10, <2>11, BestOne
    <2> QED
      BY <1>4, <2>4, <2>6, <2>11, <2>12
  <1> QED
    BY <1>7, <1>8

-----------------------------------------------------------------------------
(* The accumulators finalize to the eager aggregates. *)

AggFails(k, type, vs) == \/ k \in Summed /\ type \notin Numeric
                         \/ k \in Scalar /\ vs # <<>> /\ type \notin Readable

\* agg is the eager aggregate of size cells whose values are vs.
AggIs(k, type, size, vs, agg) ==
    /\ AggFails(k, type, vs) => agg = Error
    /\ ~AggFails(k, type, vs) =>
         /\ k = "star" => agg = <<size>>
         /\ k = "count" => agg = <<Len(vs)>>
         /\ k = "first" => agg = IF vs = <<>> THEN Null ELSE <<Head(vs)>>
         /\ k = "last" => agg = IF vs = <<>> THEN Null ELSE <<vs[Len(vs)]>>
         /\ k = "mode" => agg = MostFrequent(type, vs)
         /\ k = "nunique" => agg = <<Cardinality({CellKey(type, <<v>>) : v \in Range(vs)})>>
         /\ k = "median" => agg = Middle(vs)
         /\ k \in {"sum", "mean", "min", "max", "var"} => agg = FromPass(k, OnePass(vs))

LEMMA AppendAggIs ==
    ASSUME NEW k \in Kinds, NEW type, NEW cells
    PROVE  AggIs(k, type, Len(cells), Present(cells), AppendAgg(k, type, cells))
  BY DEF AppendAgg, AggFails, AggIs

LEMMA FromPassIs ==
    ASSUME NEW p
    PROVE  /\ p.n = 0 => \A k : FromPass(k, p) = Null
           /\ p.n # 0 => /\ FromPass("sum", p) = <<p.sum>>
                         /\ FromPass("mean", p) = <<(Unit * p.sum) \div p.n>>
                         /\ FromPass("min", p) = <<p.min>>
                         /\ FromPass("max", p) = <<p.max>>
                         /\ FromPass("var", p) = Variance(p.n, p.m2)
  BY DEF FromPass

LEMMA FinalizeIs ==
    ASSUME NEW a
    PROVE  /\ Finalize("star", a) = <<a.n>> /\ Finalize("count", a) = <<a.n>>
           /\ Finalize("sum", a) = IF a.seen THEN <<a.sum>> ELSE Null
           /\ Finalize("mean", a) = IF a.n = 0 THEN Null ELSE <<(Unit * a.sum) \div a.n>>
           /\ Finalize("min", a) = a.value /\ Finalize("max", a) = a.value
           /\ Finalize("first", a) = a.value /\ Finalize("last", a) = a.value
           /\ Finalize("var", a) = Variance(a.n, a.m2)
           /\ Finalize("nunique", a) = <<Len(a.firsts)>>
           /\ Finalize("median", a) = Middle(a.values)
           /\ Finalize("mode", a) = Favourite(a)
  BY DEF Finalize

(* A sequence of different things that lists a set is as long as it is large. *)
LEMMA CardinalityOf ==
    ASSUME NEW m \in Nat, NEW s, NEW T,
           \A i, j \in 1..m : s[i] = s[j] => i = j,
           \A x : x \in T <=> \E i \in 1..m : x = s[i]
    PROVE  IsFiniteSet(T) /\ Cardinality(T) = m
  <1> DEFINE A == 1..m
             f == [i \in A |-> s[i]]
  <1>1. IsFiniteSet(A) /\ Cardinality(A) = m
    BY UpTo
  <1>2. f \in [A -> T] /\ \A i \in A : f[i] = s[i]
    OBVIOUS
  <1> HIDE DEF f
  <1>3. f \in Injection(A, T)
    BY <1>2 DEF Injection, IsInjective
  <1>4. f \in Surjection(A, T)
    BY <1>2 DEF Surjection
  <1> HIDE DEF A
  <1> QED
    BY <1>1, <1>3, <1>4, FS_Surjection

LEMMA TalliedKeys ==
    ASSUME NEW type, NEW V, NEW a \in AccType(type, V), NEW vs \in Seq(V),
           Tallied(type, V, a, vs)
    PROVE  Cardinality({CellKey(type, <<v>>) : v \in Range(vs)}) = Len(a.firsts)
  <1> DEFINE m == Len(a.firsts)
             s == a.firsts
             T == {CellKey(type, <<v>>) : v \in Range(vs)}
  <1>1. m \in Nat
    BY DEF AccType
  <1>2. PICK p : FirstOnes(type, a, vs, p)
    BY DEF Tallied
  <1>3. \A i, j \in 1..m : s[i] = s[j] => i = j
    BY DEF Tallied, Distinct
  <1>4. \A v : v \in Range(vs) <=> \E j \in 1..Len(vs) : v = vs[j]
    <2>1. DOMAIN vs = 1..Len(vs)
      OBVIOUS
    <2> QED
      BY <2>1 DEF Range
  <1>5. ASSUME NEW x
        PROVE  x \in T <=> \E i \in 1..m : x = s[i]
    <2>1. ASSUME x \in T
          PROVE  \E i \in 1..m : x = s[i]
      <3>1. PICK v \in Range(vs) : x = CellKey(type, <<v>>)
        BY <2>1
      <3>2. PICK j \in 1..Len(vs) : v = vs[j]
        BY <1>4
      <3>3. PICK i \in 1..m : s[i] = CellKey(type, <<vs[j]>>)
        BY <1>2 DEF FirstOnes
      <3> QED
        BY <3>1, <3>2, <3>3
    <2>2. ASSUME NEW i \in 1..m, x = s[i]
          PROVE  x \in T
      <3>1. p[i] \in 1..Len(vs) /\ s[i] = CellKey(type, <<vs[p[i]]>>)
        BY <1>2 DEF FirstOnes
      <3>2. vs[p[i]] \in Range(vs)
        BY <1>4, <3>1
      <3> QED
        BY <2>2, <3>1, <3>2
    <2> QED
      BY <2>1, <2>2
  <1> HIDE DEF T, s, m
  <1>6. Cardinality(T) = m
    BY <1>1, <1>3, <1>5, CardinalityOf
  <1> QED
    BY <1>6 DEF T, m

(* An accumulator finalizes to the aggregate of its cells. *)
LEMMA FinalizeKept ==
    ASSUME NEW k \in Kinds, NEW type, NEW cells \in Seq(CellsOf(Values(type))),
           NEW a, NEW vs, vs = Present(cells), vs \in Seq(Values(type)),
           Kept(k, type, Values(type), a, Len(cells), vs),
           ~AggFails(k, type, vs)
    PROVE  Finalize(k, a) = AppendAgg(k, type, cells)
  <1> DEFINE V == Values(type)
             agg == AppendAgg(k, type, cells)
             n == Len(vs)
  <1>1. Kept(k, type, V, a, Len(cells), vs) /\ vs \in Seq(V) /\ n \in Nat
    OBVIOUS
  <1>2. (n = 0 <=> vs = <<>>)
    OBVIOUS
  <1>3. a \in AccType(type, V)
    BY DEF Kept
  <1>4. k \in Summed => Passed(vs)
    <2> SUFFICES ASSUME k \in Summed
                 PROVE  Passed(vs)
      OBVIOUS
    <2>1. V \subseteq Int
      BY NumericValues DEF AggFails
    <2>2. vs \in Seq(Int)
      BY <1>1, <2>1
    <2> QED
      BY <2>2, PassFacts
  <1> SUFFICES Finalize(k, a) = agg
    OBVIOUS
  <1>13. AggIs(k, type, Len(cells), vs, agg)
    BY AppendAggIs
  <1> HIDE DEF V, agg, n
  <1>5. CASE k = "star"
    <2>1. agg = <<Len(cells)>>
      BY <1>5, <1>13 DEF AggIs
    <2> QED
      BY <1>1, <1>5, <2>1, FinalizeIs DEF Kept
  <1>6. CASE k = "count"
    <2>1. agg = <<n>>
      BY <1>6, <1>13 DEF AggIs, n
    <2> QED
      BY <1>1, <1>6, <2>1, FinalizeIs DEF Kept, n
  <1>7. CASE k = "first"
    <2>1. agg = IF vs = <<>> THEN Null ELSE <<Head(vs)>>
      BY <1>7, <1>13 DEF AggIs
    <2>2. /\ n = 0 => a.value = Null
          /\ n # 0 => a.value = <<vs[1]>>
      BY <1>1, <1>7 DEF Kept, n
    <2>3. n # 0 => Head(vs) = vs[1]
      BY <1>1, <1>2
    <2> QED
      BY <1>2, <1>7, <2>1, <2>2, <2>3, FinalizeIs
  <1>8. CASE k = "last"
    <2>1. agg = IF vs = <<>> THEN Null ELSE <<vs[Len(vs)]>>
      BY <1>8, <1>13 DEF AggIs
    <2>2. /\ n = 0 => a.value = Null
          /\ n # 0 => a.value = <<vs[Len(vs)]>>
      BY <1>1, <1>8 DEF Kept, n
    <2> QED
      BY <1>2, <1>8, <2>1, <2>2, FinalizeIs
  <1>9. CASE k = "mode"
    <2>1. agg = MostFrequent(type, vs)
      BY <1>9, <1>13 DEF AggIs
    <2>2. Tallied(type, V, a, vs)
      BY <1>1, <1>9 DEF Kept
    <2>3. Favourite(a) = MostFrequent(type, vs)
      BY <1>1, <1>3, <2>2, FavouriteIs
    <2> QED
      BY <1>9, <2>1, <2>3, FinalizeIs
  <1>10. CASE k = "nunique"
    <2>1. agg = <<Cardinality({CellKey(type, <<v>>) : v \in Range(vs)})>>
      BY <1>10, <1>13 DEF AggIs
    <2>2. Tallied(type, V, a, vs)
      BY <1>1, <1>10 DEF Kept
    <2>3. Cardinality({CellKey(type, <<v>>) : v \in Range(vs)}) = Len(a.firsts)
      BY <1>1, <1>3, <2>2, TalliedKeys
    <2> QED
      BY <1>10, <2>1, <2>3, FinalizeIs
  <1>11. CASE k = "median"
    <2>1. agg = Middle(vs)
      BY <1>11, <1>13 DEF AggIs
    <2>2. a.values = vs
      BY <1>1, <1>11 DEF Kept
    <2> QED
      BY <1>11, <2>1, <2>2, FinalizeIs
  <1>12. CASE k \in {"sum", "mean", "min", "max", "var"}
    <2> DEFINE p == OnePass(vs)
    <2>1. agg = FromPass(k, p)
      BY <1>12, <1>13 DEF AggIs
    <2>2. p.n = n /\ p.sum = Total(vs)
      BY <1>4, <1>12 DEF Passed, Summed, n
    <2>3. CASE k = "sum"
      <3>1. a.sum = Total(vs) /\ (a.seen <=> n # 0)
        BY <1>1, <2>3 DEF Kept, n
      <3> HIDE DEF p
      <3> QED
        <4>1. agg = IF n = 0 THEN Null ELSE <<p.sum>>
          BY <2>1, <2>2, <2>3, FromPassIs
        <4>2. Finalize(k, a) = IF n = 0 THEN Null ELSE <<a.sum>>
          BY <2>3, <3>1, FinalizeIs
        <4> QED
          BY <2>2, <3>1, <4>1, <4>2
    <2>4. CASE k = "mean"
      <3>1. a.sum = Total(vs) /\ a.n = n
        BY <1>1, <2>4 DEF Kept, n
      <3> HIDE DEF p
      <3> QED
        <4>1. agg = IF n = 0 THEN Null ELSE <<(Unit * p.sum) \div p.n>>
          BY <2>1, <2>2, <2>4, FromPassIs
        <4>2. Finalize(k, a) = IF a.n = 0 THEN Null ELSE <<(Unit * a.sum) \div a.n>>
          BY <2>4, FinalizeIs
        <4> QED
          BY <2>2, <3>1, <4>1, <4>2
    <2>5. CASE k = "min"
      <3>1. /\ n = 0 => a.value = Null
            /\ n # 0 => a.value = <<p.min>>
        BY <1>1, <2>5 DEF Kept, n
      <3> HIDE DEF p
      <3> QED
        BY <2>1, <2>2, <2>5, <3>1, FinalizeIs, FromPassIs
    <2>6. CASE k = "max"
      <3>1. /\ n = 0 => a.value = Null
            /\ n # 0 => a.value = <<p.max>>
        BY <1>1, <2>6 DEF Kept, n
      <3> HIDE DEF p
      <3> QED
        BY <2>1, <2>2, <2>6, <3>1, FinalizeIs, FromPassIs
    <2>7. CASE k = "var"
      <3>1. a.n = p.n /\ a.m2 = p.m2
        BY <1>1, <2>7 DEF Kept
      <3>2. p.n = 0 => Variance(p.n, p.m2) = Null
        BY DEF Variance
      <3> HIDE DEF p
      <3> QED
        BY <2>1, <2>2, <2>7, <3>1, <3>2, FinalizeIs, FromPassIs
    <2> QED
      BY <1>12, <2>3, <2>4, <2>5, <2>6, <2>7
  <1> QED
    BY <1>5, <1>6, <1>7, <1>8, <1>9, <1>10, <1>11, <1>12 DEF Kinds

\* What an aggregate that can be computed is.
IsCell(c) == c = Null \/ \E x : c = <<x>>

LEMMA ErrorIsNoCell == \A c : IsCell(c) => c # Error
  <1> TAKE c
  <1>1. Len(Error) = 2
    BY DEF Error
  <1>2. Len(Null) = 0
    BY DEF Null
  <1>3. \A x : Len(<<x>>) = 1
    OBVIOUS
  <1> QED
    BY <1>1, <1>2, <1>3 DEF IsCell

LEMMA AggIsCell ==
    ASSUME NEW k \in Kinds, NEW type, NEW size, NEW vs, NEW agg,
           AggIs(k, type, size, vs, agg), ~AggFails(k, type, vs)
    PROVE  IsCell(agg)
  <1>1. CASE k \in {"star", "count", "nunique"}
    BY <1>1 DEF AggIs, IsCell
  <1>2. CASE k = "first"
    BY <1>2 DEF AggIs, IsCell
  <1>3. CASE k = "last"
    BY <1>3 DEF AggIs, IsCell
  <1>4. CASE k = "mode"
    <2>1. agg = MostFrequent(type, vs)
      BY <1>4 DEF AggIs
    <2> QED
      BY <2>1 DEF MostFrequent, IsCell
  <1>5. CASE k = "median"
    <2>1. agg = Middle(vs)
      BY <1>5 DEF AggIs
    <2> QED
      BY <2>1 DEF Middle, IsCell
  <1>6. CASE k \in {"sum", "mean", "min", "max", "var"}
    <2> DEFINE p == OnePass(vs)
    <2>1. agg = FromPass(k, p)
      BY <1>6 DEF AggIs
    <2> HIDE DEF p
    <2>2. CASE p.n = 0
      BY <2>1, <2>2, FromPassIs DEF IsCell
    <2>3. CASE p.n # 0
      <3>1. CASE k = "sum"
        BY <2>1, <2>3, <3>1, FromPassIs DEF IsCell
      <3>2. CASE k = "mean"
        BY <2>1, <2>3, <3>2, FromPassIs DEF IsCell
      <3>3. CASE k = "min"
        BY <2>1, <2>3, <3>3, FromPassIs DEF IsCell
      <3>4. CASE k = "max"
        BY <2>1, <2>3, <3>4, FromPassIs DEF IsCell
      <3>5. CASE k = "var"
        <4>1. agg = Variance(p.n, p.m2)
          BY <2>1, <2>3, <3>5, FromPassIs
        <4> QED
          BY <4>1 DEF Variance, IsCell
      <3> QED
        BY <1>6, <3>1, <3>2, <3>3, <3>4, <3>5
    <2> QED
      BY <2>2, <2>3
  <1> QED
    BY <1>1, <1>2, <1>3, <1>4, <1>5, <1>6 DEF Kinds

(* There are values when a cell is not null. *)
LEMMA PresentSome ==
    ASSUME NEW cells, Len(cells) \in Nat
    PROVE  Present(cells) # <<>> <=> \E i \in 1..Len(cells) : cells[i] # Null
  <1> DEFINE kept == PresentAt(cells)
             order == InOrder(kept)
             vs == [n \in 1..Len(order) |-> cells[order[n]][1]]
  <1>1. IsFiniteSet(kept) /\ kept \subseteq Int
    <2>1. IsFiniteSet(1..Len(cells))
      BY UpTo
    <2> QED
      BY <2>1, FS_Subset DEF PresentAt
  <1>2. Present(cells) = vs
    BY DEF Present, PresentAt
  <1>3. Len(order) = Cardinality(kept) /\ Len(order) \in Nat
    <2> HIDE DEF kept
    <2> QED
      BY <1>1, InOrderLists, FS_CardinalityType
  <1> HIDE DEF order
  <1>4. Len(vs) = Len(order) /\ (vs = <<>> <=> Len(order) = 0)
    BY <1>3
  <1> HIDE DEF vs
  <1>5. Cardinality(kept) = 0 <=> kept = {}
    BY <1>1, FS_EmptySet
  <1>6. kept = {} <=> ~ \E i \in 1..Len(cells) : cells[i] # Null
    BY DEF PresentAt
  <1> QED
    BY <1>2, <1>3, <1>4, <1>5, <1>6

(* An aggregate cannot be computed when an update fails. *)
LEMMA AggError ==
    ASSUME NEW k \in Kinds, NEW type, NEW cells, Len(cells) \in Nat \ {0}
    PROVE  /\ AggFails(k, type, Present(cells)) <=>
                \E i \in 1..Len(cells) : UpdateFails(k, type, cells[i])
           /\ AppendAgg(k, type, cells) = Error <=>
                \E i \in 1..Len(cells) : UpdateFails(k, type, cells[i])
  <1> DEFINE vs == Present(cells)
             agg == AppendAgg(k, type, cells)
  <1>1. AggIs(k, type, Len(cells), vs, agg)
    BY AppendAggIs
  <1>2. vs # <<>> <=> \E i \in 1..Len(cells) : cells[i] # Null
    BY PresentSome
  <1>3. 1 \in 1..Len(cells)
    OBVIOUS
  <1> HIDE DEF vs, agg
  <1>4. AggFails(k, type, vs) <=> \E i \in 1..Len(cells) : UpdateFails(k, type, cells[i])
    BY <1>2, <1>3 DEF AggFails, UpdateFails
  <1>5. AggFails(k, type, vs) => agg = Error
    BY <1>1 DEF AggIs
  <1>6. ~AggFails(k, type, vs) => agg # Error
    BY <1>1, AggIsCell, ErrorIsNoCell
  <1> QED
    BY <1>4, <1>5, <1>6 DEF vs, agg

-----------------------------------------------------------------------------
(* The streaming build. *)

CellsAt(f, order) == [i \in 1..Len(order) |-> f.value.cells[order[i]]]

\* acc is the accumulator of these rows.
AccOf(f, k, rows, acc) ==
    Kept(k, f.value.type, Values(f.value.type), acc,
         Len(CellsAt(f, InOrder(rows))), Present(CellsAt(f, InOrder(rows))))

LEMMA WiderSeq ==
    ASSUME NEW S, NEW T, S \subseteq T, NEW s \in Seq(S)
    PROVE  s \in Seq(T)
  <1>1. Len(s) \in Nat /\ s \in [1..Len(s) -> S]
    BY LenProperties
  <1>2. s \in [1..Len(s) -> T]
    BY <1>1
  <1> QED
    BY <1>1, <1>2

LEMMA CellsAtRows ==
    ASSUME NEW f \in Inputs, NEW rows, rows \subseteq Rows(f)
    PROVE  /\ CellsAt(f, InOrder(rows)) \in Seq(CellsOf(Values(f.value.type)))
           /\ Len(CellsAt(f, InOrder(rows))) = Cardinality(rows)
           /\ IsFiniteSet(rows) /\ rows \subseteq Int /\ Cardinality(rows) \in Nat
           /\ Len(InOrder(rows)) = Cardinality(rows)
           /\ \A i \in 1..Len(InOrder(rows)) : InOrder(rows)[i] \in rows
           /\ \A r \in rows : \E i \in 1..Len(InOrder(rows)) : InOrder(rows)[i] = r
  <1> DEFINE W == CellsOf(Values(f.value.type))
             c == f.value.cells
             n == NumRows(f)
             order == InOrder(rows)
  <1>1. n \in Nat /\ c \in Seq(W) /\ n = Len(c)
    BY FrameFacts DEF NumRows
  <1> HIDE DEF W, c
  <1>2. IsFiniteSet(rows) /\ rows \subseteq Int /\ Cardinality(rows) \in Nat
    <2>1. IsFiniteSet(Rows(f)) /\ Rows(f) \subseteq Int
      <3> HIDE DEF n
      <3>1. IsFiniteSet(1..n)
        BY <1>1, UpTo
      <3> QED
        BY <3>1 DEF Rows, n
    <2> QED
      BY <2>1, FS_Subset, FS_CardinalityType
  <1>3. /\ order \in Seq(rows) /\ Len(order) = Cardinality(rows)
        /\ \A r \in rows : \E i \in 1..Len(order) : order[i] = r
    BY <1>2, InOrderLists
  <1> HIDE DEF order
  <1>4. \A i \in 1..Len(order) : order[i] \in rows
    BY <1>3
  <1>5. \A i \in 1..Len(order) : c[order[i]] \in W
    <2>1. rows \subseteq 1..Len(c)
      BY <1>1 DEF Rows
    <2>2. \A j \in 1..Len(c) : c[j] \in W
      BY <1>1
    <2> QED
      BY <1>4, <2>1, <2>2
  <1>6. CellsAt(f, order) = [i \in 1..Len(order) |-> c[order[i]]]
    BY DEF CellsAt, c
  <1>7. CellsAt(f, order) \in Seq(W) /\ Len(CellsAt(f, order)) = Len(order)
    BY <1>2, <1>3, <1>5, <1>6
  <1> QED
    BY <1>2, <1>3, <1>4, <1>7 DEF order, W

(* A row behind the others updates their accumulator. *)
LEMMA AccRow ==
    ASSUME NEW f \in Inputs, NEW k \in Kinds, NEW rows, rows \subseteq Rows(f),
           NEW r \in Rows(f), \A s \in rows : s < r,
           NEW acc, AccOf(f, k, rows, acc),
           ~UpdateFails(k, f.value.type, f.value.cells[r])
    PROVE  AccOf(f, k, rows \cup {r}, Update(k, f.value.type, acc, f.value.cells[r]))
  <1> DEFINE type == f.value.type
             W == CellsOf(Values(type))
             cell == f.value.cells[r]
             order == InOrder(rows)
             more == Append(order, r)
             cells == CellsAt(f, order)
  <1>1. /\ cells \in Seq(W) /\ IsFiniteSet(rows) /\ rows \subseteq Int
        /\ Len(cells) = Len(order) /\ Len(order) \in Nat
    BY CellsAtRows
  <1>2. cell \in W
    BY FrameFacts DEF NumRows, Rows
  <1>3. order \in Seq(Int) /\ r \in Int
    <2>1. order \in Seq(rows)
      BY <1>1, InOrderLists
    <2>2. r \in Int
      BY FrameFacts DEF Rows
    <2>3. rows \subseteq Int
      BY <1>1
    <2> HIDE DEF order
    <2>4. order \in Seq(Int)
      BY <2>1, <2>3, WiderSeq
    <2> QED
      BY <2>2, <2>4
  <1>4. InOrder(rows \cup {r}) = more
    BY <1>1, <1>3, InOrderAppend
  <1>5. /\ Len(more) = Len(order) + 1 /\ more[Len(order) + 1] = r
        /\ \A i \in 1..Len(order) : more[i] = order[i]
    <2> HIDE DEF order
    <2> QED
      BY <1>3, AppendProperties
  <1>6. CellsAt(f, more) = Append(cells, cell)
    <2> DEFINE a == CellsAt(f, more)
               b == Append(cells, cell)
               n == Len(order)
    <2>1. /\ b \in Seq(W) /\ Len(b) = n + 1 /\ b[n + 1] = cell
          /\ \A i \in 1..n : b[i] = cells[i]
      <3> HIDE DEF cells, cell, W, order
      <3> QED
        BY <1>1, <1>2, AppendProperties
    <2>2. \A i \in 1..n : cells[i] = f.value.cells[order[i]]
      BY DEF CellsAt
    <2>3. a = [i \in 1..(n + 1) |-> f.value.cells[more[i]]]
      BY <1>5 DEF CellsAt
    <2>4. \A i \in 1..(n + 1) : i \in 1..n \/ i = n + 1
      BY <1>1
    <2> HIDE DEF a, b, cells, order, more, n
    <2>5. \A i \in 1..(n + 1) : b[i] = f.value.cells[more[i]]
      BY <1>5, <2>1, <2>2, <2>4 DEF n, cell
    <2>6. b = [i \in 1..(n + 1) |-> b[i]]
      BY <2>1
    <2>7. a = b
      BY <2>3, <2>5, <2>6
    <2> QED
      BY <2>7 DEF a, b
  <1>7. Kept(k, type, Values(type), acc, Len(cells), Present(cells))
    BY DEF AccOf
  <1> HIDE DEF cells, order, more, cell
  <1>8. Kept(k, type, Values(type), Update(k, type, acc, cell), Len(cells) + 1,
             Present(Append(cells, cell)))
    <2>1. ~UpdateFails(k, type, cell)
      BY DEF cell
    <2> HIDE DEF type
    <2> QED
      BY <1>1, <1>2, <1>7, <2>1, KeptCell
  <1>9. Len(Append(cells, cell)) = Len(cells) + 1
    BY <1>1, <1>2, AppendProperties
  <1> QED
    BY <1>4, <1>6, <1>8, <1>9 DEF AccOf, cell

\* The rows up to m that have a group id.
IdRows(f, m, id) == {r \in 1..m : GroupId(f, r) = {id}}

\* group is that of its id after m rows.
IsGroup(f, k, m, group) ==
    /\ group = [id |-> group.id, key |-> group.key, acc |-> group.acc]
    /\ \E r \in IdRows(f, m, group.id) : group.key = FirstTouch(f, group.id, r).key
    /\ AccOf(f, k, IdRows(f, m, group.id), group.acc)

\* gs is the table of groups after m rows.
Built(f, k, m, gs) ==
    /\ Len(gs) \in Nat /\ gs = [g \in 1..Len(gs) |-> gs[g]]
    /\ \A g \in 1..Len(gs) : IsGroup(f, k, m, gs[g])
    /\ \A g, h \in 1..Len(gs) : gs[g].id = gs[h].id => g = h
    /\ \A r \in 1..m : GroupId(f, r) # {} => \E g \in 1..Len(gs) : GroupId(f, r) = {gs[g].id}

(* A row has one group id or none. *)
LEMMA GroupIdIs ==
    ASSUME NEW f, NEW r
    PROVE  GroupId(f, r) = {} \/ \E id : GroupId(f, r) = {id}
  BY DEF GroupId

LEMMA ChooseOne == \A id : (CHOOSE i \in {id} : TRUE) = id
  OBVIOUS

\* The groups with the row in the accumulator of its id.
Updated(all, f, k, id, row) ==
    [g \in 1..Len(all) |->
        IF all[g].id # id THEN all[g]
        ELSE [all[g] EXCEPT !.acc = Update(k, f.value.type, @, f.value.cells[row])]]

LEMMA ConsumeRowIs ==
    ASSUME NEW gs, NEW f, NEW k, NEW r
    PROVE  /\ GroupId(f, r) = {} => ConsumeRow(gs, f, k, r) = gs
           /\ \A id : GroupId(f, r) = {id} =>
                ConsumeRow(gs, f, k, r) = Updated(Touched(gs, f, id, r), f, k, id, r)
  <1>1. GroupId(f, r) = {} => ConsumeRow(gs, f, k, r) = gs
    BY DEF ConsumeRow
  <1>2. ASSUME NEW id, GroupId(f, r) = {id}
        PROVE  ConsumeRow(gs, f, k, r) = Updated(Touched(gs, f, id, r), f, k, id, r)
    <2>1. GroupId(f, r) # {} /\ (CHOOSE i \in GroupId(f, r) : TRUE) = id
      BY <1>2
    <2>2. ConsumeRow(gs, f, k, r) =
            Updated(Touched(gs, f, CHOOSE i \in GroupId(f, r) : TRUE, r), f, k,
                    CHOOSE i \in GroupId(f, r) : TRUE, r)
      BY <2>1 DEF ConsumeRow, Updated
    <2> QED
      BY <2>1, <2>2
  <1> QED
    BY <1>1, <1>2

\* The groups before row r is in the accumulator of its id.
Ready(f, k, m, r, all) ==
    /\ Len(all) \in Nat
    /\ \A g \in 1..Len(all) :
          /\ all[g] = [id |-> all[g].id, key |-> all[g].key, acc |-> all[g].acc]
          /\ \E s \in IdRows(f, r, all[g].id) : all[g].key = FirstTouch(f, all[g].id, s).key
          /\ AccOf(f, k, IdRows(f, m, all[g].id), all[g].acc)
    /\ \A g, h \in 1..Len(all) : all[g].id = all[h].id => g = h
    /\ \A s \in 1..r : GroupId(f, s) # {} => \E g \in 1..Len(all) : GroupId(f, s) = {all[g].id}

LEMMA TouchedReady ==
    ASSUME NEW f \in Inputs, NEW k \in Kinds, NEW m \in Nat, NEW r, r = m + 1,
           NEW gs, Built(f, k, m, gs), NEW id, GroupId(f, r) = {id}
    PROVE  Ready(f, k, m, r, Touched(gs, f, id, r))
  <1> DEFINE n == Len(gs)
             new == FirstTouch(f, id, r)
             all == Touched(gs, f, id, r)
  <1>1. /\ n \in Nat /\ gs = [g \in 1..n |-> gs[g]]
        /\ \A g, h \in 1..n : gs[g].id = gs[h].id => g = h
        /\ \A s \in 1..m : GroupId(f, s) # {} => \E g \in 1..n : GroupId(f, s) = {gs[g].id}
    BY DEF Built
  <1>2. ASSUME NEW g \in 1..n
        PROVE  /\ gs[g] = [id |-> gs[g].id, key |-> gs[g].key, acc |-> gs[g].acc]
               /\ \E s \in IdRows(f, r, gs[g].id) : gs[g].key = FirstTouch(f, gs[g].id, s).key
               /\ AccOf(f, k, IdRows(f, m, gs[g].id), gs[g].acc)
    <2>1. IsGroup(f, k, m, gs[g])
      BY DEF Built
    <2>2. PICK s \in IdRows(f, m, gs[g].id) : gs[g].key = FirstTouch(f, gs[g].id, s).key
      BY <2>1 DEF IsGroup
    <2>3. s \in IdRows(f, r, gs[g].id)
      BY <2>2 DEF IdRows
    <2> QED
      BY <2>1, <2>2, <2>3 DEF IsGroup
  <1>3. \A s \in 1..r : s \in 1..m \/ s = r
    OBVIOUS
  <1>4. CASE \E g \in 1..n : gs[g].id = id
    <2>1. all = gs
      BY <1>4 DEF Touched
    <2>2. \A s \in 1..r : GroupId(f, s) # {} => \E g \in 1..n : GroupId(f, s) = {gs[g].id}
      BY <1>1, <1>3, <1>4
    <2> HIDE DEF all
    <2> QED
      BY <1>1, <1>2, <2>1, <2>2 DEF Ready, n, all
  <1>5. CASE ~ \E g \in 1..n : gs[g].id = id
    <2> DEFINE W == {gs[g] : g \in 1..n} \cup {new}
    <2>1. all = Append(gs, new)
      BY <1>5 DEF Touched
    <2>2. gs \in Seq(W) /\ new \in W
      <3>1. \A g \in 1..n : gs[g] \in W
        OBVIOUS
      <3> HIDE DEF W, n
      <3>2. gs \in [1..n -> W]
        BY <1>1, <3>1
      <3> QED
        BY <1>1, <3>2 DEF W, n
    <2>3. /\ Len(all) = n + 1 /\ all[n + 1] = new
          /\ \A g \in 1..n : all[g] = gs[g]
      <3> HIDE DEF W, all, new
      <3> QED
        BY <2>1, <2>2, AppendProperties DEF n
    <2>4. /\ new.id = id /\ new = [id |-> new.id, key |-> new.key, acc |-> new.acc]
          /\ new.acc = NewAccumulator
      BY DEF FirstTouch
    <2>5. IdRows(f, m, id) = {} /\ r \in IdRows(f, r, id)
      <3>1. \A s \in 1..m : GroupId(f, s) # {id}
        <4> TAKE s \in 1..m
        <4> SUFFICES ASSUME GroupId(f, s) = {id}
                     PROVE  FALSE
          OBVIOUS
        <4>1. PICK g \in 1..n : GroupId(f, s) = {gs[g].id}
          BY <1>1
        <4>2. gs[g].id = id
          BY <4>1
        <4> QED
          BY <1>5, <4>2
      <3>2. r \in 1..r
        OBVIOUS
      <3> QED
        BY <3>1, <3>2 DEF IdRows
    <2>6. AccOf(f, k, {}, NewAccumulator)
      <3> DEFINE none == CellsAt(f, InOrder({}))
                 c == <<>>
      <3>1. {} \subseteq Rows(f)
        OBVIOUS
      <3>2. none \in Seq(CellsOf(Values(f.value.type))) /\ Len(none) = 0
        BY <3>1, CellsAtRows, FS_EmptySet
      <3>3. none = c
        <4> HIDE DEF none
        <4> QED
          BY <3>2
      <3>4. Len(none) = 0 /\ Present(none) = <<>>
        <4> HIDE DEF none
        <4> QED
          BY <3>2, <3>3, PresentEmpty
      <3>5. Kept(k, f.value.type, Values(f.value.type), NewAccumulator, 0, <<>>)
        BY KeptNew
      <3> HIDE DEF none
      <3>6. Kept(k, f.value.type, Values(f.value.type), NewAccumulator, Len(none), Present(none))
        BY <3>4, <3>5
      <3> QED
        BY <3>6 DEF AccOf, none
    <2> HIDE DEF all, new
    <2>7. \A g \in 1..(n + 1) : g \in 1..n \/ g = n + 1
      BY <1>1
    <2>8. ASSUME NEW g \in 1..(n + 1)
          PROVE  /\ all[g] = [id |-> all[g].id, key |-> all[g].key, acc |-> all[g].acc]
                 /\ \E s \in IdRows(f, r, all[g].id) : all[g].key = FirstTouch(f, all[g].id, s).key
                 /\ AccOf(f, k, IdRows(f, m, all[g].id), all[g].acc)
      <3>1. CASE g \in 1..n
        <4>1. all[g] = gs[g]
          BY <2>3, <3>1
        <4> QED
          BY <1>2, <3>1, <4>1
      <3>2. CASE g = n + 1
        <4>1. all[g] = new /\ all[g].id = id /\ all[g].acc = NewAccumulator
          BY <2>3, <2>4, <3>2
        <4>2. new.key = FirstTouch(f, id, r).key
          BY DEF new
        <4>3. AccOf(f, k, IdRows(f, m, all[g].id), all[g].acc)
          BY <2>5, <2>6, <4>1
        <4> QED
          BY <2>4, <2>5, <4>1, <4>2, <4>3
      <3> QED
        BY <2>7, <3>1, <3>2
    <2>9. ASSUME NEW g \in 1..(n + 1), NEW h \in 1..(n + 1), all[g].id = all[h].id
          PROVE  g = h
      <3>1. CASE g \in 1..n /\ h \in 1..n
        BY <1>1, <2>3, <2>9, <3>1
      <3>2. CASE g \in 1..n /\ h = n + 1
        BY <1>5, <2>3, <2>4, <2>9, <3>2
      <3>3. CASE g = n + 1 /\ h \in 1..n
        BY <1>5, <2>3, <2>4, <2>9, <3>3
      <3> QED
        BY <2>7, <3>1, <3>2, <3>3
    <2>10. ASSUME NEW s \in 1..r, GroupId(f, s) # {}
           PROVE  \E g \in 1..(n + 1) : GroupId(f, s) = {all[g].id}
      <3>1. CASE s \in 1..m
        <4>1. PICK g \in 1..n : GroupId(f, s) = {gs[g].id}
          BY <1>1, <2>10, <3>1
        <4>2. g \in 1..(n + 1) /\ all[g] = gs[g]
          BY <1>1, <2>3
        <4> QED
          BY <4>1, <4>2
      <3>2. CASE s = r
        <4>1. n + 1 \in 1..(n + 1)
          BY <1>1
        <4> QED
          BY <2>3, <2>4, <3>2, <4>1
      <3> QED
        BY <1>3, <3>1, <3>2
    <2>11. Len(all) \in Nat
      BY <1>1, <2>3
    <2>12. Ready(f, k, m, r, all)
      BY <2>3, <2>8, <2>9, <2>10, <2>11 DEF Ready
    <2> QED
      BY <2>12 DEF all
  <1> QED
    BY <1>4, <1>5

(* A row extends the table of groups. *)
LEMMA BuiltNext ==
    ASSUME NEW f \in Inputs, NEW k \in Kinds, NEW m \in Nat, NEW r \in Rows(f), r = m + 1,
           NEW gs, Built(f, k, m, gs), ~RowFails(f, k, r)
    PROVE  Built(f, k, r, ConsumeRow(gs, f, k, r))
  <1>1. \A s : s \in 1..r <=> s \in 1..m \/ s = r
    OBVIOUS
  <1>2. ASSUME NEW id
        PROVE  IdRows(f, r, id) = IF GroupId(f, r) = {id} THEN IdRows(f, m, id) \cup {r}
                                  ELSE IdRows(f, m, id)
    BY <1>1 DEF IdRows
  <1>3. CASE GroupId(f, r) = {}
    <2>1. ConsumeRow(gs, f, k, r) = gs
      BY <1>3, ConsumeRowIs
    <2>2. \A id : IdRows(f, r, id) = IdRows(f, m, id)
      BY <1>2, <1>3
    <2>3. /\ Len(gs) \in Nat /\ gs = [g \in 1..Len(gs) |-> gs[g]]
          /\ \A g, h \in 1..Len(gs) : gs[g].id = gs[h].id => g = h
          /\ \A s \in 1..m : GroupId(f, s) # {} => \E g \in 1..Len(gs) : GroupId(f, s) = {gs[g].id}
          /\ \A g \in 1..Len(gs) : IsGroup(f, k, m, gs[g])
      BY DEF Built
    <2>4. \A g \in 1..Len(gs) : IsGroup(f, k, r, gs[g])
      BY <2>2, <2>3 DEF IsGroup
    <2>5. \A s \in 1..r : GroupId(f, s) # {} => \E g \in 1..Len(gs) : GroupId(f, s) = {gs[g].id}
      BY <1>1, <1>3, <2>3
    <2>6. Built(f, k, r, gs)
      BY <2>3, <2>4, <2>5 DEF Built
    <2> QED
      BY <2>1, <2>6
  <1>4. ASSUME NEW id, GroupId(f, r) = {id}
        PROVE  Built(f, k, r, ConsumeRow(gs, f, k, r))
    <2> DEFINE type == f.value.type
               cell == f.value.cells[r]
               all == Touched(gs, f, id, r)
               n == Len(all)
               more == Updated(all, f, k, id, r)
               U(g) == Update(k, type, all[g].acc, cell)
    <2>1. ConsumeRow(gs, f, k, r) = more
      BY <1>4, ConsumeRowIs
    <2>2. Ready(f, k, m, r, all)
      BY <1>4, TouchedReady
    <2>3. ~UpdateFails(k, type, cell)
      BY <1>4 DEF RowFails
    <2>4. more = [g \in 1..n |-> IF all[g].id # id THEN all[g]
                                 ELSE [all[g] EXCEPT !.acc = Update(k, type, @, cell)]]
      BY DEF Updated
    <2>5. n \in Nat /\ \A g, h \in 1..n : all[g].id = all[h].id => g = h
      BY <2>2 DEF Ready
    <2> HIDE DEF all, n
    <2>6. ASSUME NEW g \in 1..n
          PROVE  /\ all[g] = [id |-> all[g].id, key |-> all[g].key, acc |-> all[g].acc]
                 /\ \E s \in IdRows(f, r, all[g].id) : all[g].key = FirstTouch(f, all[g].id, s).key
                 /\ AccOf(f, k, IdRows(f, m, all[g].id), all[g].acc)
      BY <2>2 DEF Ready, n
    <2> HIDE DEF more, type, cell
    <2>7. Len(more) = n /\ more = [g \in 1..n |-> more[g]]
      BY <2>4, <2>5
    <2>8. ASSUME NEW g \in 1..n
          PROVE  IsGroup(f, k, r, more[g]) /\ more[g].id = all[g].id
      <3>1. CASE all[g].id # id
        <4>1. more[g] = all[g]
          BY <2>4, <3>1
        <4>2. IdRows(f, r, all[g].id) = IdRows(f, m, all[g].id)
          <5>1. GroupId(f, r) # {all[g].id}
            BY <1>4, <3>1
          <5> QED
            BY <1>2, <5>1
        <4> QED
          BY <2>6, <4>1, <4>2 DEF IsGroup
      <3>2. CASE all[g].id = id
        <4> DEFINE u == U(g)
                   x == all[g]
        <4>1. more[g] = [x EXCEPT !.acc = u]
          BY <2>4, <3>2
        <4> HIDE DEF u
        <4>2. more[g] = [id |-> x.id, key |-> x.key, acc |-> u]
          <5>1. x = [id |-> x.id, key |-> x.key, acc |-> x.acc]
            BY <2>6
          <5> HIDE DEF x
          <5> QED
            BY <4>1, <5>1
        <4>3. more[g].id = x.id /\ more[g].key = x.key /\ more[g].acc = u
          BY <4>2
        <4>4. more[g] = [id |-> more[g].id, key |-> more[g].key, acc |-> more[g].acc]
          BY <4>2, <4>3
        <4>5. \E s \in IdRows(f, r, more[g].id) : more[g].key = FirstTouch(f, more[g].id, s).key
          <5>1. \E s \in IdRows(f, r, x.id) : x.key = FirstTouch(f, x.id, s).key
            BY <2>6
          <5> HIDE DEF x
          <5> QED
            BY <4>3, <5>1
        <4> DEFINE rows == IdRows(f, m, id)
        <4>6. IdRows(f, r, more[g].id) = rows \cup {r}
          BY <1>2, <1>4, <3>2, <4>3
        <4>7. rows \subseteq Rows(f) /\ \A s \in rows : s < r
          <5>1. rows \subseteq 1..m /\ r \in 1..NumRows(f) /\ NumRows(f) \in Nat
            BY FrameFacts DEF IdRows, Rows
          <5> HIDE DEF rows
          <5> QED
            BY <5>1 DEF Rows
        <4>8. AccOf(f, k, rows, x.acc)
          BY <2>6, <3>2
        <4> HIDE DEF rows, x
        <4>9. AccOf(f, k, rows \cup {r}, u)
          BY <2>3, <4>7, <4>8, AccRow DEF u, type, cell, x
        <4>10. AccOf(f, k, IdRows(f, r, more[g].id), more[g].acc)
          BY <4>3, <4>6, <4>9
        <4> QED
          BY <4>3, <4>4, <4>5, <4>10 DEF IsGroup, x
      <3> QED
        BY <3>1, <3>2
    <2>9. \A g, h \in 1..n : more[g].id = more[h].id => g = h
      BY <2>5, <2>8
    <2>10. \A s \in 1..r : GroupId(f, s) # {} => \E g \in 1..n : GroupId(f, s) = {more[g].id}
      <3> TAKE s \in 1..r
      <3> HAVE GroupId(f, s) # {}
      <3>1. PICK g \in 1..n : GroupId(f, s) = {all[g].id}
        BY <2>2 DEF Ready, n
      <3> QED
        BY <2>8, <3>1
    <2>11. Built(f, k, r, more)
      BY <2>5, <2>7, <2>8, <2>9, <2>10 DEF Built
    <2> QED
      BY <2>1, <2>11
  <1> QED
    BY <1>3, <1>4, GroupIdIs

(* The rows behind one another build the table, when none fails. *)
LEMMA RowsBuilt ==
    ASSUME NEW f \in Inputs, NEW k \in Kinds, NEW to \in Nat, to <= NumRows(f),
           \A r \in 1..to : ~RowFails(f, k, r)
    PROVE  Built(f, k, to, ConsumeRows(<<>>, f, k, 0, to))
  <1> DEFINE none == <<>>
             B(m) == Built(f, k, m, ConsumeRows(none, f, k, 0, m))
             S == {m \in Nat : m <= to => B(m)}
  <1>1. NumRows(f) \in Nat
    BY FrameFacts
  <1>2. 0 \in S
    <2>1. ConsumeRows(none, f, k, 0, 0) = none
      <3>1. 0 \in Nat /\ 0 <= 0 /\ 1 = 0 + 1
        OBVIOUS
      <3> HIDE DEF none
      <3> QED
        BY <3>1, ConsumeRowsNext
    <2>2. Len(none) = 0 /\ none = [g \in 1..0 |-> none[g]]
      OBVIOUS
    <2> HIDE DEF none
    <2>3. Built(f, k, 0, none)
      BY <2>2 DEF Built
    <2> QED
      BY <2>1, <2>3
  <1>3. ASSUME NEW m \in Nat, m \in S
        PROVE  m + 1 \in S
    <2> SUFFICES ASSUME m + 1 <= to
                 PROVE  B(m + 1)
      OBVIOUS
    <2> DEFINE r == m + 1
               gs == ConsumeRows(none, f, k, 0, m)
    <2>1. r \in Rows(f) /\ r \in Nat /\ r \in 1..to
      BY <1>1 DEF Rows
    <2>2. Built(f, k, m, gs)
      BY <1>3
    <2>3. r = m + 1 /\ 0 \in Nat /\ 0 <= m
      OBVIOUS
    <2> HIDE DEF r, none
    <2>4. Steps(none, f, k, 0, m, r)
      BY <2>1, <2>3, ConsumeRowsNext
    <2>5. ConsumeRows(none, f, k, 0, r) = ConsumeRow(gs, f, k, r)
      BY <2>4 DEF Steps
    <2> HIDE DEF gs
    <2>6. ~RowFails(f, k, r)
      BY <2>1
    <2>7. Built(f, k, r, ConsumeRow(gs, f, k, r))
      BY <2>1, <2>2, <2>3, <2>6, BuiltNext
    <2> QED
      BY <2>5, <2>7 DEF r
  <1>4. \A m \in Nat : m \in S
    <2> HIDE DEF S
    <2> QED
      BY <1>2, <1>3, SetInduction
  <1>5. B(to)
    BY <1>4
  <1> QED
    BY <1>5

-----------------------------------------------------------------------------
(* The streaming result is an answer. *)

\* The streaming modes keep every row.
NullFree(f) == (Texts(f.keys) \/ Ints(f.keys)) => ~HasNull(f.keys[1])

StreamIds(f) == [r \in Rows(f) |-> CHOOSE i \in GroupId(f, r) : TRUE]

(* The id of a row stands for its key. *)
LEMMA StreamIdsAre ==
    ASSUME NEW f \in Inputs, PlainFrame(f), NullFree(f)
    PROVE  /\ \A r \in Rows(f) :
                 /\ GroupId(f, r) = {StreamIds(f)[r]}
                 /\ StreamIds(f)[r] \in Ids(Ints(f.keys))
                 /\ FirstTouch(f, StreamIds(f)[r], r).key = KeyCells(f.keys, r)
           /\ IdsAgree(f, StreamIds(f))
  <1> DEFINE ids == StreamIds(f)
             c == f.keys[1]
             Id(r) == IF Texts(f.keys) \/ Ints(f.keys) THEN c.cells[r][1] ELSE RowKey(f.keys, r)
  <1>1. /\ Len(f.keys) \in Nat \ {0} /\ NumRows(f) \in Nat
        /\ \A k \in 1..Len(f.keys) :
              /\ f.keys[k].type \in KeyTypes /\ Len(f.keys[k].cells) = NumRows(f)
              /\ \A r \in Rows(f) : f.keys[k].cells[r] \in CellsOf(Values(f.keys[k].type))
    BY FrameFacts
  <1>2. ASSUME NEW r \in Rows(f), Texts(f.keys) \/ Ints(f.keys)
        PROVE  /\ c.cells[r] # Null /\ c.cells[r] = <<c.cells[r][1]>>
               /\ c.cells[r][1] \in Values(c.type)
    <2>1. 1 \in 1..Len(f.keys)
      BY <1>1
    <2>2. c.cells[r] \in CellsOf(Values(c.type)) /\ Len(c.cells) = NumRows(f)
      BY <1>1, <2>1
    <2>3. c.cells \in Seq(CellsOf(Values(c.type)))
      BY <2>1, FrameFacts
    <2>4. c.cells[r] # Null
      <3>1. Null \notin Range(c.cells)
        BY <1>2 DEF NullFree, HasNull
      <3>2. DOMAIN c.cells = 1..NumRows(f)
        BY <2>2, <2>3, LenProperties
      <3> QED
        BY <3>1, <3>2 DEF Range, Rows
    <2> HIDE DEF c
    <2> QED
      BY <2>2, <2>4, CellForm
  <1>3. ASSUME NEW r \in Rows(f)
        PROVE  GroupId(f, r) = {Id(r)}
    <2>1. CASE Texts(f.keys)
      <3>1. c.cells[r] # Null
        BY <1>2, <2>1
      <3> QED
        BY <2>1, <3>1 DEF GroupId
    <2>2. CASE ~Texts(f.keys) /\ Ints(f.keys)
      <3>1. c.cells[r] # Null
        BY <1>2, <2>2
      <3> QED
        BY <2>2, <3>1 DEF GroupId
    <2>3. CASE ~Texts(f.keys) /\ ~Ints(f.keys)
      BY <2>3 DEF GroupId
    <2> QED
      BY <2>1, <2>2, <2>3
  <1>4. \A r \in Rows(f) : ids[r] = Id(r)
    <2> TAKE r \in Rows(f)
    <2> DEFINE id == Id(r)
    <2>1. ids[r] = CHOOSE i \in GroupId(f, r) : TRUE
      BY DEF StreamIds
    <2>2. GroupId(f, r) = {id}
      BY <1>3
    <2> HIDE DEF id, ids
    <2>3. (CHOOSE i \in {id} : TRUE) = id
      BY ChooseOne
    <2>4. ids[r] = id
      BY <2>1, <2>2, <2>3
    <2> QED
      BY <2>4 DEF id
  <1>5. \A r \in Rows(f) : KeyRow(f.keys, r)
    BY PlainRows
  <1>6. ASSUME NEW r \in Rows(f)
        PROVE  Id(r) \in Ids(Ints(f.keys))
    <2>1. CASE Texts(f.keys)
      <3>1. c.type = "text" /\ ~Ints(f.keys)
        BY <2>1 DEF Texts, Ints
      <3>2. Id(r) \in Seq(0..255)
        BY <1>2, <2>1, <3>1 DEF Values
      <3>3. 0..255 \subseteq Int
        OBVIOUS
      <3>4. Id(r) \in Seq(Int)
        <4> HIDE DEF Id
        <4> DEFINE S == 0..255
        <4>1. S \subseteq Int /\ Id(r) \in Seq(S)
          BY <3>2, <3>3
        <4> HIDE DEF S
        <4> QED
          BY <4>1, WiderSeq
      <3> QED
        BY <3>1, <3>4 DEF Ids
    <2>2. CASE ~Texts(f.keys) /\ Ints(f.keys)
      <3>1. c.type \in {"int", "bool"}
        BY <2>2 DEF Ints
      <3>2. Values(c.type) \subseteq Int
        BY <3>1 DEF Values, Shorts
      <3> QED
        BY <1>2, <2>2, <3>2 DEF Ids
    <2>3. CASE ~Texts(f.keys) /\ ~Ints(f.keys)
      <3>1. RowKey(f.keys, r) \in Seq(Int)
        BY <1>1, <1>5, RowKeyCells
      <3> QED
        BY <2>3, <3>1 DEF Ids
    <2> QED
      BY <2>1, <2>2, <2>3
  <1>7. ASSUME NEW r \in Rows(f)
        PROVE  FirstTouch(f, Id(r), r).key = KeyCells(f.keys, r)
    <2>1. CASE Texts(f.keys)
      <3>1. KeyCells(f.keys, r) = <<c.cells[r]>>
        BY <2>1, OneCell DEF Texts
      <3>2. c.cells[r] = <<Id(r)>>
        BY <1>2, <2>1
      <3>3. FirstTouch(f, Id(r), r).key = <<<<Id(r)>>>>
        BY <2>1 DEF FirstTouch
      <3> HIDE DEF Id, c
      <3> QED
        BY <3>1, <3>2, <3>3
    <2>2. CASE ~Texts(f.keys)
      BY <2>2 DEF FirstTouch
    <2> QED
      BY <2>1, <2>2
  <1>8. ASSUME NEW r \in Rows(f), NEW s \in Rows(f)
        PROVE  Id(r) = Id(s) <=> KeyCells(f.keys, r) = KeyCells(f.keys, s)
    <2>1. CASE Texts(f.keys) \/ Ints(f.keys)
      <3>1. KeyCells(f.keys, r) = <<c.cells[r]>> /\ KeyCells(f.keys, s) = <<c.cells[s]>>
        BY <2>1, OneCell DEF Texts, Ints
      <3>2. c.cells[r] = <<Id(r)>> /\ c.cells[s] = <<Id(s)>>
        BY <1>2, <2>1
      <3> HIDE DEF Id, c
      <3> QED
        BY <3>1, <3>2, OneValue
    <2>2. CASE ~(Texts(f.keys) \/ Ints(f.keys))
      <3>1. RowKey(f.keys, r) = RowKey(f.keys, s) <=> KeyCells(f.keys, r) = KeyCells(f.keys, s)
        BY <1>1, <1>5, RowKeyCells
      <3> QED
        BY <2>2, <3>1
    <2> QED
      BY <2>1, <2>2
  <1> HIDE DEF ids, Id
  <1>9. IdsAgree(f, ids)
    BY <1>4, <1>8 DEF IdsAgree
  <1> QED
    BY <1>3, <1>4, <1>6, <1>7, <1>9 DEF ids

\* result is the answer of the groups G, which lists them in the order of ids.
Streams(f, k, ids, order, G, result1) ==
    /\ IdsAgree(f, ids) /\ OrderOf(f, ids, order)
    /\ Lists(Ints(f.keys), order, {ids[r] : r \in Rows(f)})
    /\ GroupedBy(f, ids, order, G) /\ Faithful(f, G)
    /\ \A i \in 1..Len(G) : RowOf(f, k, G[i]).agg # Error
    /\ result1 = [i \in 1..Len(G) |-> RowOf(f, k, G[i])]
    /\ result1 = Answer(f, G, k)

(* What is emitted from the finished table is the answer of its groups. *)
LEMMA Streamed ==
    ASSUME NEW f \in Inputs, PlainFrame(f), NullFree(f), NEW k \in Kinds,
           \A r \in Rows(f) : ~RowFails(f, k, r),
           NEW gs, Built(f, k, NumRows(f), gs)
    PROVE  \E G : Streams(f, k, StreamIds(f),
                          Ascending(Ints(f.keys), {StreamIds(f)[r] : r \in Rows(f)}),
                          G, Emitted(gs, f, k))
  <1> DEFINE numeric == Ints(f.keys)
             ids == StreamIds(f)
             S == {ids[r] : r \in Rows(f)}
             order == Ascending(numeric, S)
             n == Len(gs)
             m == Len(order)
             Id(x) == CHOOSE g \in 1..n : gs[g].id = x
             Rs(i) == RowsOfId(f, ids, order[i])
             G == [i \in 1..m |-> [key |-> gs[Id(order[i])].key, rows |-> InOrder(Rs(i))]]
             out == Emitted(gs, f, k)
  <1>1. /\ \A r \in Rows(f) : /\ GroupId(f, r) = {ids[r]} /\ ids[r] \in Ids(numeric)
                              /\ FirstTouch(f, ids[r], r).key = KeyCells(f.keys, r)
        /\ IdsAgree(f, ids)
    BY StreamIdsAre
  <1>2. NumRows(f) \in Nat /\ numeric \in BOOLEAN
    BY FrameFacts DEF Ints
  <1> HIDE DEF ids
  <1>3. OrderOf(f, ids, order) /\ Lists(numeric, order, S)
    <2> HIDE DEF numeric
    <2> QED
      BY <1>1, <1>2, SortedOrder
  <1>4. /\ n \in Nat /\ \A g \in 1..n : IsGroup(f, k, NumRows(f), gs[g])
        /\ \A g, h \in 1..n : gs[g].id = gs[h].id => g = h
        /\ \A r \in Rows(f) : GroupId(f, r) # {} => \E g \in 1..n : GroupId(f, r) = {gs[g].id}
    BY DEF Built, Rows
  <1>5. \A id : IdRows(f, NumRows(f), id) = RowsOfId(f, ids, id)
    <2> TAKE id
    <2>1. \A r \in Rows(f) : GroupId(f, r) = {id} <=> ids[r] = id
      BY <1>1
    <2> QED
      BY <2>1 DEF IdRows, RowsOfId, Rows
  <1>6. {gs[g].id : g \in 1..n} = S
    <2>1. ASSUME NEW g \in 1..n
          PROVE  gs[g].id \in S
      <3>1. \E r \in IdRows(f, NumRows(f), gs[g].id) : TRUE
        BY <1>4 DEF IsGroup
      <3>2. PICK r \in Rows(f) : ids[r] = gs[g].id
        BY <1>5, <3>1 DEF RowsOfId
      <3> QED
        BY <3>2
    <2>2. ASSUME NEW r \in Rows(f)
          PROVE  \E g \in 1..n : gs[g].id = ids[r]
      <3>1. PICK g \in 1..n : GroupId(f, r) = {gs[g].id}
        BY <1>1, <1>4
      <3>2. gs[g].id = ids[r]
        BY <1>1, <3>1
      <3> QED
        BY <3>2
    <2> QED
      BY <2>1, <2>2
  <1>7. out = [i \in 1..m |-> [key |-> gs[Id(order[i])].key,
                               agg |-> Finalize(k, gs[Id(order[i])].acc)]]
    <2>1. order = Ascending(Ints(f.keys), {gs[g].id : g \in 1..n})
      BY <1>6
    <2> HIDE DEF order
    <2> QED
      BY <2>1 DEF Emitted
  <1> HIDE DEF S, order, numeric, out
  <1>8. m \in Nat /\ \A i \in 1..m : order[i] \in S
    BY <1>3 DEF OrderOf, S
  <1>9. ASSUME NEW i \in 1..m
        PROVE  LET w == Id(order[i])
               IN  /\ w \in 1..n /\ gs[w].id = order[i]
                   /\ \E r \in Rows(f) : ids[r] = order[i] /\ gs[w].key = KeyCells(f.keys, r)
                   /\ AccOf(f, k, Rs(i), gs[w].acc)
                   /\ Finalize(k, gs[w].acc) = RowOf(f, k, G[i]).agg
                   /\ RowOf(f, k, G[i]).agg # Error
    <2> DEFINE x == order[i]
               w == Id(x)
               group == gs[w]
    <2>1. w \in 1..n /\ gs[w].id = x
      <3>1. \E g \in 1..n : gs[g].id = x
        <4>1. x \in {gs[g].id : g \in 1..n}
          BY <1>6, <1>8
        <4> HIDE DEF x
        <4> QED
          BY <4>1
      <3> HIDE DEF x
      <3> QED
        BY <3>1
    <2>2. IsGroup(f, k, NumRows(f), group)
      <3> HIDE DEF w
      <3> QED
        BY <1>4, <2>1
    <2>3. \E r \in RowsOfId(f, ids, x) : group.key = FirstTouch(f, x, r).key
      <3> HIDE DEF w, x
      <3> QED
        BY <1>5, <2>1, <2>2 DEF IsGroup
    <2>4. PICK r \in Rows(f) : ids[r] = x /\ group.key = FirstTouch(f, x, r).key
      BY <2>3 DEF RowsOfId
    <2>5. group.key = KeyCells(f.keys, r)
      BY <1>1, <2>4
    <2>6. AccOf(f, k, Rs(i), group.acc)
      <3> HIDE DEF w
      <3> QED
        BY <1>5, <2>1, <2>2 DEF IsGroup
    <2> DEFINE rows == Rs(i)
               cells == CellsAt(f, InOrder(rows))
               type == f.value.type
               vs == Present(cells)
    <2>7. rows \subseteq Rows(f) /\ r \in rows
      BY <2>4 DEF RowsOfId
    <2> HIDE DEF rows
    <2>8. /\ cells \in Seq(CellsOf(Values(type)))
          /\ Len(cells) = Cardinality(rows) /\ Cardinality(rows) \in Nat /\ IsFiniteSet(rows)
          /\ Len(InOrder(rows)) = Len(cells)
          /\ \A j \in 1..Len(InOrder(rows)) : InOrder(rows)[j] \in rows
      BY <2>7, CellsAtRows
    <2>9. Len(cells) \in Nat \ {0}
      <3>1. Cardinality(rows) # 0
        BY <2>7, <2>8, FS_EmptySet
      <3> HIDE DEF cells
      <3> QED
        BY <2>8, <3>1
    <2>10. \A j \in 1..Len(cells) : ~UpdateFails(k, type, cells[j])
      <3> TAKE j \in 1..Len(cells)
      <3> DEFINE s == InOrder(rows)[j]
      <3>1. s \in Rows(f) /\ cells[j] = f.value.cells[s]
        BY <2>7, <2>8 DEF CellsAt
      <3>2. GroupId(f, s) # {}
        BY <1>1, <3>1
      <3> QED
        BY <3>1, <3>2 DEF RowFails
    <2>11. Kept(k, type, Values(type), group.acc, Len(cells), vs)
      BY <2>6 DEF AccOf, rows
    <2> HIDE DEF cells, group
    <2>12. ~AggFails(k, type, vs) /\ AppendAgg(k, type, cells) # Error
      BY <2>9, <2>10, AggError
    <2>13. vs \in Seq(Values(type))
      <3>1. Null \in CellsOf(Values(type))
        BY DEF CellsOf
      <3> QED
        BY <2>8, <3>1, PresentAppend
    <2> HIDE DEF vs, type
    <2>14. Finalize(k, group.acc) = AppendAgg(k, type, cells)
      BY <2>8, <2>11, <2>12, <2>13, FinalizeKept DEF vs, type
    <2>15. RowOf(f, k, G[i]).agg = AppendAgg(k, type, cells)
      <3>1. G[i].rows = InOrder(rows)
        BY DEF rows
      <3> HIDE DEF G
      <3>2. RowOf(f, k, G[i]).agg = AppendAgg(k, type, CellsAt(f, G[i].rows))
        BY DEF RowOf, CellsAt, type
      <3> QED
        BY <3>1, <3>2 DEF cells
    <2> HIDE DEF w, x
    <2>16. Finalize(k, group.acc) = RowOf(f, k, G[i]).agg /\ RowOf(f, k, G[i]).agg # Error
      <3> HIDE DEF G
      <3> QED
        BY <2>12, <2>14, <2>15
    <2> QED
      BY <2>1, <2>4, <2>5, <2>6, <2>16 DEF group, w, x
  <1>10. ASSUME NEW i \in 1..m
         PROVE  G[i] = [key |-> gs[Id(order[i])].key, rows |-> InOrder(Rs(i))]
    OBVIOUS
  <1>11. Len(G) = m /\ G = [i \in 1..m |-> G[i]]
    BY <1>8
  <1> HIDE DEF G, Id, m
  <1>12. GroupedBy(f, ids, order, G)
    <2>1. ASSUME NEW i \in 1..m
          PROVE  \E r \in Rows(f) :
                   /\ ids[r] = order[i]
                   /\ G[i] = [key |-> KeyCells(f.keys, r), rows |-> InOrder(RowsOfId(f, ids, order[i]))]
      BY <1>9, <1>10
    <2> QED
      BY <1>11, <2>1 DEF GroupedBy, m
  <1>13. Faithful(f, G)
    BY <1>1, <1>3, <1>12, GroupedIsFaithful
  <1>14. out = [i \in 1..m |-> RowOf(f, k, G[i])]
    <2>1. ASSUME NEW i \in 1..m
          PROVE  [key |-> gs[Id(order[i])].key, agg |-> Finalize(k, gs[Id(order[i])].acc)]
                    = RowOf(f, k, G[i])
      <3>1. Finalize(k, gs[Id(order[i])].acc) = RowOf(f, k, G[i]).agg
        BY <1>9
      <3>2. RowOf(f, k, G[i]) = [key |-> G[i].key, agg |-> RowOf(f, k, G[i]).agg]
        BY RowOfShape
      <3>3. G[i].key = gs[Id(order[i])].key
        <4>1. PICK key, rows : key = gs[Id(order[i])].key /\ G[i] = [key |-> key, rows |-> rows]
          <5> HIDE DEF Rs
          <5> QED
            BY <1>10
        <4> QED
          BY <4>1
      <3> QED
        BY <3>1, <3>2, <3>3
    <2> QED
      BY <1>7, <2>1
  <1>15. \A i \in 1..m : RowOf(f, k, G[i]).agg # Error
    BY <1>9
  <1>16. Answer(f, G, k) = out
    <2>1. Answers(f, G, k, Answer(f, G, k))
      BY <1>8, <1>11, AnswerRows
    <2> QED
      BY <1>11, <1>14, <1>15, <2>1 DEF Answers
  <1>17. Streams(f, k, ids, order, G, out)
    BY <1>1, <1>3, <1>11, <1>12, <1>13, <1>14, <1>15, <1>16 DEF Streams, numeric, S
  <1> QED
    BY <1>17 DEF ids, order, numeric, S, out

-----------------------------------------------------------------------------
(* The build: whatever the batches, the groups are those of all the rows   *)
(* read so far, in their order.                                            *)

FailsIn(f, k, rows) == \E r \in rows : RowFails(f, k, r)

\* What is true of a build at all times: the groups are a function of the
\* rows read alone, never of where the batches were cut, and it has failed
\* only for a row that cannot be read.
BatchFree ==
    /\ input \in Inputs /\ kind \in Kinds
    /\ at \in 0..NumRows(input)
    /\ status \in {"building", "failed", "done"}
    /\ status # "failed" =>
          /\ groups = ConsumeRows(<<>>, input, kind, 0, at)
          /\ ~FailsIn(input, kind, 1..at)
    /\ status # "done" => result = <<>>
    /\ status = "failed" => FailsIn(input, kind, Rows(input))
    /\ status = "done" => at = NumRows(input) /\ result = Emitted(groups, input, kind)

LEMMA BatchFreeInit == Init => BatchFree
  <1> SUFFICES ASSUME Init PROVE BatchFree
    OBVIOUS
  <1>1. NumRows(input) \in Nat
    BY FrameFacts DEF Init
  <1>2. ConsumeRows(<<>>, input, kind, 0, 0) = <<>>
    BY ConsumeRowsNext
  <1>3. ~FailsIn(input, kind, 1..0)
    BY DEF FailsIn
  <1> QED
    BY <1>1, <1>2, <1>3 DEF Init, BatchFree

LEMMA BatchFreeConsume ==
    ASSUME BatchFree, NEW size \in BatchSizes, Consume(size)
    PROVE  BatchFree'
  <1> DEFINE rows == NumRows(input)
             last == IF at + size > rows THEN rows ELSE at + size
             fails == FailsIn(input, kind, at + 1..last)
  <1>1. rows \in Nat /\ input \in Inputs /\ kind \in Kinds /\ at \in 0..rows
    BY FrameFacts DEF BatchFree
  <1>2. size \in Nat \ {0}
    BY InputsAssumption
  <1>3. status = "building" /\ at < rows /\ at' = last
        /\ groups' = (IF fails THEN groups ELSE ConsumeRows(groups, input, kind, at, last))
        /\ status' = (IF fails THEN "failed" ELSE status)
        /\ input' = input /\ kind' = kind /\ result' = result
    BY DEF Consume, FailsIn
  <1>4. rows' = rows /\ Rows(input)' = 1..rows
    BY <1>3 DEF NumRows, Rows
  <1> HIDE DEF rows
  <1>5. last \in 0..rows /\ at <= last /\ at \in Nat /\ last \in Nat
    BY <1>1, <1>2, <1>3
  <1>6. result' = <<>>
    BY <1>3 DEF BatchFree
  <1> HIDE DEF last
  <1>7. CASE fails
    <2>1. FailsIn(input, kind, 1..rows)
      <3>1. PICK r \in at + 1..last : RowFails(input, kind, r)
        BY <1>7 DEF FailsIn
      <3>2. r \in 1..rows
        BY <1>1, <1>5
      <3> QED
        BY <3>1, <3>2 DEF FailsIn
    <2>2. FailsIn(input, kind, Rows(input))'
      BY <1>3, <1>4, <2>1 DEF FailsIn, RowFails, GroupId, Rows
    <2> QED
      BY <1>1, <1>3, <1>4, <1>5, <1>6, <1>7, <2>2 DEF BatchFree, rows
  <1>8. CASE ~fails
    <2>1. groups = ConsumeRows(<<>>, input, kind, 0, at) /\ ~FailsIn(input, kind, 1..at)
      BY <1>3 DEF BatchFree
    <2>2. groups' = ConsumeRows(<<>>, input, kind, 0, last)
      BY <1>3, <1>5, <1>8, <2>1, ConsumeRowsTwice
    <2>3. ~FailsIn(input, kind, 1..last)
      BY <1>5, <1>8, <2>1 DEF FailsIn
    <2>4. status' = "building"
      BY <1>3, <1>8
    <2>5. groups' = ConsumeRows(<<>>, input', kind', 0, at') /\ ~FailsIn(input', kind', 1..at')
      BY <1>3, <2>2, <2>3
    <2>6. input' \in Inputs /\ kind' \in Kinds /\ at' \in 0..NumRows(input')
      BY <1>1, <1>3, <1>5 DEF rows
    <2> QED
      BY <1>6, <2>4, <2>5, <2>6 DEF BatchFree
  <1> QED
    BY <1>7, <1>8

LEMMA BatchFreeFinish == ASSUME BatchFree, Finish PROVE BatchFree'
  <1>1. /\ status = "building" /\ status' = "done" /\ at = NumRows(input)
        /\ result' = Emitted(groups, input, kind)
        /\ input' = input /\ kind' = kind /\ at' = at /\ groups' = groups
    BY DEF Finish
  <1>2. /\ input \in Inputs /\ kind \in Kinds /\ at \in 0..NumRows(input)
        /\ groups = ConsumeRows(<<>>, input, kind, 0, at) /\ ~FailsIn(input, kind, 1..at)
    BY <1>1 DEF BatchFree
  <1>3. input' \in Inputs /\ kind' \in Kinds /\ at' \in 0..NumRows(input')
        /\ groups' = ConsumeRows(<<>>, input', kind', 0, at') /\ ~FailsIn(input', kind', 1..at')
        /\ at' = NumRows(input') /\ result' = Emitted(groups', input', kind')
    BY <1>1, <1>2
  <1> QED
    BY <1>1, <1>3 DEF BatchFree

LEMMA BatchFreeStep == BatchFree /\ [Next]_vars => BatchFree'
  <1> SUFFICES ASSUME BatchFree, [Next]_vars PROVE BatchFree'
    OBVIOUS
  <1>1. ASSUME NEW size \in BatchSizes, Consume(size) PROVE BatchFree'
    BY <1>1, BatchFreeConsume
  <1>2. CASE Finish
    BY <1>2, BatchFreeFinish
  <1>3. CASE UNCHANGED vars
    <2>1. input' = input /\ kind' = kind /\ at' = at /\ groups' = groups
          /\ status' = status /\ result' = result
      BY <1>3 DEF vars
    <2> QED
      BY <2>1 DEF BatchFree, FailsIn, RowFails, GroupId, Rows, NumRows
  <1> QED
    BY <1>1, <1>2, <1>3 DEF Next

\* Whatever sizes the batches have, the groups and their accumulators are
\* those of the rows read one after another, and the result is theirs:
\* consumeBatch keeps nothing from one batch to the next but the groups.
THEOREM BatchesDoNotMatter == Spec => []BatchFree
  <1> QED
    BY BatchFreeInit, BatchFreeStep, PTL DEF Spec

-----------------------------------------------------------------------------
(* The paths agree.                                                        *)

\* A row that fails the streaming build is a row of some group of the eager
\* engine, whose aggregate cannot be computed either.
LEMMA FailedAnswer ==
    ASSUME NEW f \in Inputs, NEW k \in Kinds, NEW G, Faithful(f, G), FailsIn(f, k, Rows(f))
    PROVE  Answer(f, G, k) = <<>>
  <1>1. PICK r \in Rows(f) : UpdateFails(k, f.value.type, f.value.cells[r])
    BY DEF FailsIn, RowFails
  <1> DEFINE key == KeyCells(f.keys, r)
             rows == RowsWith(f, key)
             cells == CellsAt(f, InOrder(rows))
  <1>2. r \in rows /\ rows \subseteq Rows(f)
    BY <1>1 DEF RowsWith
  <1>3. GroupOf(f, key) \in AllGroups(f)
    BY <1>1 DEF AllGroups
  <1> HIDE DEF key, rows
  <1>4. /\ Len(cells) = Cardinality(rows) /\ Cardinality(rows) \in Nat
        /\ Len(InOrder(rows)) = Cardinality(rows)
        /\ \E i \in 1..Len(InOrder(rows)) : InOrder(rows)[i] = r
    BY <1>2, CellsAtRows
  <1>5. PICK i \in 1..Len(InOrder(rows)) : InOrder(rows)[i] = r
    BY <1>4
  <1>6. cells[i] = f.value.cells[r] /\ i \in 1..Len(cells) /\ Len(cells) \in Nat \ {0}
    BY <1>4, <1>5 DEF CellsAt
  <1> HIDE DEF cells
  <1>7. AppendAgg(k, f.value.type, cells) = Error
    BY <1>1, <1>6, AggError
  <1>8. PICK g \in 1..Len(G) : G[g] = GroupOf(f, key)
    BY <1>3 DEF Faithful
  <1>9. G[g].rows = InOrder(rows)
    <2>1. GroupOf(f, key).rows = InOrder(rows)
      BY DEF GroupOf, rows
    <2> QED
      BY <1>8, <2>1
  <1>10. RowOf(f, k, G[g]).agg = AppendAgg(k, f.value.type, CellsAt(f, G[g].rows))
    BY DEF RowOf, CellsAt
  <1>11. RowOf(f, k, G[g]).agg = Error
    BY <1>7, <1>9, <1>10 DEF cells
  <1>12. Len(G) \in Nat
    BY DEF Faithful
  <1>13. Answers(f, G, k, Answer(f, G, k))
    BY <1>12, AnswerRows
  <1> QED
    BY <1>11, <1>13 DEF Answers

(* A build that is done holds the answer of the groups its ids make. *)
LEMMA StreamIsAnswer ==
    ASSUME BatchFree, status = "done", PlainFrame(input), NullFree(input)
    PROVE  \E G : Streams(input, kind, StreamIds(input),
                          Ascending(Ints(input.keys), {StreamIds(input)[r] : r \in Rows(input)}),
                          G, result)
  <1>1. input \in Inputs /\ kind \in Kinds
    BY DEF BatchFree
  <1>2. /\ result = Emitted(groups, input, kind)
        /\ groups = ConsumeRows(<<>>, input, kind, 0, at) /\ at = NumRows(input)
        /\ ~FailsIn(input, kind, 1..at)
    BY DEF BatchFree
  <1>3. at \in Nat /\ \A r \in 1..at : ~RowFails(input, kind, r)
    BY <1>1, <1>2, FrameFacts DEF FailsIn
  <1>4. Built(input, kind, at, ConsumeRows(<<>>, input, kind, 0, at))
    BY <1>1, <1>2, <1>3, RowsBuilt
  <1>5. Built(input, kind, NumRows(input), groups)
    BY <1>2, <1>4
  <1>6. \A r \in Rows(input) : ~RowFails(input, kind, r)
    BY <1>2, <1>3 DEF Rows
  <1>7. \E G : Streams(input, kind, StreamIds(input),
                       Ascending(Ints(input.keys), {StreamIds(input)[r] : r \in Rows(input)}),
                       G, Emitted(groups, input, kind))
    BY <1>1, <1>5, <1>6, Streamed
  <1> QED
    BY <1>2, <1>7

(* A build of frames without null keys holds what the eager engine answers. *)
LEMMA StreamAgrees ==
    ASSUME BatchFree, status # "building", PlainFrame(input), NullFree(input),
           NEW G, Faithful(input, G)
    PROVE  SameRows(result, Answer(input, G, kind))
  <1>1. input \in Inputs /\ kind \in Kinds
    BY DEF BatchFree
  <1>2. CASE status = "failed"
    <2>1. result = <<>> /\ FailsIn(input, kind, Rows(input))
      BY <1>2 DEF BatchFree
    <2>2. Answer(input, G, kind) = <<>>
      BY <1>1, <2>1, FailedAnswer
    <2> QED
      BY <2>1, <2>2 DEF SameRows
  <1>3. CASE status = "done"
    <2>1. PICK H : Streams(input, kind, StreamIds(input),
                           Ascending(Ints(input.keys), {StreamIds(input)[r] : r \in Rows(input)}),
                           H, result)
      BY <1>3, StreamIsAnswer
    <2>2. Faithful(input, H) /\ result = Answer(input, H, kind)
      BY <2>1 DEF Streams
    <2> QED
      BY <2>2, FaithfulAnswers
  <1> QED
    BY <1>2, <1>3 DEF BatchFree

LEMMA PathsAgreeHere == BatchFree => PathsAgree
  <1> SUFFICES ASSUME BatchFree, PlainKeys, status # "building" PROVE PathsAgree
    BY DEF PathsAgree
  <1> DEFINE generic == Answer(input, Generic(input), kind)
  <1>1. input \in Inputs /\ kind \in Kinds /\ PlainFrame(input)
    BY DEF BatchFree, PlainKeys, PlainFrame
  <1>2. Faithful(input, Generic(input))
    BY <1>1, GenericGroups
  <1>3. SameRows(Agg(input, kind), generic)
    <2>1. CASE FastApplies(input, kind)
      <3>1. Faithful(input, Fast(input))
        BY <1>1, <2>1, FastFaithful
      <3>2. Agg(input, kind) = Answer(input, Fast(input), kind)
        BY <2>1 DEF Agg
      <3> QED
        BY <1>2, <3>1, <3>2, FaithfulAnswers
    <2>2. CASE ~FastApplies(input, kind)
      <3>1. Agg(input, kind) = generic
        BY <2>2 DEF Agg
      <3> QED
        BY <1>2, <3>1, FaithfulAnswers
    <2> QED
      BY <2>1, <2>2
  <1>4. ASSUME Contiguous(input)
        PROVE  SameRows(Answer(input, Aligned(input), kind), generic)
    <2>1. Faithful(input, Aligned(input))
      BY <1>1, <1>4, AlignedGroups
    <2> QED
      BY <1>2, <2>1, FaithfulAnswers
  <1>5. ASSUME NullsKept PROVE SameRows(result, generic)
    <2>1. NullFree(input)
      BY <1>5 DEF NullsKept, NullFree
    <2> QED
      BY <1>1, <1>2, <2>1, StreamAgrees
  <1> QED
    BY <1>3, <1>4, <1>5 DEF PathsAgree

\* For every frame, every kind of aggregate and every way to cut the rows
\* into batches: the fast paths and the general path of the eager engine,
\* its scan of an aligned frame and the streaming build give the same rows,
\* and the build fails exactly when the eager engine answers with an error.
THEOREM EveryPathAgrees == Spec => []PathsAgree
  <1> QED
    BY BatchesDoNotMatter, PathsAgreeHere, PTL

-----------------------------------------------------------------------------
(* One order.                                                              *)

\* The groups of a frame in the ascending order of ids.
IdSorted(f, numeric, ids, G) ==
    LET S == {ids[r] : r \in Rows(f)}
    IN  /\ IdsAgree(f, ids)
        /\ \A r \in Rows(f) : ids[r] \in Ids(numeric)
        /\ \E order : Lists(numeric, order, S) /\ GroupedBy(f, ids, order, G)

\* The order of one kind of ids is the order of another.
Follows(f, numeric, ids, other, others) ==
    \A r, s \in Rows(f) : Before(numeric, ids[r], ids[s]) => Before(other, others[r], others[s])

(* Ids of one order give one sequence of groups. *)
LEMMA SameOrder ==
    ASSUME NEW f, NEW m \in BOOLEAN, NEW ids, NEW G, IdSorted(f, m, ids, G),
           NEW n \in BOOLEAN, NEW others, NEW H, IdSorted(f, n, others, H),
           Follows(f, m, ids, n, others)
    PROVE  G = H
  <1> DEFINE S == {ids[r] : r \in Rows(f)}
             T == {others[r] : r \in Rows(f)}
  <1>1. /\ IdsAgree(f, ids) /\ IdsAgree(f, others)
        /\ \A r \in Rows(f) : ids[r] \in Ids(m) /\ others[r] \in Ids(n)
    BY DEF IdSorted
  <1>2. PICK s : Lists(m, s, S) /\ GroupedBy(f, ids, s, G)
    BY DEF IdSorted
  <1>3. PICK t : Lists(n, t, T) /\ GroupedBy(f, others, t, H)
    BY DEF IdSorted
  <1> DEFINE Row(i) == CHOOSE r \in Rows(f) : ids[r] = s[i]
             u == [i \in 1..Len(s) |-> others[Row(i)]]
  <1>4. Len(s) \in Nat /\ \A i \in 1..Len(s) : s[i] \in S
    BY <1>2 DEF Lists
  <1>5. \A i \in 1..Len(s) : Row(i) \in Rows(f) /\ ids[Row(i)] = s[i]
    BY <1>4
  <1> HIDE DEF Row
  <1>6. Lists(n, u, T)
    <2>1. u \in Seq(T) /\ Len(u) = Len(s)
      BY <1>4, <1>5
    <2>2. ASSUME NEW i \in 1..Len(s), NEW j \in 1..Len(s), i < j
          PROVE  Before(n, u[i], u[j])
      <3>1. Before(m, s[i], s[j])
        BY <1>2, <2>2 DEF Lists
      <3> QED
        BY <1>5, <3>1 DEF Follows
    <2>3. ASSUME NEW x \in T
          PROVE  \E i \in 1..Len(s) : u[i] = x
      <3>1. PICK r \in Rows(f) : others[r] = x
        OBVIOUS
      <3>2. ids[r] \in S
        OBVIOUS
      <3>3. PICK i \in 1..Len(s) : s[i] = ids[r]
        BY <1>2, <3>2 DEF Lists
      <3>4. ids[Row(i)] = ids[r] /\ Row(i) \in Rows(f)
        BY <1>5, <3>3
      <3>5. others[Row(i)] = others[r]
        BY <1>1, <3>4 DEF IdsAgree
      <3> QED
        BY <3>1, <3>5
    <2> HIDE DEF u
    <2> QED
      BY <2>1, <2>2, <2>3 DEF Lists
  <1>7. T \subseteq Ids(n)
    BY <1>1
  <1> HIDE DEF T
  <1>8. u = t
    BY <1>3, <1>6, <1>7, ListsUnique
  <1>9. Len(t) = Len(s) /\ \A i \in 1..Len(s) : t[i] = others[Row(i)]
    BY <1>4, <1>8
  <1> HIDE DEF u
  <1>10. ASSUME NEW i \in 1..Len(s)
         PROVE  G[i] = H[i]
    <2>1. PICK r \in Rows(f) :
             /\ ids[r] = s[i]
             /\ G[i] = [key |-> KeyCells(f.keys, r), rows |-> InOrder(RowsOfId(f, ids, s[i]))]
      BY <1>2 DEF GroupedBy
    <2>2. i \in 1..Len(t)
      BY <1>9
    <2>3. PICK q \in Rows(f) :
             /\ others[q] = t[i]
             /\ H[i] = [key |-> KeyCells(f.keys, q), rows |-> InOrder(RowsOfId(f, others, t[i]))]
      BY <1>3, <2>2 DEF GroupedBy
    <2>4. Row(i) \in Rows(f) /\ ids[r] = ids[Row(i)] /\ others[q] = others[Row(i)]
      BY <1>5, <1>9, <2>1, <2>3
    <2>5. KeyCells(f.keys, r) = KeyCells(f.keys, q)
      BY <1>1, <2>4 DEF IdsAgree
    <2>6. RowsOfId(f, ids, s[i]) = RowsOfId(f, others, t[i])
      <3>1. \A x \in Rows(f) : ids[x] = ids[Row(i)] <=> others[x] = others[Row(i)]
        BY <1>1, <2>4 DEF IdsAgree
      <3>2. s[i] = ids[Row(i)] /\ t[i] = others[Row(i)]
        BY <1>5, <1>9
      <3> QED
        BY <3>1, <3>2 DEF RowsOfId
    <2> QED
      BY <2>1, <2>3, <2>5, <2>6
  <1>11. G = [i \in 1..Len(s) |-> G[i]] /\ H = [i \in 1..Len(t) |-> H[i]]
    BY <1>2, <1>3 DEF GroupedBy
  <1> QED
    BY <1>9, <1>10, <1>11

\* The cells whose encodings keep their order.
OrderedCell(type, cell) ==
    /\ KeyCell(type, cell) /\ cell # Null
    /\ type = "text" \/ cell[1] >= 0

(* A byte below, behind equal ones. *)
LEMMA LessAt ==
    ASSUME NEW a \in Seq(Int), NEW b \in Seq(Int), NEW n \in Nat, DiffersAt(a, b, n)
    PROVE  BytesLess(a, b)
  BY BytesLessDef DEF DiffersAt

(* The key of a text keeps its order behind its tag. *)
LEMMA TextKeysOrdered ==
    ASSUME NEW a, NEW b, KeyCell("text", a), KeyCell("text", b), a # Null, b # Null,
           BytesLess(a[1], b[1])
    PROVE  BytesLess(CellKey("text", a), CellKey("text", b))
  <1> DEFINE x == CellKey("text", a)
             y == CellKey("text", b)
             v == a[1]
             w == b[1]
  <1>1. /\ x \in Seq(Int) /\ y \in Seq(Int) /\ x[1] = y[1]
        /\ Len(x) = Len(v) + 1 /\ \A i \in 1..Len(v) : x[i + 1] = v[i]
        /\ Len(y) = Len(w) + 1 /\ \A i \in 1..Len(w) : y[i + 1] = w[i]
        /\ v \in Seq(0..255) /\ w \in Seq(0..255)
    BY CellKeyShape
  <1>2. v \in Seq(Int) /\ w \in Seq(Int)
    <2>1. 0..255 \subseteq Int
      OBVIOUS
    <2> QED
      BY <1>1, <2>1, SeqMonotonic
  <1> HIDE DEF v, w, x, y
  <1>3. PICK n \in 0..Len(v) : DiffersAt(v, w, n)
    BY <1>2, BytesLessDef DEF v, w
  <1>4. n + 1 \in Nat /\ n \in Nat /\ Len(v) \in Nat /\ Len(w) \in Nat
    BY <1>2
  <1>5. DiffersAt(x, y, n + 1)
    <2>1. n + 1 \in 0..Len(x) /\ n + 1 <= Len(y)
      BY <1>1, <1>3, <1>4 DEF DiffersAt
    <2>2. ASSUME NEW i \in 1..n + 1
          PROVE  x[i] = y[i]
      <3>1. CASE i = 1
        BY <1>1, <3>1
      <3>2. CASE i # 1
        <4>1. i - 1 \in 1..n /\ i - 1 \in 1..Len(v) /\ i - 1 \in 1..Len(w) /\ (i - 1) + 1 = i
          BY <1>3, <1>4, <3>2 DEF DiffersAt
        <4>2. v[i - 1] = w[i - 1]
          BY <1>3, <4>1 DEF DiffersAt
        <4> QED
          BY <1>1, <4>1, <4>2
      <3> QED
        BY <3>1, <3>2
    <2>3. CASE n = Len(v) /\ n < Len(w)
      BY <1>1, <1>4, <2>1, <2>2, <2>3 DEF DiffersAt
    <2>4. CASE n < Len(v) /\ n < Len(w) /\ v[n + 1] < w[n + 1]
      <3>1. n + 1 \in 1..Len(v) /\ n + 1 \in 1..Len(w)
        BY <1>4, <2>4
      <3>2. x[(n + 1) + 1] = v[n + 1] /\ y[(n + 1) + 1] = w[n + 1]
        BY <1>1, <3>1
      <3>3. n + 1 < Len(x) /\ n + 1 < Len(y)
        <4>1. Len(x) = Len(v) + 1 /\ Len(y) = Len(w) + 1 /\ n < Len(v) /\ n < Len(w)
          BY <1>1, <2>4
        <4> QED
          BY <1>4, <4>1
      <3> QED
        BY <2>1, <2>2, <2>4, <3>2, <3>3 DEF DiffersAt
    <2> QED
      BY <1>3, <2>3, <2>4 DEF DiffersAt
  <1>6. BytesLess(x, y)
    BY <1>1, <1>4, <1>5, LessAt
  <1> QED
    BY <1>6 DEF x, y

LEMMA HighThenLow ==
    ASSUME NEW h \in Int, NEW g \in Int, NEW p \in 0..255, NEW q \in 0..255,
           256 * h + p < 256 * g + q
    PROVE  h < g \/ (h = g /\ p < q)
  OBVIOUS

(* The key of a number that is not negative keeps its order. *)
LEMMA NumberKeysOrdered ==
    ASSUME NEW type, type # "text", NEW a, NEW b, OrderedCell(type, a), OrderedCell(type, b),
           a[1] < b[1]
    PROVE  BytesLess(CellKey(type, a), CellKey(type, b))
  <1> DEFINE x == CellKey(type, a)
             y == CellKey(type, b)
  <1>1. /\ KeyCell(type, a) /\ KeyCell(type, b) /\ a # Null /\ b # Null
        /\ a[1] >= 0 /\ b[1] >= 0 /\ type \in KeyTypes
    BY DEF OrderedCell, KeyCell
  <1>2. x \in Seq(Int) /\ y \in Seq(Int) /\ x[1] = y[1]
    BY <1>1, CellKeyShape
  <1>3. CASE type = "bool"
    <2>1. /\ Len(x) = 2 /\ Len(y) = 2 /\ x[2] = a[1] /\ y[2] = b[1]
      BY <1>1, <1>3, CellKeyShape
    <2> HIDE DEF x, y
    <2>2. DiffersAt(x, y, 1)
      BY <1>2, <2>1 DEF DiffersAt
    <2>3. BytesLess(x, y)
      BY <1>2, <2>2, LessAt
    <2> QED
      BY <2>3 DEF x, y
  <1>4. CASE type # "bool"
    <2> DEFINE v == Coded(type, a[1])
               w == Coded(type, b[1])
    <2>1. type \in {"int", "float"}
      BY <1>1, <1>4 DEF KeyTypes
    <2>2. /\ v \in Shorts /\ w \in Shorts /\ Len(x) = 3 /\ Len(y) = 3
          /\ x[2] = BigEndian(v)[1] /\ x[3] = BigEndian(v)[2]
          /\ y[2] = BigEndian(w)[1] /\ y[3] = BigEndian(w)[2]
          /\ type = "float" => a[1] = 2 * v /\ b[1] = 2 * w
      BY <1>1, <2>1, CellKeyShape
    <2>3. type # "float" => a[1] = v /\ b[1] = w
      BY DEF Coded
    <2> HIDE DEF v, w, x, y
    <2>4. v \in Int /\ v >= 0 /\ v < 128 * 256 /\ w \in Int /\ w >= 0 /\ w < 128 * 256 /\ v < w
      <3>1. v \in Int /\ v < 128 * 256 /\ w \in Int /\ w < 128 * 256
        <4>1. v \in Shorts /\ w \in Shorts
          BY <2>2
        <4> QED
          BY <4>1 DEF Shorts
      <3>2. v >= 0 /\ w >= 0 /\ v < w
        <4>1. CASE type = "float"
          <5>1. a[1] = 2 * v /\ b[1] = 2 * w
            BY <2>2, <4>1
          <5>2. 2 * v >= 0 /\ 2 * w >= 0 /\ 2 * v < 2 * w
            BY <1>1, <5>1
          <5> QED
            BY <3>1, <5>2
        <4>2. CASE type # "float"
          BY <1>1, <2>3, <4>2
        <4> QED
          BY <4>1, <4>2
      <3> QED
        BY <3>1, <3>2
    <2>5. /\ x[2] = (v \div 256) % 256 /\ x[3] = v % 256
          /\ y[2] = (w \div 256) % 256 /\ y[3] = w % 256
      BY <2>2, BigEndianBytes
    <2>7. /\ x[2] = v \div 256 /\ y[2] = w \div 256
      BY <2>4, <2>5
    <2> DEFINE h == v \div 256
               g == w \div 256
               p == x[3]
               q == y[3]
    <2>8. /\ h \in Int /\ g \in Int /\ v = 256 * h + p /\ w = 256 * g + q
          /\ p \in 0..255 /\ q \in 0..255
      BY <2>4, <2>5
    <2> HIDE DEF h, g, p, q
    <2>9. h < g \/ (h = g /\ p < q)
      <3>1. 256 * h + p < 256 * g + q
        <4>1. v < w /\ v = 256 * h + p /\ w = 256 * g + q
          BY <2>4, <2>8
        <4> QED
          BY <4>1
      <3>2. p \in 0..255 /\ q \in 0..255 /\ h \in Int /\ g \in Int
        BY <2>8
      <3> QED
        BY <3>1, <3>2, HighThenLow
    <2>10. CASE h < g
      <3>1. DiffersAt(x, y, 1)
        <4>1. x[2] < y[2] /\ 1 < Len(x) /\ 1 < Len(y) /\ 1 <= Len(y) /\ 1 \in 0..Len(x)
          BY <2>2, <2>7, <2>10 DEF h, g
        <4>2. \A i \in 1..1 : x[i] = y[i]
          BY <1>2
        <4> QED
          BY <4>1, <4>2 DEF DiffersAt
      <3>2. BytesLess(x, y)
        BY <1>2, <3>1, LessAt
      <3> QED
        BY <3>2 DEF x, y
    <2>11. CASE h = g /\ p < q
      <3>1. DiffersAt(x, y, 2)
        <4>1. x[3] < y[3] /\ 2 < Len(x) /\ 2 < Len(y) /\ 2 <= Len(y) /\ 2 \in 0..Len(x)
          BY <2>2, <2>11 DEF p, q
        <4>2. x[2] = y[2]
          BY <2>7, <2>11 DEF h, g
        <4>3. \A i \in 1..2 : x[i] = y[i]
          BY <1>2, <4>2
        <4> QED
          BY <4>1, <4>3 DEF DiffersAt
      <3>2. BytesLess(x, y)
        BY <1>2, <3>1, LessAt
      <3> QED
        BY <3>2 DEF x, y
    <2> QED
      BY <2>9, <2>10, <2>11
  <1> QED
    BY <1>3, <1>4

\* The frames Ordered speaks of.
OrderedFrame(f) ==
    \A k \in 1..Len(f.keys) :
        /\ ~HasNull(f.keys[k])
        /\ f.keys[k].type = "text" \/ \A c \in Range(f.keys[k].cells) : c[1] >= 0

LEMMA OrderedCells ==
    ASSUME NEW f \in Inputs, PlainFrame(f), OrderedFrame(f), NEW r \in Rows(f),
           NEW k \in 1..Len(f.keys)
    PROVE  OrderedCell(f.keys[k].type, f.keys[k].cells[r])
  <1> DEFINE c == f.keys[k]
  <1>1. /\ c.cells \in Seq(CellsOf(Values(c.type))) /\ Len(c.cells) = NumRows(f)
    BY FrameFacts
  <1>2. KeyCell(c.type, c.cells[r])
    BY PlainRows DEF KeyRow
  <1>3. c.cells[r] \in Range(c.cells)
    <2>1. DOMAIN c.cells = 1..NumRows(f)
      BY <1>1, LenProperties
    <2> QED
      BY <2>1 DEF Range, Rows
  <1>4. ~HasNull(c) /\ (c.type = "text" \/ \A d \in Range(c.cells) : d[1] >= 0)
    BY DEF OrderedFrame
  <1> HIDE DEF c
  <1>5. c.cells[r] # Null
    BY <1>3, <1>4 DEF HasNull
  <1>6. OrderedCell(c.type, c.cells[r])
    BY <1>2, <1>3, <1>4, <1>5 DEF OrderedCell
  <1> QED
    BY <1>6 DEF c

(* The key of a row with one key column is its cell's. *)
LEMMA OneRowKey ==
    ASSUME NEW keys, Len(keys) = 1, NEW r
    PROVE  RowKey(keys, r) = CellKey(keys[1].type, keys[1].cells[r])
  <1>1. Len(keys) \in Nat \ {0}
    OBVIOUS
  <1>2. \E h : Unfolds(h, keys, r)
    BY <1>1, RowKeyDef
  <1>3. PICK h : Unfolds(h, keys, r)
    BY <1>2
  <1> QED
    BY <1>3 DEF Unfolds, OwnKey

LEMMA GenericSorted ==
    ASSUME NEW f \in Inputs, PlainFrame(f)
    PROVE  /\ IdSorted(f, FALSE, RowKeys(f), Generic(f))
           /\ \A r \in Rows(f) : RowKeys(f)[r] = RowKey(f.keys, r)
  <1> DEFINE ids == RowKeys(f)
             order == Ascending(FALSE, {ids[r] : r \in Rows(f)})
  <1>1. /\ IdsAgree(f, ids) /\ Lists(FALSE, order, {ids[r] : r \in Rows(f)})
        /\ GroupedBy(f, ids, order, Generic(f)) /\ \A r \in Rows(f) : ids[r] \in Seq(Int)
    BY GenericGroups
  <1>2. \A r \in Rows(f) : ids[r] = RowKey(f.keys, r)
    BY DEF RowKeys, Rows
  <1> HIDE DEF ids, order
  <1>3. \A r \in Rows(f) : ids[r] \in Ids(FALSE)
    BY <1>1 DEF Ids
  <1>4. IdSorted(f, FALSE, ids, Generic(f))
    BY <1>1, <1>3 DEF IdSorted
  <1> QED
    BY <1>2, <1>4 DEF ids

(* The values of the only key column, in their own order. *)
LEMMA ValuesFollow ==
    ASSUME NEW f \in Inputs, PlainFrame(f), OrderedFrame(f), Len(f.keys) = 1,
           NEW numeric \in BOOLEAN, numeric <=> f.keys[1].type # "text",
           NEW ids, \A r \in Rows(f) : ids[r] = f.keys[1].cells[r][1]
    PROVE  Follows(f, numeric, ids, FALSE, RowKeys(f))
  <1> DEFINE c == f.keys[1]
  <1> SUFFICES ASSUME NEW r \in Rows(f), NEW s \in Rows(f), Before(numeric, ids[r], ids[s])
               PROVE  Before(FALSE, RowKeys(f)[r], RowKeys(f)[s])
    BY DEF Follows
  <1>1. 1 \in 1..Len(f.keys)
    OBVIOUS
  <1>2. OrderedCell(c.type, c.cells[r]) /\ OrderedCell(c.type, c.cells[s])
    BY <1>1, OrderedCells
  <1>3. /\ RowKeys(f)[r] = CellKey(c.type, c.cells[r])
        /\ RowKeys(f)[s] = CellKey(c.type, c.cells[s])
    BY GenericSorted, OneRowKey
  <1>4. Before(numeric, c.cells[r][1], c.cells[s][1])
    OBVIOUS
  <1>5. numeric <=> c.type # "text"
    OBVIOUS
  <1> HIDE DEF c
  <1>6. CASE c.type = "text"
    <2>1. BytesLess(c.cells[r][1], c.cells[s][1])
      BY <1>4, <1>5, <1>6 DEF Before
    <2>2. KeyCell("text", c.cells[r]) /\ KeyCell("text", c.cells[s])
          /\ c.cells[r] # Null /\ c.cells[s] # Null
      BY <1>2, <1>6 DEF OrderedCell
    <2>3. BytesLess(CellKey("text", c.cells[r]), CellKey("text", c.cells[s]))
      BY <2>1, <2>2, TextKeysOrdered
    <2> QED
      BY <1>3, <1>6, <2>3 DEF Before
  <1>7. CASE c.type # "text"
    <2>1. c.cells[r][1] < c.cells[s][1]
      BY <1>4, <1>5, <1>7 DEF Before
    <2>2. BytesLess(CellKey(c.type, c.cells[r]), CellKey(c.type, c.cells[s]))
      BY <1>2, <1>7, <2>1, NumberKeysOrdered
    <2> QED
      BY <1>3, <2>2 DEF Before
  <1> QED
    BY <1>6, <1>7

(* The fast paths leave the groups in the order of the general one. *)
LEMMA FastOrder ==
    ASSUME NEW f \in Inputs, PlainFrame(f), OrderedFrame(f), NEW k, FastApplies(f, k)
    PROVE  Fast(f) = Generic(f)
  <1> DEFINE c == f.keys[1]
             cells == c.cells
             ids == [r \in Rows(f) |-> cells[r][1]]
  <1>1. Len(f.keys) = 1 /\ c.type \in {"text", "int", "float"} /\ 1 \in 1..Len(f.keys)
    BY DEF FastApplies
  <1>2. \A r \in Rows(f) : OrderedCell(c.type, cells[r])
    BY <1>1, OrderedCells
  <1>3. \A r \in Rows(f) : cells[r] # Null
    BY <1>2 DEF OrderedCell
  <1>4. IdSorted(f, FALSE, RowKeys(f), Generic(f))
    BY GenericSorted
  <1>5. Len(cells) = NumRows(f)
    BY <1>1, FrameFacts
  <1>6. ASSUME c.type = "text"
        PROVE  Fast(f) = Generic(f)
    <2> DEFINE texts == TextIds(cells)
               G == FastText(cells)
               order == Ascending(FALSE, {texts[r] : r \in Rows(f)})
    <2>1. Texts(f.keys)
      BY <1>1, <1>6 DEF Texts
    <2>2. /\ IdsAgree(f, texts) /\ Lists(FALSE, order, {texts[r] : r \in Rows(f)})
          /\ GroupedBy(f, texts, order, G) /\ \A r \in Rows(f) : texts[r] \in Seq(Int)
      BY <2>1, FastTextGroups
    <2>3. \A r \in Rows(f) : texts[r] = cells[r][1]
      BY <1>3, <1>5 DEF TextIds, Rows
    <2>4. Fast(f) = G
      BY <2>1 DEF Fast
    <2> HIDE DEF texts, G, order
    <2>5. IdSorted(f, FALSE, texts, G)
      BY <2>2 DEF IdSorted, Ids
    <2>6. Follows(f, FALSE, texts, FALSE, RowKeys(f))
      BY <1>1, <1>6, <2>3, ValuesFollow
    <2> QED
      BY <1>4, <2>4, <2>5, <2>6, SameOrder
  <1>7. ASSUME c.type # "text"
        PROVE  Fast(f) = Generic(f)
    <2> DEFINE present == {r \in Rows(f) : cells[r] # Null}
               V == {cells[r][1] : r \in present}
               order == Ascending(TRUE, V)
               all == NumberOrder(order, Rows(f) \ present)
               G == FastNumber(f, cells)
    <2>1. /\ Lists(TRUE, order, V)
          /\ \A r \in present : cells[r][1] \in Int /\ cells[r] = <<cells[r][1]>>
          /\ IdsAgree(f, cells) /\ GroupedBy(f, cells, all, G)
      BY <1>1, <1>7, FastNumberGroups
    <2>2. present = Rows(f)
      BY <1>3
    <2>3. Fast(f) = G
      BY <1>7 DEF Fast, Texts
    <2>4. V = {ids[r] : r \in Rows(f)}
      BY <2>2
    <2>5. all = [i \in 1..Len(order) |-> <<order[i]>>]
      BY <2>2 DEF NumberOrder
    <2>6. Len(order) \in Nat
      <3> HIDE DEF order, V
      <3> QED
        BY <2>1 DEF Lists
    <2>7. \A r \in Rows(f) : ids[r] = cells[r][1] /\ ids[r] \in Int /\ cells[r] = <<ids[r]>>
      BY <2>1, <2>2
    <2> HIDE DEF all
    <2> HIDE DEF order, ids, cells, V, present, G
    <2>8. Len(all) = Len(order) /\ \A i \in 1..Len(order) : all[i] = <<order[i]>>
      BY <2>5, <2>6
    <2>9. \A x : \A r \in Rows(f) : cells[r] = <<x>> <=> ids[r] = x
      <3> TAKE x
      <3> TAKE r \in Rows(f)
      <3> DEFINE v == ids[r]
      <3>1. cells[r] = <<v>>
        BY <2>7
      <3> HIDE DEF v
      <3> QED
        BY <3>1, OneValue DEF v
    <2>10. GroupedBy(f, ids, order, G)
      <3>1. G = [i \in 1..Len(order) |-> G[i]]
        BY <2>1, <2>8 DEF GroupedBy
      <3>2. ASSUME NEW i \in 1..Len(order)
            PROVE  \E r \in Rows(f) :
                     /\ ids[r] = order[i]
                     /\ G[i] = [key |-> KeyCells(f.keys, r),
                                rows |-> InOrder(RowsOfId(f, ids, order[i]))]
        <4>1. PICK r \in Rows(f) :
                 /\ cells[r] = all[i]
                 /\ G[i] = [key |-> KeyCells(f.keys, r),
                            rows |-> InOrder(RowsOfId(f, cells, all[i]))]
          BY <2>1, <2>8 DEF GroupedBy
        <4>2. ids[r] = order[i]
          BY <2>8, <2>9, <4>1
        <4>3. RowsOfId(f, cells, all[i]) = RowsOfId(f, ids, order[i])
          <5>1. all[i] = <<order[i]>>
            BY <2>8
          <5>2. \A q \in Rows(f) : cells[q] = <<order[i]>> <=> ids[q] = order[i]
            BY <2>9
          <5> HIDE DEF all
          <5> QED
            BY <5>1, <5>2 DEF RowsOfId
        <4> QED
          BY <4>1, <4>2, <4>3
      <3> QED
        BY <3>1, <3>2 DEF GroupedBy
    <2>11. IdsAgree(f, ids)
      BY <2>1, <2>7 DEF IdsAgree
    <2>12. IdSorted(f, TRUE, ids, G)
      BY <2>1, <2>4, <2>7, <2>10, <2>11 DEF IdSorted, Ids
    <2>13. Follows(f, TRUE, ids, FALSE, RowKeys(f))
      BY <1>1, <1>7, <2>7, ValuesFollow DEF cells
    <2> QED
      BY <1>4, <2>3, <2>12, <2>13, SameOrder
  <1> QED
    BY <1>6, <1>7

(* So does the streaming build. *)
LEMMA StreamOrder ==
    ASSUME NEW f \in Inputs, PlainFrame(f), OrderedFrame(f), NullFree(f),
           NEW G, IdSorted(f, Ints(f.keys), StreamIds(f), G)
    PROVE  G = Generic(f)
  <1> DEFINE ids == StreamIds(f)
             numeric == Ints(f.keys)
  <1>1. IdSorted(f, FALSE, RowKeys(f), Generic(f))
        /\ \A r \in Rows(f) : RowKeys(f)[r] = RowKey(f.keys, r)
    BY GenericSorted
  <1>2. \A r \in Rows(f) : GroupId(f, r) = {ids[r]}
    BY StreamIdsAre
  <1>3. numeric \in BOOLEAN
    BY DEF Ints
  <1>4. ASSUME Texts(f.keys) \/ Ints(f.keys)
        PROVE  Follows(f, numeric, ids, FALSE, RowKeys(f))
    <2>1. Len(f.keys) = 1 /\ 1 \in 1..Len(f.keys)
      BY <1>4 DEF Texts, Ints
    <2>2. \A r \in Rows(f) : f.keys[1].cells[r] # Null
      BY <2>1, OrderedCells DEF OrderedCell
    <2>3. ASSUME NEW r \in Rows(f)
          PROVE  ids[r] = f.keys[1].cells[r][1]
      <3>1. GroupId(f, r) = {f.keys[1].cells[r][1]}
        BY <1>4, <2>2 DEF GroupId
      <3> HIDE DEF ids
      <3> QED
        BY <1>2, <3>1
    <2>4. numeric <=> f.keys[1].type # "text"
      BY <1>4 DEF Texts, Ints
    <2> HIDE DEF ids, numeric
    <2> QED
      BY <1>3, <2>1, <2>3, <2>4, ValuesFollow
  <1>5. ASSUME ~Texts(f.keys), ~Ints(f.keys)
        PROVE  Follows(f, numeric, ids, FALSE, RowKeys(f))
    <2>1. ASSUME NEW r \in Rows(f)
          PROVE  ids[r] = RowKeys(f)[r]
      <3>1. GroupId(f, r) = {RowKey(f.keys, r)}
        BY <1>5 DEF GroupId
      <3> HIDE DEF ids
      <3> QED
        BY <1>1, <1>2, <3>1
    <2>2. numeric = FALSE
      BY <1>5
    <2> HIDE DEF ids, numeric
    <2> QED
      BY <2>1, <2>2 DEF Follows
  <1> HIDE DEF numeric, ids
  <1>6. Follows(f, numeric, ids, FALSE, RowKeys(f))
    BY <1>4, <1>5
  <1>7. IdSorted(f, numeric, ids, G)
    BY DEF numeric, ids
  <1> QED
    BY <1>1, <1>3, <1>6, <1>7, SameOrder

LEMMA OrdersAgreeHere == BatchFree => OrdersAgree
  <1> SUFFICES ASSUME BatchFree, PlainKeys, Ordered, status = "done"
               PROVE  /\ result = Answer(input, Generic(input), kind)
                      /\ result = Agg(input, kind)
    BY DEF OrdersAgree
  <1>1. input \in Inputs /\ kind \in Kinds /\ PlainFrame(input) /\ OrderedFrame(input)
    BY DEF BatchFree, PlainKeys, PlainFrame, Ordered, OrderedFrame
  <1>2. NullFree(input)
    <2>1. 1 \in 1..Len(input.keys)
      BY <1>1, FrameFacts
    <2> QED
      BY <1>1, <2>1 DEF OrderedFrame, NullFree
  <1>3. PICK H : Streams(input, kind, StreamIds(input),
                         Ascending(Ints(input.keys), {StreamIds(input)[r] : r \in Rows(input)}),
                         H, result)
    BY <1>1, <1>2, StreamIsAnswer
  <1>4. IdSorted(input, Ints(input.keys), StreamIds(input), H)
    <2> DEFINE ids == StreamIds(input)
               order == Ascending(Ints(input.keys), {ids[r] : r \in Rows(input)})
    <2>1. \A r \in Rows(input) : ids[r] \in Ids(Ints(input.keys))
      BY <1>1, <1>2, StreamIdsAre
    <2>2. /\ IdsAgree(input, ids) /\ Lists(Ints(input.keys), order, {ids[r] : r \in Rows(input)})
          /\ GroupedBy(input, ids, order, H)
      BY <1>3 DEF Streams
    <2> HIDE DEF ids, order
    <2>3. IdSorted(input, Ints(input.keys), ids, H)
      BY <2>1, <2>2 DEF IdSorted
    <2> QED
      BY <2>3 DEF ids
  <1>5. H = Generic(input) /\ result = Answer(input, H, kind)
    BY <1>1, <1>2, <1>3, <1>4, StreamOrder DEF Streams
  <1>6. Agg(input, kind) = Answer(input, Generic(input), kind)
    BY <1>1, FastOrder DEF Agg
  <1> QED
    BY <1>5, <1>6

\* For every frame whose keys hold no null and no negative number: the
\* streaming build and whichever eager path runs give the same rows in the
\* same order, for the byte encoding of a key sorts as the key does.
THEOREM OneOrder == Spec => []OrdersAgree
  <1> QED
    BY BatchesDoNotMatter, OrdersAgreeHere, PTL

-----------------------------------------------------------------------------
(* What an aggregate is.                                                   *)

(* Arithmetic: exact divisions, and one step of Welford's recurrence. *)
LEMMA DivExact ==
    ASSUME NEW n \in Nat \ {0}, NEW m \in Int
    PROVE  (n * m) \div n = m
  OBVIOUS

LEMMA Quotient ==
    ASSUME NEW n \in Nat \ {0}, NEW x \in Int, x % n = 0
    PROVE  x = n * (x \div n) /\ x \div n \in Int
  OBVIOUS

LEMMA OneDeviation ==
    ASSUME NEW i \in Int, NEW mean \in Int, NEW d \in Int, NEW w \in Int, NEW n, n = i + 1
    PROVE  (w - i * mean * mean) + (n * d) * ((n * d + mean) - (mean + d)) =
               (w + (n * d + mean) * (n * d + mean)) - n * ((mean + d) * (mean + d))
  OBVIOUS

\* Meets, for a kind that is not the state's and without local operators.
Squares(vs) == [i \in 1..Len(vs) |-> vs[i] * vs[i]]
MiddleOf(vs, x) ==
    /\ Cardinality({i \in 1..Len(vs) : 2 * vs[i] < x}) * 2 <= Len(vs)
    /\ Cardinality({i \in 1..Len(vs) : 2 * vs[i] > x}) * 2 <= Len(vs)
    /\ \/ Len(vs) % 2 = 1 /\ x \in {2 * v : v \in Range(vs)}
       \/ Len(vs) % 2 = 0 /\ x \in {v + w : v, w \in Range(vs)}
CommonestOf(vs, x) ==
    \E i \in 1..Len(vs) :
        /\ x = vs[i]
        /\ \A j \in 1..Len(vs) :
             \/ Occurs(vs, vs[j]) < Occurs(vs, x)
             \/ Occurs(vs, vs[j]) = Occurs(vs, x) /\ i <= j
Meant(k, size, vs, agg) ==
    LET n == Len(vs)
    IN  CASE k = "star" -> agg = <<size>>
          [] k = "count" -> agg = <<n>>
          [] k = "nunique" -> agg = <<Cardinality(Range(vs))>>
          [] k = "var" ->
                IF n < 2 THEN agg = Null
                ELSE \E x : /\ agg = <<x>>
                           /\ n * (n - 1) * x = Unit * Unit * Unit *
                                 (n * Total(Squares(vs)) - Total(vs) * Total(vs))
          [] OTHER ->
                IF n = 0 THEN agg = Null
                ELSE \E x : /\ agg = <<x>>
                           /\ CASE k = "sum" -> x = Total(vs)
                                [] k = "mean" -> n * x = Unit * Total(vs)
                                [] k = "min" -> x \in Range(vs) /\ \A v \in Range(vs) : x <= v
                                [] k = "max" -> x \in Range(vs) /\ \A v \in Range(vs) : x >= v
                                [] k = "first" -> x = vs[1]
                                [] k = "last" -> x = vs[n]
                                [] k = "median" -> MiddleOf(vs, x)
                                [] k = "mode" -> CommonestOf(vs, x)

LEMMA MeetsOne ==
    ASSUME NEW agg, NEW size, NEW vs, Len(vs) \in Nat, kind \in Kinds, Meant(kind, size, vs, agg)
    PROVE  Meets(agg, size, vs)
  <1>0. \A x : <<x>> # Null /\ <<x>>[1] = x
    BY DEF Null
  <1>1. CASE kind = "star"
    BY <1>1 DEF Meets, Meant
  <1>2. CASE kind = "count"
    BY <1>2 DEF Meets, Meant
  <1>3. CASE kind = "sum"
    BY <1>0, <1>3 DEF Meets, Meant
  <1>4. CASE kind = "mean"
    BY <1>0, <1>4 DEF Meets, Meant
  <1>5. CASE kind = "min"
    BY <1>0, <1>5 DEF Meets, Meant
  <1>6. CASE kind = "max"
    BY <1>0, <1>6 DEF Meets, Meant
  <1>7. CASE kind = "first"
    BY <1>0, <1>7 DEF Meets, Meant
  <1>8. CASE kind = "last"
    BY <1>0, <1>8 DEF Meets, Meant
  <1>9. CASE kind = "nunique"
    BY <1>9 DEF Meets, Meant
  <1>10. CASE kind = "var"
    BY <1>0, <1>10 DEF Meets, Meant, Squares
  <1>11. CASE kind = "median"
    <2>1. Len(vs) = 0 => agg = Null
      BY <1>11 DEF Meant
    <2>2. Len(vs) # 0 => \E x : agg = <<x>> /\ MiddleOf(vs, x)
      BY <1>11 DEF Meant
    <2>3. Len(vs) # 0 => agg # Null /\ MiddleOf(vs, agg[1])
      BY <1>0, <2>2
    <2> SUFFICES ASSUME Len(vs) # 0 PROVE Meets(agg, size, vs)
      BY <1>11, <2>1 DEF Meets
    <2> DEFINE y == agg[1]
    <2>4. MiddleOf(vs, y) /\ agg # Null /\ Len(vs) > 0
      BY <2>3
    <2>5. Meets(agg, size, vs) <=>  MiddleOf(vs, agg[1])
      <3> HIDE DEF y
      <3> QED
        BY <1>11, <2>4 DEF Meets, MiddleOf
    <2> QED
      BY <2>4, <2>5
  <1>12. CASE kind = "mode"
    BY <1>0, <1>12 DEF Meets, Meant, CommonestOf
  <1> QED
    BY <1>1, <1>2, <1>3, <1>4, <1>5, <1>6, <1>7, <1>8, <1>9, <1>10, <1>11, <1>12 DEF Kinds

\* Means over up to n values are exact.
Divides(n) == \A j \in 1..n : Unit % j = 0

LEMMA SquaresAppend ==
    ASSUME NEW vs \in Seq(Int), NEW v \in Int
    PROVE  /\ Squares(vs) \in Seq(Int) /\ Squares(<<>>) = <<>>
           /\ Squares(Append(vs, v)) = Append(Squares(vs), v * v)
  <1> DEFINE n == Len(vs)
             more == Append(vs, v)
  <1>1. n \in Nat /\ Len(more) = n + 1 /\ more[n + 1] = v
        /\ \A i \in 1..n : vs[i] \in Int /\ more[i] = vs[i]
    OBVIOUS
  <1> HIDE DEF more
  <1>2. Squares(vs) \in Seq(Int) /\ Len(Squares(vs)) = n
        /\ \A i \in 1..n : Squares(vs)[i] = vs[i] * vs[i]
    BY <1>1 DEF Squares
  <1>3. Squares(more) = [i \in 1..n + 1 |-> more[i] * more[i]]
    BY <1>1 DEF Squares
  <1>4. v * v \in Int
    OBVIOUS
  <1> DEFINE s == Squares(vs)
             w == v * v
  <1> HIDE DEF s, w
  <1>5. Append(s, w) = [i \in 1..n + 1 |-> IF i <= n THEN s[i] ELSE w]
    <2>1. /\ s \in Seq(Int) /\ Len(s) = n /\ w \in Int
      BY <1>2, <1>4 DEF s, w
    <2>2. /\ Append(s, w) \in Seq(Int) /\ Len(Append(s, w)) = n + 1
          /\ \A i \in 1..n : Append(s, w)[i] = s[i]
          /\ Append(s, w)[n + 1] = w
      BY <2>1, AppendProperties
    <2>3. Append(s, w) = [i \in 1..n + 1 |-> Append(s, w)[i]]
      <3> DEFINE t == Append(s, w)
      <3>1. t \in Seq(Int) /\ Len(t) = n + 1
        BY <2>2
      <3> HIDE DEF t
      <3>2. t = [i \in 1..n + 1 |-> t[i]]
        BY <3>1
      <3> QED
        BY <3>2 DEF t
    <2>4. \A i \in 1..n + 1 : Append(s, w)[i] = IF i <= n THEN s[i] ELSE w
      BY <1>1, <2>2
    <2> QED
      BY <2>3, <2>4
  <1>6. \A i \in 1..n + 1 : more[i] * more[i] = IF i <= n THEN s[i] ELSE w
    BY <1>1, <1>2 DEF s, w
  <1>7. Squares(more) = Append(s, w)
    BY <1>3, <1>5, <1>6
  <1>8. Squares(<<>>) = <<>>
    BY DEF Squares
  <1> QED
    BY <1>2, <1>7, <1>8 DEF s, w, more

\* Welford's mean and sum of squared deviations, free of division.
Deviates(vs) ==
    LET n == Len(vs)
        p == OnePass(vs)
    IN  Divides(n) => /\ n * p.mean = Unit * Total(vs)
                      /\ p.m2 = Unit * Unit * Total(Squares(vs)) - n * p.mean * p.mean

(* The recurrence keeps the mean and the squared deviations exactly. *)
LEMMA WelfordStep ==
    ASSUME NEW i \in Nat, NEW mean \in Int, NEW m2 \in Int, NEW sum \in Int, NEW sq \in Int,
           NEW v \in Int, Unit % (i + 1) = 0, i * mean = Unit * sum,
           m2 = Unit * Unit * sq - i * mean * mean,
           NEW delta, delta = Unit * v - mean,
           NEW next, next = mean + delta \div (i + 1),
           NEW m2n, m2n = m2 + delta * (Unit * v - next)
    PROVE  /\ (i + 1) * next = Unit * (sum + v)
           /\ m2n = Unit * Unit * (sq + v * v) - (i + 1) * next * next
  <1> DEFINE n == i + 1
             q == Unit \div n
             s == sum + v
             d == q * s - mean
             u == Unit * v
  <1>0. Unit \in Nat \ {0} /\ Unit \in Int /\ n \in Nat \ {0} /\ n \in Int /\ Unit % n = 0 /\ s \in Int
    BY UnitAssumption
  <1> DEFINE U == Unit
  <1>1. U = n * q /\ q \in Int
    <2> HIDE DEF n
    <2> QED
      BY <1>0, Quotient
  <1>2. delta = u - mean /\ n = i + 1 /\ s = sum + v
    OBVIOUS
  <1> HIDE DEF q
  <1>3. d \in Int /\ u \in Int /\ q * s \in Int /\ mean + d = q * s
    BY <1>0, <1>1
  <1>4. u = U * v /\ U \in Int
    BY <1>0
  <1> HIDE DEF s, u, d, n, U
  <1>5. n * (q * s) = U * s
    BY <1>0, <1>1, <1>3, <1>4
  <1>6. U * s = i * mean + u
    BY <1>0, <1>2, <1>4 DEF U
  <1>7. delta = n * d
    <2> DEFINE im == i * mean
               nm == n * mean
               nd == n * d
               t == n * (q * s)
    <2>1. nd = t - nm
      <3>1. q * s = mean + d
        BY <1>3
      <3>2. n * (mean + d) = n * mean + n * d
        BY <1>0, <1>3
      <3>3. nm \in Int /\ nd \in Int
        BY <1>0, <1>3
      <3> DEFINE md == mean + d
      <3>4. n * md = nm + nd /\ t = n * md
        BY <3>1, <3>2
      <3> HIDE DEF md, nm, nd, t
      <3> QED
        BY <3>3, <3>4
    <2>2. nm = im + mean
      BY <1>2
    <2>3. im \in Int /\ nm \in Int /\ nd \in Int /\ t \in Int
      BY <1>0, <1>3
    <2>4. t = im + u
      BY <1>5, <1>6
    <2> HIDE DEF im, nm, nd, t
    <2>5. delta = nd
      BY <1>2, <1>3, <2>1, <2>2, <2>3, <2>4
    <2> QED
      BY <2>5 DEF nd
  <1>8. delta \div n = d
    BY <1>0, <1>3, <1>7, DivExact
  <1>9. next = mean + d
    BY <1>2, <1>8
  <1>10. u = n * d + mean
    <2> DEFINE nd == n * d
    <2>1. nd \in Int /\ delta = nd
      BY <1>0, <1>3, <1>7
    <2> HIDE DEF nd
    <2>2. u = nd + mean
      BY <1>2, <1>3, <2>1
    <2> QED
      BY <2>2 DEF nd
  <1>11. n * next = U * s
    BY <1>3, <1>5, <1>9
  <1>12. m2n = U * U * (sq + v * v) - n * next * next
    <2> DEFINE w == U * U * sq
               y == n * d
    <2>1. w \in Int /\ y \in Int /\ next \in Int /\ n * next * next \in Int
      BY <1>0, <1>3, <1>4, <1>9
    <2>2. m2n = (w - i * mean * mean) + (n * d) * ((n * d + mean) - (mean + d))
      <3>1. m2n = m2 + delta * (u - next)
        BY <1>4 DEF U
      <3>2. m2 = w - i * mean * mean
        BY DEF U
      <3> HIDE DEF w
      <3> QED
        BY <1>7, <1>9, <1>10, <3>1, <3>2
    <2>3. U * U * (sq + v * v) = w + u * u
      BY <1>4
    <2> HIDE DEF w
    <2>4. m2n = (w + (n * d + mean) * (n * d + mean)) - n * ((mean + d) * (mean + d))
      <3> DEFINE l == (w - i * mean * mean) + (n * d) * ((n * d + mean) - (mean + d))
                 r == (w + (n * d + mean) * (n * d + mean)) - n * ((mean + d) * (mean + d))
      <3>1. d \in Int /\ n = i + 1 /\ w \in Int /\ mean \in Int /\ i \in Int
        BY <1>2, <1>3, <2>1
      <3>2. l = r
        BY <3>1, OneDeviation
      <3>3. m2n = l
        BY <2>2
      <3> HIDE DEF l
      <3> QED
        BY <3>2, <3>3
    <2>5. m2n = (w + u * u) - n * (next * next)
      BY <1>9, <1>10, <2>4
    <2>6. n * (next * next) = n * next * next
      BY <1>0, <2>1
    <2> QED
      BY <2>3, <2>5, <2>6
  <1> QED
    BY <1>11, <1>12 DEF U, n, s

(* Over any values, as long as the means are exact. *)
LEMMA WelfordExact == \A vs \in Seq(Int) : Deviates(vs)
  <1> DEFINE S == {vs \in Seq(Int) : Deviates(vs)}
  <1>1. <<>> \in S
    <2>1. <<>> \in Seq(Int) /\ Len(<<>>) = 0 /\ 0 \in Int
      OBVIOUS
    <2>2. OnePass(<<>>) = NothingPassed /\ Total(<<>>) = 0
      BY <2>1, OnePassAppend, TotalAppend
    <2>3. Squares(<<>>) = <<>>
      BY <2>1, SquaresAppend
    <2>4. Unit \in Int
      BY UnitAssumption
    <2>5. Deviates(<<>>)
      <3>1. OnePass(<<>>).mean = 0 /\ OnePass(<<>>).m2 = 0
        BY <2>2 DEF NothingPassed
      <3> QED
        BY <2>1, <2>2, <2>3, <2>4, <3>1 DEF Deviates
    <2> QED
      BY <2>1, <2>5
  <1>2. ASSUME NEW vs \in Seq(Int), NEW v \in Int, vs \in S
        PROVE  Append(vs, v) \in S
    <2> DEFINE more == Append(vs, v)
               i == Len(vs)
               a == OnePass(vs)
               b == OnePass(more)
               sum == Total(vs)
               sq == Total(Squares(vs))
    <2>1. more \in Seq(Int) /\ Len(more) = i + 1 /\ i \in Nat
      OBVIOUS
    <2>2. b = PassOver(a, v) /\ Total(more) = sum + v
      BY OnePassAppend, TotalAppend
    <2>3. a \in PassType /\ a.n = i /\ a.sum = sum
      BY PassFacts DEF Passed
    <2>4. Total(Squares(more)) = sq + v * v
      <3> DEFINE w == v * v
                 t == Squares(vs)
      <3>1. w \in Int /\ t \in Seq(Int) /\ Squares(more) = Append(t, w)
        BY SquaresAppend
      <3> HIDE DEF w, t, more
      <3>2. Total(Append(t, w)) = Total(t) + w
        BY <3>1, TotalAppend
      <3> QED
        BY <3>1, <3>2 DEF w, t
    <2>5. sq \in Int
      <3> DEFINE t == Squares(vs)
      <3>1. t \in Seq(Int)
        BY SquaresAppend
      <3> HIDE DEF t
      <3>2. Passed(t)
        BY <3>1, PassFacts
      <3>3. Total(t) \in Int
        BY <3>2 DEF Passed, PassType
      <3> QED
        BY <3>3 DEF t
    <2>6. Deviates(vs)
      BY <1>2
    <2>7. b.mean = a.mean + (Unit * v - a.mean) \div (i + 1)
          /\ b.m2 = a.m2 + (Unit * v - a.mean) * (Unit * v - b.mean)
      BY <2>2, <2>3 DEF PassOver
    <2>8. a.mean \in Int /\ a.m2 \in Int /\ sum \in Int
      BY <2>3 DEF PassType
    <2> HIDE DEF more, a, b, sum, sq, i
    <2>9. ASSUME Divides(i + 1)
          PROVE  /\ (i + 1) * b.mean = Unit * (sum + v)
                 /\ b.m2 = Unit * Unit * (sq + v * v) - (i + 1) * b.mean * b.mean
      <3>1. Divides(i) /\ Unit % (i + 1) = 0
        BY <2>1, <2>9 DEF Divides
      <3>2. i * a.mean = Unit * sum /\ a.m2 = Unit * Unit * sq - i * a.mean * a.mean
        BY <2>6, <3>1 DEF Deviates, i, a, sum, sq
      <3> DEFINE mean == a.mean
                 m2 == a.m2
                 delta == Unit * v - mean
                 next == mean + delta \div (i + 1)
                 m2n == m2 + delta * (Unit * v - next)
      <3>3. b.mean = next /\ b.m2 = m2n /\ mean \in Int /\ m2 \in Int
            /\ i * mean = Unit * sum /\ m2 = Unit * Unit * sq - i * mean * mean
        BY <2>7, <2>8, <3>2
      <3> HIDE DEF mean, m2
      <3> DEFINE one == (i + 1) * next = Unit * (sum + v)
                 two == m2n = Unit * Unit * (sq + v * v) - (i + 1) * next * next
      <3>4. one /\ two
        <4> DEFINE dd == delta
                   nn == next
                   mm == m2n
        <4>1. dd = Unit * v - mean /\ nn = mean + dd \div (i + 1)
              /\ mm = m2 + dd * (Unit * v - nn)
          OBVIOUS
        <4> HIDE DEF dd, nn, mm
        <4>2. /\ (i + 1) * nn = Unit * (sum + v)
              /\ mm = Unit * Unit * (sq + v * v) - (i + 1) * nn * nn
          BY <2>1, <2>5, <2>8, <3>1, <3>3, <4>1, WelfordStep
        <4> QED
          BY <4>2 DEF dd, nn, mm
      <3> HIDE DEF next, m2n
      <3> QED
        BY <3>3, <3>4
    <2>10. Deviates(more)
      BY <2>1, <2>2, <2>4, <2>9 DEF Deviates, b
    <2> QED
      BY <2>1, <2>10 DEF more
  <1>3. \A vs \in Seq(Int) : vs \in S
    <2> HIDE DEF S
    <2> QED
      BY <1>1, <1>2, SeqInduct
  <1> QED
    BY <1>3

(* The kinds of one pass. *)
LEMMA MeantPass ==
    ASSUME NEW k \in {"sum", "mean", "min", "max", "var"}, NEW vs \in Seq(Int),
           Divides(Len(vs)), NEW size
    PROVE  Meant(k, size, vs, FromPass(k, OnePass(vs)))
  <1> DEFINE p == OnePass(vs)
             n == Len(vs)
             sum == Total(vs)
             sq == Total(Squares(vs))
  <1>1. p \in PassType /\ p.n = n /\ p.sum = sum
        /\ (n # 0 => Least(vs, p.min) /\ Largest(vs, p.max))
    BY PassFacts DEF Passed
  <1>2. n \in Nat /\ sum \in Int /\ p.mean \in Int /\ p.m2 \in Int
    BY <1>1 DEF PassType
  <1>3. n * p.mean = Unit * sum /\ p.m2 = Unit * Unit * sq - n * p.mean * p.mean
    BY WelfordExact DEF Deviates
  <1>4. sq \in Int
    <2> DEFINE t == Squares(vs)
    <2>1. t \in Seq(Int)
      BY SquaresAppend
    <2> HIDE DEF t
    <2>2. Passed(t)
      BY <2>1, PassFacts
    <2>3. Total(t) \in Int
      BY <2>2 DEF Passed, PassType
    <2> QED
      BY <2>3 DEF t
  <1>5. Unit \in Nat \ {0} /\ Unit \in Int
    BY UnitAssumption
  <1> HIDE DEF p, n, sum, sq
  <1>6. CASE n = 0
    <2>1. FromPass(k, p) = Null
      BY <1>1, <1>6, FromPassIs
    <2> QED
      BY <1>6, <2>1 DEF Meant, p, n
  <1>7. CASE n # 0
    <2>1. /\ FromPass("sum", p) = <<p.sum>>
          /\ FromPass("mean", p) = <<(Unit * p.sum) \div p.n>>
          /\ FromPass("min", p) = <<p.min>>
          /\ FromPass("max", p) = <<p.max>>
          /\ FromPass("var", p) = Variance(p.n, p.m2)
      BY <1>1, <1>7, FromPassIs
    <2>2. CASE k = "sum"
      BY <1>1, <1>7, <2>1, <2>2 DEF Meant, n, sum, p
    <2>3. CASE k = "mean"
      <3>1. (n * p.mean) \div n = p.mean
        BY <1>2, <1>7, DivExact
      <3>2. FromPass("mean", p) = <<p.mean>>
        BY <1>1, <1>3, <2>1, <3>1
      <3> QED
        BY <1>3, <1>7, <2>3, <3>2 DEF Meant, n, sum, p
    <2>4. CASE k = "min"
      BY <1>1, <1>7, <2>1, <2>4 DEF Meant, Least, n, p
    <2>5. CASE k = "max"
      BY <1>1, <1>7, <2>1, <2>5 DEF Meant, Largest, n, p
    <2>6. CASE k = "var" /\ n < 2
      <3>1. FromPass("var", p) = Null
        BY <1>1, <2>1, <2>6 DEF Variance
      <3> QED
        BY <2>6, <3>1 DEF Meant, n, p
    <2>7. CASE k = "var" /\ n >= 2
      <3> DEFINE m == n - 1
                 q == Unit \div m
                 x == q * p.m2
      <3>1. m \in Nat \ {0} /\ Unit % m = 0 /\ m \in Int
        <4>1. m \in Nat \ {0} /\ m \in 1..n /\ m \in Int
          BY <1>2, <2>7
        <4>2. \A j \in 1..n : Unit % j = 0
          BY DEF Divides, n
        <4> HIDE DEF m
        <4> QED
          BY <4>1, <4>2
      <3>2. Unit = m * q /\ q \in Int
        <4> HIDE DEF m
        <4> QED
          BY <1>5, <3>1, Quotient
      <3> HIDE DEF q
      <3>3. x \in Int /\ Unit * p.m2 = m * x
        <4> DEFINE y == p.m2
        <4>1. y \in Int
          BY <1>2
        <4> HIDE DEF y
        <4>2. q * y \in Int /\ Unit * y = m * (q * y)
          BY <3>1, <3>2, <4>1
        <4> QED
          BY <4>2 DEF y
      <3>4. FromPass("var", p) = <<x>>
        <4>1. FromPass("var", p) = <<(Unit * p.m2) \div m>>
          <5>1. Variance(n, p.m2) = <<(Unit * p.m2) \div (n - 1)>>
            BY <1>2, <2>7 DEF Variance
          <5>2. FromPass("var", p) = Variance(n, p.m2)
            BY <1>1, <2>1
          <5> QED
            BY <5>1, <5>2
        <4> HIDE DEF m, x
        <4>2. (m * x) \div m = x
          BY <3>1, <3>3, DivExact
        <4> QED
          BY <3>3, <4>1, <4>2
      <3>5. n * (n - 1) * x = Unit * Unit * Unit * (n * sq - sum * sum)
        <4> DEFINE mean == p.mean
                   m2 == p.m2
                   e == Unit * sum
        <4>1. mean \in Int /\ m2 \in Int /\ e \in Int /\ n \in Int
          BY <1>2, <1>5
        <4>2. n * mean = e /\ m2 = Unit * Unit * sq - n * mean * mean
          BY <1>3
        <4>3. Unit * m2 = (n - 1) * x
          BY <3>3
        <4> HIDE DEF mean, m2, x, m
        <4>4. n * m2 = n * (Unit * Unit * sq) - e * e
          BY <1>4, <1>5, <4>1, <4>2
        <4>5. n * m2 = Unit * Unit * (n * sq - sum * sum)
          <5>1. e * e = Unit * Unit * (sum * sum)
            BY <1>2, <1>5
          <5> QED
            BY <1>2, <1>4, <1>5, <4>1, <4>4, <5>1
        <4>6. n * ((n - 1) * x) = n * (Unit * m2)
          BY <4>3
        <4>7. n * (Unit * m2) = Unit * (n * m2)
          BY <1>5, <4>1
        <4>8. n * ((n - 1) * x) = Unit * (Unit * Unit * (n * sq - sum * sum))
          BY <4>5, <4>6, <4>7
        <4>9. x \in Int /\ n * sq - sum * sum \in Int
          BY <1>2, <1>4, <3>3 DEF x
        <4> DEFINE z == n * sq - sum * sum
        <4> HIDE DEF z
        <4>10. n * (n - 1) * x = Unit * Unit * Unit * z
          BY <1>2, <1>5, <4>8, <4>9 DEF z
        <4> QED
          BY <4>10 DEF z, x
      <3> HIDE DEF x
      <3> QED
        BY <2>7, <3>4, <3>5 DEF Meant, n, p, sum, sq
    <2> QED
      BY <1>2, <2>2, <2>3, <2>4, <2>5, <2>6, <2>7
  <1> QED
    BY <1>6, <1>7 DEF p

(* The indices of the values up to v, and below it. *)
AtMost(vs, v) == {i \in 1..Len(vs) : vs[i] <= v}
Under(vs, v) == {i \in 1..Len(vs) : vs[i] < v}

LEMMA SizeUpTo ==
    ASSUME NEW n \in Nat, NEW B, B \subseteq 1..n, NEW A, A \subseteq B
    PROVE  /\ Cardinality(A) \in Nat /\ Cardinality(B) \in Nat
           /\ Cardinality(A) <= Cardinality(B) /\ Cardinality(B) <= n
           /\ Cardinality(A) = Cardinality(B) => A = B
           /\ Cardinality((1..n) \ A) = n - Cardinality(A)
           /\ Cardinality(1..n) = n /\ (Cardinality(A) = 0 <=> A = {})
  <1> DEFINE N == 1..n
  <1>1. IsFiniteSet(N) /\ Cardinality(N) = n
    BY UpTo
  <1>2. B \subseteq N /\ A \subseteq N
    OBVIOUS
  <1> HIDE DEF N
  <1>3. IsFiniteSet(B) /\ Cardinality(B) <= Cardinality(N)
    BY <1>1, <1>2, FS_Subset
  <1>4. IsFiniteSet(A) /\ Cardinality(A) <= Cardinality(B)
        /\ (Cardinality(B) = Cardinality(A) => B = A)
    BY <1>3, FS_Subset
  <1>5. Cardinality(A) \in Nat /\ Cardinality(B) \in Nat
    BY <1>3, <1>4, FS_CardinalityType
  <1>6. Cardinality(N \ A) = Cardinality(N) - Cardinality(N \cap A)
    BY <1>1, FS_Difference
  <1>7. N \cap A = A
    BY <1>2
  <1>8. Cardinality(A) = 0 <=> A = {}
    BY <1>4, FS_EmptySet
  <1> QED
    BY <1>1, <1>3, <1>4, <1>5, <1>6, <1>7, <1>8 DEF N

\* v stands at place k of the sorted values.
PlacedAt(vs, k, v) == /\ v \in Range(vs)
                      /\ Cardinality(Under(vs, v)) < k /\ k <= Cardinality(AtMost(vs, v))

UpToCount(vs, v) == Cardinality(AtMost(vs, v))

LEMMA Placed ==
    ASSUME NEW vs \in Seq(Int)
    PROVE  /\ \A v \in Int : UpToCount(vs, v) \in 0..Len(vs)
           /\ \A v \in Int : Cardinality(Under(vs, v)) \in 0..Len(vs)
           /\ \A v \in Int, i \in 1..Len(vs) :
                 v < vs[i] => UpToCount(vs, v) < UpToCount(vs, vs[i])
           /\ \A u, v \in Int : (\A i \in Under(vs, v) : vs[i] <= u)
                                   => Cardinality(Under(vs, v)) <= UpToCount(vs, u)
           /\ \A v \in Int : Cardinality(Under(vs, v)) > 0 => \E i \in 1..Len(vs) : vs[i] < v
           /\ \A v \in Int : (\A i \in 1..Len(vs) : vs[i] <= v) => UpToCount(vs, v) = Len(vs)
  <1>1. Len(vs) \in Nat /\ \A i \in 1..Len(vs) : vs[i] \in Int
    OBVIOUS
  <1>2. \A v : AtMost(vs, v) \subseteq 1..Len(vs) /\ Under(vs, v) \subseteq 1..Len(vs)
    BY DEF AtMost, Under
  <1>3. ASSUME NEW v \in Int
        PROVE  UpToCount(vs, v) \in 0..Len(vs) /\ Cardinality(Under(vs, v)) \in 0..Len(vs)
    <2>1. Cardinality(AtMost(vs, v)) \in Nat /\ Cardinality(AtMost(vs, v)) <= Len(vs)
      BY <1>1, <1>2, SizeUpTo
    <2>2. Cardinality(Under(vs, v)) \in Nat /\ Cardinality(Under(vs, v)) <= Len(vs)
      BY <1>1, <1>2, SizeUpTo
    <2> QED
      BY <1>1, <2>1, <2>2 DEF UpToCount
  <1>4. ASSUME NEW v \in Int, NEW i \in 1..Len(vs), v < vs[i]
        PROVE  UpToCount(vs, v) < UpToCount(vs, vs[i])
    <2> DEFINE A == AtMost(vs, v)
               B == AtMost(vs, vs[i])
    <2>1. A \subseteq B
      BY <1>1, <1>4 DEF AtMost
    <2>2. i \in B /\ i \notin A
      BY <1>1, <1>4 DEF AtMost
    <2>3. B \subseteq 1..Len(vs)
      BY <1>2
    <2> HIDE DEF A, B
    <2>4. /\ Cardinality(A) \in Nat /\ Cardinality(B) \in Nat
          /\ Cardinality(A) <= Cardinality(B) /\ (Cardinality(A) = Cardinality(B) => A = B)
      BY <1>1, <2>1, <2>3, SizeUpTo
    <2>5. Cardinality(A) < Cardinality(B)
      BY <2>2, <2>4
    <2> QED
      BY <2>5 DEF A, B, UpToCount
  <1>5. ASSUME NEW u \in Int, NEW v \in Int, \A i \in Under(vs, v) : vs[i] <= u
        PROVE  Cardinality(Under(vs, v)) <= UpToCount(vs, u)
    <2>1. Under(vs, v) \subseteq AtMost(vs, u)
      BY <1>5 DEF Under, AtMost
    <2> QED
      BY <1>1, <1>2, <2>1, SizeUpTo DEF UpToCount
  <1>6. ASSUME NEW v \in Int, Cardinality(Under(vs, v)) > 0
        PROVE  \E i \in 1..Len(vs) : vs[i] < v
    <2>1. Under(vs, v) # {}
      <3>1. Cardinality(Under(vs, v)) = 0 <=> Under(vs, v) = {}
        BY <1>1, <1>2, SizeUpTo
      <3> QED
        BY <1>6, <3>1
    <2> QED
      BY <2>1 DEF Under
  <1>7. ASSUME NEW v \in Int, \A i \in 1..Len(vs) : vs[i] <= v
        PROVE  UpToCount(vs, v) = Len(vs)
    <2>1. AtMost(vs, v) = 1..Len(vs)
      BY <1>7 DEF AtMost
    <2> QED
      BY <1>1, <2>1, UpTo DEF UpToCount
  <1> QED
    BY <1>3, <1>4, <1>5, <1>6, <1>7

(* The place, from the counts alone. *)
LEMMA PlaceAmong ==
    ASSUME NEW n \in Nat, NEW k \in 1..n, NEW w, NEW u, NEW under,
           \A i \in 1..n : w[i] \in Int /\ u[i] \in Nat /\ u[i] <= n /\ under[i] \in Nat,
           \A i, j \in 1..n : w[i] < w[j] => u[i] < u[j],
           \E i \in 1..n : n <= u[i],
           \A i, j \in 1..n : (\A l \in 1..n : w[l] < w[i] => w[l] <= w[j]) => under[i] <= u[j],
           \A i \in 1..n : under[i] > 0 => \E j \in 1..n : w[j] < w[i]
    PROVE  \E i \in 1..n : under[i] < k /\ k <= u[i]
  <1> DEFINE T == {c \in Nat : \E i \in 1..n : c = u[i] /\ k <= c}
  <1>1. k \in Nat /\ 1 <= k /\ k <= n
    OBVIOUS
  <1>2. T \subseteq Nat /\ T # {}
    <2>1. PICK i \in 1..n : n <= u[i]
      OBVIOUS
    <2>2. u[i] \in Nat /\ k <= u[i]
      BY <1>1, <2>1
    <2> QED
      BY <2>2
  <1>3. PICK c \in T : \A d \in T : c <= d
    <2> HIDE DEF T
    <2> QED
      BY <1>2, LeastNatural
  <1>4. PICK i \in 1..n : c = u[i] /\ k <= c
    BY <1>3
  <1>5. \A j \in 1..n : k <= u[j] => c <= u[j]
    BY <1>3
  <1> HIDE DEF T
  <1>6. SUFFICES ASSUME k <= under[i] PROVE FALSE
    BY <1>1, <1>4
  <1> DEFINE D == {e \in Nat : \E j \in 1..n : w[j] < w[i] /\ e = n - u[j]}
  <1>7. D \subseteq Nat /\ D # {}
    <2>1. under[i] > 0
      BY <1>1, <1>6
    <2>2. PICK j \in 1..n : w[j] < w[i]
      BY <2>1
    <2>3. n - u[j] \in Nat
      OBVIOUS
    <2> QED
      BY <2>2, <2>3
  <1>8. PICK e \in D : \A g \in D : e <= g
    <2> HIDE DEF D
    <2> QED
      BY <1>7, LeastNatural
  <1>9. PICK j \in 1..n : w[j] < w[i] /\ e = n - u[j]
    BY <1>8
  <1>10. ASSUME NEW l \in 1..n, w[l] < w[i]
         PROVE  w[l] <= w[j]
    <2>1. n - u[l] \in D
      <3>1. n - u[l] \in Nat
        OBVIOUS
      <3> QED
        BY <1>10, <3>1
    <2> HIDE DEF D
    <2>2. n - u[j] <= n - u[l]
      BY <1>8, <1>9, <2>1
    <2>3. u[l] <= u[j]
      <3>1. u[l] \in Nat /\ u[j] \in Nat
        OBVIOUS
      <3> QED
        BY <2>2, <3>1
    <2>4. u[l] \in Nat /\ u[j] \in Nat /\ w[l] \in Int /\ w[j] \in Int
      OBVIOUS
    <2>5. ~(u[j] < u[l])
      BY <2>3, <2>4
    <2>6. ~(w[j] < w[l])
      BY <2>5
    <2> QED
      BY <2>4, <2>6
  <1> HIDE DEF D
  <1>11. under[i] <= u[j]
    BY <1>10
  <1>12. u[i] \in Nat /\ u[j] \in Nat /\ under[i] \in Nat
    OBVIOUS
  <1>13. k <= u[j] /\ u[j] < u[i]
    <2>1. k <= u[j]
      BY <1>1, <1>6, <1>11, <1>12
    <2>2. u[j] < u[i]
      BY <1>9
    <2> QED
      BY <2>1, <2>2
  <1>14. u[i] <= u[j]
    BY <1>4, <1>5, <1>13
  <1> QED
    BY <1>12, <1>13, <1>14

LEMMA PlaceExists ==
    ASSUME NEW vs \in Seq(Int), NEW k \in 1..Len(vs)
    PROVE  \E v \in Range(vs) : PlacedAt(vs, k, v)
  <1> DEFINE n == Len(vs)
             u == [i \in 1..n |-> UpToCount(vs, vs[i])]
             under == [i \in 1..n |-> Cardinality(Under(vs, vs[i]))]
  <1>1. n \in Nat /\ \A i \in 1..n : vs[i] \in Int
    OBVIOUS
  <1>2. Range(vs) = {vs[i] : i \in 1..n}
    BY DEF Range
  <1>3. \A i \in 1..n : u[i] = UpToCount(vs, vs[i]) /\ under[i] = Cardinality(Under(vs, vs[i]))
    OBVIOUS
  <1> HIDE DEF u, under
  <1>4. ASSUME NEW i \in 1..n
        PROVE  u[i] \in Nat /\ u[i] <= n /\ under[i] \in Nat
    <2>1. vs[i] \in Int
      BY <1>1
    <2>2. UpToCount(vs, vs[i]) \in 0..n /\ Cardinality(Under(vs, vs[i])) \in 0..n
      BY <2>1, Placed
    <2>3. u[i] \in 0..n /\ under[i] \in 0..n
      BY <1>3, <2>2
    <2> QED
      BY <1>1, <2>3
  <1>5. \A i, j \in 1..n : vs[i] < vs[j] => u[i] < u[j]
    <2> TAKE i, j \in 1..n
    <2>1. vs[i] \in Int
      BY <1>1
    <2>2. vs[i] < vs[j] => UpToCount(vs, vs[i]) < UpToCount(vs, vs[j])
      BY <2>1, Placed
    <2> QED
      BY <1>3, <2>2
  <1>6. \E i \in 1..n : n <= u[i]
    <2>1. Passed(vs)
      BY PassFacts
    <2>2. PICK x : Largest(vs, x)
      BY <1>1, <2>1 DEF Passed
    <2>3. PICK i \in 1..n : x = vs[i]
      BY <1>2, <2>2 DEF Largest
    <2>4. \A j \in 1..n : vs[j] <= vs[i]
      BY <1>1, <1>2, <2>2, <2>3 DEF Largest
    <2>5. vs[i] \in Int
      BY <1>1
    <2>6. UpToCount(vs, vs[i]) = n
      BY <2>4, <2>5, Placed
    <2> QED
      BY <1>1, <1>3, <2>6
  <1>7. ASSUME NEW i \in 1..n, NEW j \in 1..n,
               \A l \in 1..n : vs[l] < vs[i] => vs[l] <= vs[j]
        PROVE  under[i] <= u[j]
    <2>1. vs[i] \in Int /\ vs[j] \in Int
      BY <1>1
    <2>2. \A l \in Under(vs, vs[i]) : vs[l] <= vs[j]
      BY <1>7 DEF Under
    <2>3. Cardinality(Under(vs, vs[i])) <= UpToCount(vs, vs[j])
      BY <2>1, <2>2, Placed
    <2> QED
      BY <1>3, <2>3
  <1>8. ASSUME NEW i \in 1..n, under[i] > 0
        PROVE  \E j \in 1..n : vs[j] < vs[i]
    <2>1. vs[i] \in Int /\ Cardinality(Under(vs, vs[i])) > 0
      BY <1>1, <1>3, <1>8
    <2> QED
      BY <2>1, Placed
  <1>9. k \in 1..n
    OBVIOUS
  <1> HIDE DEF n
  <1>10. \E i \in 1..n : under[i] < k /\ k <= u[i]
    BY <1>1, <1>4, <1>5, <1>6, <1>7, <1>8, <1>9, PlaceAmong
  <1>11. PICK i \in 1..n : under[i] < k /\ k <= u[i]
    BY <1>10
  <1>12. vs[i] \in Range(vs) /\ PlacedAt(vs, k, vs[i])
    BY <1>2, <1>3, <1>11 DEF PlacedAt, UpToCount
  <1> QED
    BY <1>12

LEMMA SortedIs ==
    ASSUME NEW vs \in Seq(Int), NEW k \in 1..Len(vs)
    PROVE  PlacedAt(vs, k, Sorted(vs, k)) /\ Sorted(vs, k) \in Int
  <1>1. \E v \in Range(vs) : PlacedAt(vs, k, v)
    BY PlaceExists
  <1>2. Sorted(vs, k) = CHOOSE v \in Range(vs) : PlacedAt(vs, k, v)
    <2>1. \A v \in Range(vs) : PlacedAt(vs, k, v) <=>
              /\ Cardinality({i \in 1..Len(vs) : vs[i] < v}) < k
              /\ k <= Cardinality({i \in 1..Len(vs) : vs[i] <= v})
      BY DEF PlacedAt, Under, AtMost
    <2> QED
      BY <2>1 DEF Sorted
  <1>3. PlacedAt(vs, k, Sorted(vs, k))
    BY <1>1, <1>2
  <1>4. \A v \in Range(vs) : v \in Int
    BY DEF Range
  <1> QED
    BY <1>3, <1>4 DEF PlacedAt

\* The sizes Meets asks of a middle.
NoMoreThanHalf(vs, x) ==
    /\ Cardinality({i \in 1..Len(vs) : 2 * vs[i] < x}) * 2 <= Len(vs)
    /\ Cardinality({i \in 1..Len(vs) : 2 * vs[i] > x}) * 2 <= Len(vs)

(* Between two places of the sorted values, half lies on either side. *)
LEMMA BetweenPlaces ==
    ASSUME NEW vs \in Seq(Int), NEW k \in 1..Len(vs), NEW l \in 1..Len(vs),
           NEW a \in Int, PlacedAt(vs, k, a), NEW b \in Int, PlacedAt(vs, l, b),
           k <= l, 2 * (l - 1) <= Len(vs), Len(vs) <= 2 * k
    PROVE  NoMoreThanHalf(vs, a + b) /\ a \in Range(vs) /\ b \in Range(vs)
  <1> DEFINE n == Len(vs)
             x == a + b
             Low == {i \in 1..n : 2 * vs[i] < x}
             High == {i \in 1..n : 2 * vs[i] > x}
             A == AtMost(vs, a)
             B == Under(vs, b)
  <1>1. n \in Nat /\ k \in Nat /\ l \in Nat /\ \A i \in 1..n : vs[i] \in Int
    OBVIOUS
  <1>2. Cardinality(Under(vs, a)) < k /\ k <= Cardinality(A) /\ Cardinality(B) < l
        /\ l <= Cardinality(AtMost(vs, b)) /\ a \in Range(vs) /\ b \in Range(vs)
    BY DEF PlacedAt
  <1>3. A \subseteq 1..n /\ B \subseteq 1..n
    BY DEF AtMost, Under
  <1>4. a <= b
    <2>1. CASE b < a
      <3>1. AtMost(vs, b) \subseteq Under(vs, a) /\ Under(vs, a) \subseteq 1..n
        BY <1>1, <2>1 DEF AtMost, Under
      <3> DEFINE p == Cardinality(AtMost(vs, b))
                 q == Cardinality(Under(vs, a))
      <3>2. p \in Nat /\ q \in Nat /\ p <= q
        BY <1>1, <3>1, SizeUpTo
      <3>3. q < k /\ l <= p
        BY <1>2
      <3> HIDE DEF p, q
      <3> QED
        BY <1>1, <3>2, <3>3
    <2> QED
      BY <2>1
  <1>5. Low \subseteq B
    BY <1>1, <1>4 DEF Under
  <1> DEFINE above == (1..n) \ A
  <1>6. High \subseteq above
    BY <1>1, <1>4 DEF AtMost
  <1>7. above \subseteq 1..n
    OBVIOUS
  <1>8. Cardinality(above) = n - Cardinality(A) /\ Cardinality(A) \in Nat
    BY <1>1, <1>3, SizeUpTo
  <1> HIDE DEF above, A, B, Low, High
  <1>9. Cardinality(Low) \in Nat /\ Cardinality(Low) <= Cardinality(B) /\ Cardinality(B) \in Nat
    BY <1>1, <1>3, <1>5, SizeUpTo
  <1>10. Cardinality(High) \in Nat /\ Cardinality(High) <= Cardinality(above)
    BY <1>1, <1>6, <1>7, SizeUpTo
  <1> DEFINE lo == Cardinality(Low)
             hi == Cardinality(High)
             ca == Cardinality(A)
             cb == Cardinality(B)
  <1>11. lo \in Nat /\ hi \in Nat /\ ca \in Nat /\ cb \in Nat /\ lo <= cb /\ hi <= n - ca
         /\ cb < l /\ k <= ca
    BY <1>2, <1>8, <1>9, <1>10
  <1>12. 2 * (l - 1) <= n /\ n <= 2 * k
    OBVIOUS
  <1> HIDE DEF lo, hi, ca, cb, n
  <1>13. lo * 2 <= n /\ hi * 2 <= n
    BY <1>1, <1>11, <1>12
  <1> QED
    BY <1>2, <1>13 DEF NoMoreThanHalf, lo, hi, Low, High, n

(* The median. *)
LEMMA MeantMiddle ==
    ASSUME NEW vs \in Seq(Int), NEW size
    PROVE  Meant("median", size, vs, Middle(vs))
  <1> DEFINE n == Len(vs)
             h == n \div 2
  <1>1. n \in Nat
    OBVIOUS
  <1> HIDE DEF n
  <1>2. h \in Nat /\ n % 2 = n - 2 * h /\ n % 2 \in 0..1
    BY <1>1
  <1>3. CASE n = 0
    BY <1>3 DEF Meant, Middle, n
  <1>4. CASE n # 0 /\ n % 2 = 1
    <2> DEFINE a == Sorted(vs, h + 1)
               x == a + a
    <2>1. h + 1 \in 1..n
      BY <1>1, <1>2, <1>4
    <2>2. PlacedAt(vs, h + 1, a) /\ a \in Int
      BY <2>1, SortedIs DEF n
    <2>3. Middle(vs) = <<2 * a>>
      BY <1>4 DEF Middle, n
    <2>4. 2 * ((h + 1) - 1) <= n /\ n <= 2 * (h + 1) /\ h + 1 <= h + 1
      BY <1>1, <1>2, <1>4
    <2> HIDE DEF a, h
    <2>5. NoMoreThanHalf(vs, x) /\ a \in Range(vs)
      BY <2>1, <2>2, <2>4, BetweenPlaces DEF n
    <2>6. x = 2 * a /\ n % 2 = 1
      BY <1>4, <2>2
    <2>7. x \in {2 * v : v \in Range(vs)}
      BY <2>5, <2>6
    <2> HIDE DEF x
    <2>8. MiddleOf(vs, x)
      BY <2>5, <2>6, <2>7 DEF MiddleOf, NoMoreThanHalf, n
    <2>9. Middle(vs) = <<x>>
      BY <2>3, <2>6
    <2> QED
      BY <1>4, <2>8, <2>9 DEF Meant, n
  <1>5. CASE n # 0 /\ n % 2 = 0
    <2> DEFINE a == Sorted(vs, h)
               b == Sorted(vs, h + 1)
               x == a + b
    <2>1. h \in 1..n /\ h + 1 \in 1..n
      BY <1>1, <1>2, <1>5
    <2>2. PlacedAt(vs, h, a) /\ a \in Int /\ PlacedAt(vs, h + 1, b) /\ b \in Int
      BY <2>1, SortedIs DEF n
    <2>3. Middle(vs) = <<x>>
      BY <1>5 DEF Middle, n
    <2>4. 2 * ((h + 1) - 1) <= n /\ n <= 2 * h /\ h <= h + 1
      BY <1>1, <1>2, <1>5
    <2> HIDE DEF a, b, h
    <2>5. NoMoreThanHalf(vs, x) /\ a \in Range(vs) /\ b \in Range(vs)
      BY <2>1, <2>2, <2>4, BetweenPlaces DEF n
    <2>6. x \in {v + w : v, w \in Range(vs)}
      BY <2>5
    <2> HIDE DEF x
    <2>7. MiddleOf(vs, x)
      BY <1>5, <2>5, <2>6 DEF MiddleOf, NoMoreThanHalf, n
    <2> QED
      BY <1>5, <2>3, <2>7 DEF Meant, n
  <1> QED
    BY <1>2, <1>3, <1>4, <1>5

(* The encoding of a value that is plain tells it from the others. *)
LEMMA OneKey ==
    ASSUME NEW type, NEW a, NEW b, KeyCell(type, a), KeyCell(type, b)
    PROVE  CellKey(type, a) = CellKey(type, b) <=> a = b
  <1> DEFINE keys == <<[type |-> type, cells |-> <<a, b>>]>>
  <1>1. Len(keys) = 1 /\ keys[1].type = type /\ keys[1].cells[1] = a /\ keys[1].cells[2] = b
        /\ Len(keys) \in Nat \ {0}
    OBVIOUS
  <1> HIDE DEF keys
  <1>2. KeyRow(keys, 1) /\ KeyRow(keys, 2)
    BY <1>1 DEF KeyRow
  <1>3. RowKey(keys, 1) = RowKey(keys, 2) <=> KeyCells(keys, 1) = KeyCells(keys, 2)
    BY <1>1, <1>2, RowKeyCells
  <1>4. RowKey(keys, 1) = CellKey(type, a) /\ RowKey(keys, 2) = CellKey(type, b)
    BY <1>1, OneRowKey
  <1>5. KeyCells(keys, 1) = <<a>> /\ KeyCells(keys, 2) = <<b>>
    BY <1>1, OneCell
  <1> QED
    BY <1>3, <1>4, <1>5, OneValue

\* Values whose encodings tell them apart.
PlainValues(type, vs) == \A i \in 1..Len(vs) : KeyCell(type, <<vs[i]>>)

LEMMA ValueKeys ==
    ASSUME NEW type, NEW vs, PlainValues(type, vs)
    PROVE  \A i, j \in 1..Len(vs) :
              CellKey(type, <<vs[i]>>) = CellKey(type, <<vs[j]>>) <=> vs[i] = vs[j]
  <1> TAKE i, j \in 1..Len(vs)
  <1>1. KeyCell(type, <<vs[i]>>) /\ KeyCell(type, <<vs[j]>>)
    BY DEF PlainValues
  <1>2. CellKey(type, <<vs[i]>>) = CellKey(type, <<vs[j]>>) <=> <<vs[i]>> = <<vs[j]>>
    BY <1>1, OneKey
  <1> QED
    BY <1>2, OneValue

(* The most frequent value, the first among equals. *)
LEMMA MeantMode ==
    ASSUME NEW type, NEW V, NEW vs \in Seq(V), PlainValues(type, vs), NEW size
    PROVE  Meant("mode", size, vs, MostFrequent(type, vs))
  <1> DEFINE n == Len(vs)
             c == TimesOf(type, V, vs)
             b == BestIndex(c)
  <1>1. n \in Nat /\ \A i \in 1..n : vs[i] \in V
    OBVIOUS
  <1>2. CASE n = 0
    <2>1. vs = <<>>
      BY <1>2
    <2>2. MostFrequent(type, vs) = Null
      BY <2>1 DEF MostFrequent
    <2> QED
      BY <1>2, <2>2 DEF Meant
  <1>3. CASE n # 0
    <2>1. vs # <<>>
      BY <1>3
    <2>2. MostFrequent(type, vs) = <<vs[b]>> /\ Best(c, n, b)
      BY <2>1, MostFrequentIs
    <2>3. ASSUME NEW i \in 1..n
          PROVE  c[i] = Occurs(vs, vs[i])
      <3> DEFINE W == WithKey(type, V, CellKey(type, <<vs[i]>>))
      <3>1. c[i] = Count(vs, W)
        BY DEF TimesOf
      <3>2. \A j \in 1..n : vs[j] \in W <=> vs[j] = vs[i]
        BY <1>1, ValueKeys DEF WithKey
      <3> HIDE DEF W, c
      <3>3. {j \in 1..n : vs[j] \in W} = {j \in 1..n : vs[j] = vs[i]}
        BY <3>2
      <3> QED
        BY <3>1, <3>3 DEF Count, Occurs
    <2> HIDE DEF b, c
    <2>4. b \in 1..n /\ \A j \in 1..n : c[j] < c[b] \/ (c[j] = c[b] /\ b <= j)
      BY <2>2 DEF Best
    <2>5. CommonestOf(vs, vs[b])
      BY <2>3, <2>4 DEF CommonestOf
    <2> QED
      BY <1>3, <2>2, <2>5 DEF Meant
  <1> QED
    BY <1>2, <1>3

(* The number of distinct values. *)
LEMMA DistinctKeys ==
    ASSUME NEW type, NEW V, NEW vs \in Seq(V), PlainValues(type, vs)
    PROVE  Cardinality({CellKey(type, <<v>>) : v \in Range(vs)}) = Cardinality(Range(vs))
  <1> DEFINE S == Range(vs)
             T == {CellKey(type, <<v>>) : v \in S}
             g == [i \in 1..Len(vs) |-> vs[i]]
             f == [v \in S |-> CellKey(type, <<v>>)]
  <1>1. S = {vs[i] : i \in 1..Len(vs)} /\ Len(vs) \in Nat
    BY DEF Range
  <1>2. g \in Surjection(1..Len(vs), S)
    BY <1>1 DEF Surjection
  <1>3. IsFiniteSet(1..Len(vs))
    BY <1>1, UpTo
  <1> HIDE DEF g
  <1>4. IsFiniteSet(S)
    <2> HIDE DEF S
    <2> QED
      BY <1>2, <1>3, FS_Surjection
  <1>5. \A v, w \in S : CellKey(type, <<v>>) = CellKey(type, <<w>>) => v = w
    BY <1>1, ValueKeys
  <1> HIDE DEF S
  <1>6. f \in Injection(S, T)
    BY <1>5 DEF Injection, IsInjective
  <1>7. f \in Surjection(S, T)
    BY DEF Surjection
  <1> HIDE DEF f, T
  <1>8. Cardinality(T) = Cardinality(S)
    BY <1>4, <1>6, <1>7, FS_Surjection
  <1> QED
    BY <1>8 DEF T, S

(* Each kind, for the cells of a group. *)
LEMMA AggMeant ==
    ASSUME NEW k \in Kinds, NEW type, NEW cells \in Seq(CellsOf(Values(type))),
           NEW vs, vs = Present(cells), vs \in Seq(Values(type)),
           type \in KeyTypes => PlainValues(type, vs),
           Divides(Len(vs)), ~AggFails(k, type, vs)
    PROVE  Meant(k, Len(cells), vs, AppendAgg(k, type, cells))
  <1> DEFINE agg == AppendAgg(k, type, cells)
             size == Len(cells)
  <1>1. AggIs(k, type, size, vs, agg)
    BY AppendAggIs
  <1>2. Len(vs) \in Nat /\ (vs = <<>> <=> Len(vs) = 0)
    OBVIOUS
  <1> HIDE DEF agg, size
  <1>3. CASE k = "star"
    BY <1>1, <1>3 DEF AggIs, Meant, agg, size
  <1>4. CASE k = "count"
    BY <1>1, <1>4 DEF AggIs, Meant, agg, size
  <1>5. CASE k = "first"
    <2>1. agg = IF vs = <<>> THEN Null ELSE <<Head(vs)>>
      BY <1>1, <1>5 DEF AggIs
    <2>2. vs # <<>> => Head(vs) = vs[1]
      BY HeadTailProperties
    <2> QED
      BY <1>2, <1>5, <2>1, <2>2 DEF Meant, agg
  <1>6. CASE k = "last"
    <2>1. agg = IF vs = <<>> THEN Null ELSE <<vs[Len(vs)]>>
      BY <1>1, <1>6 DEF AggIs
    <2> QED
      BY <1>2, <1>6, <2>1 DEF Meant, agg
  <1>7. k \in Summed => vs \in Seq(Int)
    <2> SUFFICES ASSUME k \in Summed PROVE vs \in Seq(Int)
      OBVIOUS
    <2>1. type \in Numeric
      BY DEF AggFails
    <2>2. Values(type) \subseteq Int
      BY <2>1, NumericValues
    <2> QED
      BY <2>2, WiderSeq
  <1>8. CASE k \in {"sum", "mean", "min", "max", "var"}
    <2>1. agg = FromPass(k, OnePass(vs))
      BY <1>1, <1>8 DEF AggIs
    <2>2. vs \in Seq(Int)
      BY <1>7, <1>8 DEF Summed
    <2> QED
      BY <1>8, <2>1, <2>2, MeantPass DEF agg
  <1>9. CASE k = "median"
    <2>1. agg = Middle(vs)
      BY <1>1, <1>9 DEF AggIs
    <2>2. vs \in Seq(Int)
      BY <1>7, <1>9 DEF Summed
    <2>3. Meant("median", size, vs, Middle(vs))
      BY <2>2, MeantMiddle
    <2> QED
      BY <1>9, <2>1, <2>3 DEF agg, size
  <1>10. k \in {"nunique", "mode"} => PlainValues(type, vs)
    <2> SUFFICES ASSUME k \in {"nunique", "mode"} PROVE PlainValues(type, vs)
      OBVIOUS
    <2>1. CASE vs = <<>>
      BY <1>2, <2>1 DEF PlainValues
    <2>2. CASE vs # <<>>
      <3>1. type \in Readable
        BY <2>2 DEF AggFails, Scalar
      <3> QED
        BY <3>1 DEF Readable, KeyTypes
    <2> QED
      BY <2>1, <2>2
  <1>11. CASE k = "mode"
    <2>1. agg = MostFrequent(type, vs)
      BY <1>1, <1>11 DEF AggIs
    <2>2. Meant("mode", size, vs, MostFrequent(type, vs))
      BY <1>10, <1>11, MeantMode
    <2> QED
      BY <1>11, <2>1, <2>2 DEF agg, size
  <1>12. CASE k = "nunique"
    <2>1. agg = <<Cardinality({CellKey(type, <<v>>) : v \in Range(vs)})>>
      BY <1>1, <1>12 DEF AggIs
    <2>2. Cardinality({CellKey(type, <<v>>) : v \in Range(vs)}) = Cardinality(Range(vs))
      BY <1>10, <1>12, DistinctKeys
    <2>3. agg = <<Cardinality(Range(vs))>>
      BY <2>1, <2>2
    <2> QED
      BY <1>12, <2>3 DEF Meant, agg
  <1> QED
    BY <1>3, <1>4, <1>5, <1>6, <1>8, <1>9, <1>11, <1>12 DEF Kinds

(* The values are the cells', and no more of them. *)
LEMMA PresentFrom ==
    ASSUME NEW cells, Len(cells) \in Nat
    PROVE  /\ Len(Present(cells)) \in Nat /\ Len(Present(cells)) <= Len(cells)
           /\ \A i \in 1..Len(Present(cells)) : \E j \in 1..Len(cells) :
                 cells[j] # Null /\ Present(cells)[i] = cells[j][1]
  <1> DEFINE kept == PresentAt(cells)
             order == InOrder(kept)
             vs == [n \in 1..Len(order) |-> cells[order[n]][1]]
  <1>1. /\ IsFiniteSet(kept) /\ kept \subseteq Int /\ kept \subseteq 1..Len(cells)
        /\ Cardinality(kept) \in Nat /\ Cardinality(kept) <= Len(cells)
    <2>1. kept \subseteq 1..Len(cells)
      BY DEF PresentAt
    <2>2. IsFiniteSet(1..Len(cells)) /\ Cardinality(1..Len(cells)) = Len(cells)
      BY UpTo
    <2> HIDE DEF kept
    <2>3. IsFiniteSet(kept) /\ Cardinality(kept) <= Len(cells)
      BY <2>1, <2>2, FS_Subset
    <2> QED
      BY <2>1, <2>3, FS_CardinalityType
  <1>2. Present(cells) = vs
    BY DEF Present, PresentAt
  <1>3. \A i \in kept : cells[i] # Null
    BY DEF PresentAt
  <1> HIDE DEF kept
  <1>4. Len(order) = Cardinality(kept) /\ order \in Seq(kept)
    BY <1>1, InOrderLists
  <1> HIDE DEF order
  <1>5. \A i \in 1..Len(order) : order[i] \in kept
    BY <1>4
  <1>6. Len(vs) = Len(order)
    BY <1>4
  <1>7. \A i \in 1..Len(order) : vs[i] = cells[order[i]][1]
    OBVIOUS
  <1> HIDE DEF vs
  <1> QED
    BY <1>1, <1>2, <1>3, <1>4, <1>5, <1>6, <1>7

\* The values Plain speaks of, in the value column.
LEMMA PresentPlain ==
    ASSUME NEW f \in Inputs, f.value.type \in KeyTypes, Plain(f.value),
           NEW rows, rows \subseteq Rows(f)
    PROVE  PlainValues(f.value.type, Present(CellsAt(f, InOrder(rows))))
  <1> DEFINE type == f.value.type
             order == InOrder(rows)
             cells == CellsAt(f, order)
             vs == Present(cells)
             P == {cell \in CellsOf(Values(type)) : KeyCell(type, cell)}
  <1>1. /\ cells \in Seq(CellsOf(Values(type))) /\ Len(cells) = Len(order)
        /\ \A i \in 1..Len(order) : order[i] \in rows
    BY CellsAtRows
  <1>2. f.value.cells \in Seq(CellsOf(Values(type))) /\ Len(f.value.cells) = NumRows(f)
    BY FrameFacts DEF NumRows
  <1>3. \A r \in Rows(f) : KeyCell(type, f.value.cells[r])
    <2> TAKE r \in Rows(f)
    <2> DEFINE c == f.value.cells[r]
    <2>1. c \in CellsOf(Values(type)) /\ r \in 1..Len(f.value.cells)
      BY <1>2 DEF Rows
    <2>2. PlainCell(type, c)
      BY <2>1 DEF Plain, PlainCell
    <2> QED
      BY <2>1, <2>2 DEF KeyCell
  <1>4. \A i \in 1..Len(cells) : KeyCell(type, cells[i])
    BY <1>1, <1>3 DEF CellsAt
  <1> HIDE DEF cells, order
  <1>5. \A i \in 1..Len(vs) : \E j \in 1..Len(cells) : cells[j] # Null /\ vs[i] = cells[j][1]
    BY <1>1, PresentFrom
  <1> SUFFICES ASSUME NEW i \in 1..Len(vs) PROVE KeyCell(type, <<vs[i]>>)
    BY DEF PlainValues, cells, order
  <1>6. PICK j \in 1..Len(cells) : cells[j] # Null /\ vs[i] = cells[j][1]
    BY <1>5
  <1>7. cells[j] = <<cells[j][1]>>
    <2>1. cells[j] \in CellsOf(Values(type))
      BY <1>1
    <2> QED
      BY <1>6, <2>1, CellForm
  <1> QED
    BY <1>4, <1>6, <1>7

(* A row of an answer that is no error holds what its kind means. *)
LEMMA RowMeant ==
    ASSUME NEW f \in Inputs, NEW k \in Kinds, Plain(f.value),
           NEW key, key \in {KeyCells(f.keys, r) : r \in Rows(f)},
           RowOf(f, k, GroupOf(f, key)).agg # Error
    PROVE  LET order == InOrder(RowsWith(f, key))
               cells == CellsAt(f, order)
           IN  /\ Len(order) \in Nat \ {0} /\ Len(Present(cells)) \in Nat
               /\ Meant(k, Len(order), Present(cells), RowOf(f, k, GroupOf(f, key)).agg)
  <1> DEFINE rows == RowsWith(f, key)
             order == InOrder(rows)
             cells == CellsAt(f, order)
             type == f.value.type
             vs == Present(cells)
             agg == RowOf(f, k, GroupOf(f, key)).agg
  <1>1. rows \subseteq Rows(f) /\ rows # {}
    BY DEF RowsWith
  <1>2. agg = AppendAgg(k, type, cells)
    <2>1. GroupOf(f, key).rows = order
      BY DEF GroupOf
    <2> HIDE DEF order
    <2>2. RowOf(f, k, GroupOf(f, key)).agg = AppendAgg(k, type, CellsAt(f, GroupOf(f, key).rows))
      BY DEF RowOf, CellsAt
    <2> QED
      BY <2>1, <2>2
  <1>3. NumRows(f) \in Nat
    BY FrameFacts
  <1> HIDE DEF rows, agg
  <1>4. /\ cells \in Seq(CellsOf(Values(type))) /\ Len(cells) = Len(order)
        /\ Len(order) = Cardinality(rows) /\ IsFiniteSet(rows) /\ Cardinality(rows) \in Nat
    BY <1>1, CellsAtRows
  <1> HIDE DEF cells
  <1>5. Len(order) \in Nat \ {0} /\ Len(cells) \in Nat \ {0}
    <2>1. Cardinality(rows) # 0
      BY <1>1, <1>4, FS_EmptySet
    <2> QED
      BY <1>4, <2>1
  <1>6. Len(order) <= NumRows(f)
    <2>1. IsFiniteSet(Rows(f)) /\ Cardinality(Rows(f)) = NumRows(f)
      BY <1>3, UpTo DEF Rows
    <2>2. Cardinality(rows) <= Cardinality(Rows(f))
      BY <1>1, <2>1, FS_Subset
    <2> QED
      BY <1>4, <2>1, <2>2
  <1>7. Len(vs) \in Nat /\ Len(vs) <= Len(cells)
    BY <1>5, PresentFrom
  <1>8. vs \in Seq(Values(type))
    <2>1. Null \in CellsOf(Values(type))
      BY DEF CellsOf
    <2> QED
      BY <1>4, <2>1, PresentAppend
  <1>9. Divides(Len(vs))
    <2>1. \A j \in 1..Len(vs) : j \in 1..NumRows(f)
      BY <1>3, <1>4, <1>5, <1>6, <1>7
    <2> QED
      BY <2>1, UnitAssumption DEF Divides
  <1>10. ~AggFails(k, type, vs)
    <2>1. AppendAgg(k, type, cells) # Error
      BY <1>2 DEF agg
    <2> QED
      BY <1>5, <2>1, AggError
  <1>11. type \in KeyTypes => PlainValues(type, vs)
    BY <1>1, PresentPlain DEF cells
  <1> HIDE DEF vs, type, order
  <1>12. Meant(k, Len(cells), vs, AppendAgg(k, type, cells))
    BY <1>4, <1>8, <1>9, <1>10, <1>11, AggMeant DEF vs
  <1>13. Meant(k, Len(order), vs, agg)
    BY <1>2, <1>4, <1>12
  <1> QED
    BY <1>5, <1>7, <1>13 DEF agg, vs, cells, order, rows

LEMMA AggregatesHere == BatchFree => AggregatesAsDefined
  <1> SUFFICES ASSUME BatchFree, PlainKeys, Plain(input.value), NullsKept, status = "done",
                      NEW row \in Range(result)
               PROVE  LET rows == InOrder({r \in 1..NumRows(input) :
                                             KeyCells(input.keys, r) = row.key})
                          cells == [i \in 1..Len(rows) |-> input.value.cells[rows[i]]]
                      IN  rows # <<>> /\ Meets(row.agg, Len(rows), Present(cells))
    BY DEF AggregatesAsDefined
  <1>1. /\ input \in Inputs /\ kind \in Kinds /\ PlainFrame(input) /\ NullFree(input)
    BY DEF BatchFree, PlainKeys, PlainFrame, NullsKept, NullFree
  <1>2. PICK G : Streams(input, kind, StreamIds(input),
                         Ascending(Ints(input.keys), {StreamIds(input)[r] : r \in Rows(input)}),
                         G, result)
    BY <1>1, StreamIsAnswer
  <1>3. /\ Faithful(input, G)
        /\ result = [i \in 1..Len(G) |-> RowOf(input, kind, G[i])]
        /\ \A i \in 1..Len(G) : RowOf(input, kind, G[i]).agg # Error
    BY <1>2 DEF Streams
  <1>4. PICK i \in 1..Len(G) : row = RowOf(input, kind, G[i])
    BY <1>3 DEF Range
  <1>5. G[i] \in AllGroups(input)
    BY <1>3 DEF Faithful
  <1>6. PICK key \in {KeyCells(input.keys, r) : r \in Rows(input)} : G[i] = GroupOf(input, key)
    BY <1>5 DEF AllGroups
  <1> DEFINE order == InOrder(RowsWith(input, key))
             cells == CellsAt(input, order)
  <1>7. row.key = key
    <2>1. row.key = G[i].key
      BY <1>4, RowOfShape
    <2>2. GroupOf(input, key).key = key
      BY DEF GroupOf
    <2> QED
      BY <1>6, <2>1, <2>2
  <1>8. row = RowOf(input, kind, GroupOf(input, key)) /\ row.agg # Error
    BY <1>3, <1>4, <1>6
  <1>9. /\ Len(order) \in Nat \ {0} /\ Len(Present(cells)) \in Nat
        /\ Meant(kind, Len(order), Present(cells), row.agg)
    BY <1>1, <1>8, RowMeant
  <1>10. InOrder({r \in 1..NumRows(input) : KeyCells(input.keys, r) = row.key}) = order
    BY <1>7 DEF RowsWith, Rows
  <1>11. [j \in 1..Len(order) |-> input.value.cells[order[j]]] = cells
    BY DEF CellsAt
  <1>12. order # <<>>
    BY <1>9
  <1> HIDE DEF order
  <1>13. Meets(row.agg, Len(order), Present(cells))
    <2> HIDE DEF cells
    <2> QED
      BY <1>1, <1>9, MeetsOne
  <1> QED
    BY <1>10, <1>11, <1>12, <1>13

\* For every frame, every kind and every way to cut the rows into batches:
\* a row of the streaming result holds, for its key, the sum, the exact mean
\* and sample variance, the extremes, the first and last value, the median,
\* the number of distinct values or the most frequent one as each is
\* defined over the group's values, though an accumulator sees one value at
\* a time and never the group.
THEOREM EveryAggregateIsDefined == Spec => []AggregatesAsDefined
  <1> QED
    BY BatchesDoNotMatter, AggregatesHere, PTL
=============================================================================
