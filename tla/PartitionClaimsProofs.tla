------------------------ MODULE PartitionClaimsProofs ------------------------
(***************************************************************************)
(* Every claim a plan derives is true but for what rests on recomputed     *)
(* columns or on the order of interleaved rows, and the linear scans it    *)
(* licenses find the groups of the hash path with the same exceptions, for *)
(* every set of names, values and partitions and frames of every length.   *)
(***************************************************************************)
EXTENDS PartitionClaims, SequenceTheorems, TLAPS

-----------------------------------------------------------------------------
(* Sequences. *)

LEMMA FunctionIsSeq ==
  ASSUME NEW S, NEW n \in Nat, NEW f \in [1..n -> S]
  PROVE  f \in Seq(S) /\ Len(f) = n /\ DOMAIN f = 1..n
OBVIOUS

LEMMA SeqIsFunction ==
  ASSUME NEW S, NEW f \in Seq(S)
  PROVE  /\ Len(f) \in Nat
         /\ DOMAIN f = 1..Len(f)
         /\ f \in [1..Len(f) -> S]
OBVIOUS

LEMMA EmptyIsEmpty ==
  ASSUME NEW S, NEW s \in Seq(S)
  PROVE  s = <<>> <=> Len(s) = 0
OBVIOUS

LEMMA PrefixIsSeq ==
  ASSUME NEW S, NEW s \in Seq(S), NEW n \in 0..Len(s)
  PROVE  /\ Prefix(s, n) \in Seq(S)
         /\ DOMAIN Prefix(s, n) = 1..n
         /\ Len(Prefix(s, n)) = n
         /\ \A i \in 1..n : Prefix(s, n)[i] = s[i]
<1>1. Prefix(s, n) \in [1..n -> S]
  BY DEF Prefix
<1> QED BY <1>1, FunctionIsSeq DEF Prefix

LEMMA TakeRows ==
  ASSUME NEW S, NEW f \in Seq(S), NEW n \in Nat, NEW p \in [1..n -> 1..Len(f)]
  PROVE  /\ DOMAIN Take(f, p) = 1..n
         /\ \A i \in 1..n : Take(f, p)[i] = f[p[i]]
         /\ \A i \in 1..n : p[i] \in DOMAIN f
<1>1. DOMAIN f = 1..Len(f)
  BY SeqIsFunction
<1>2. DOMAIN p = 1..n /\ \A i \in 1..n : p[i] \in 1..Len(f)
  OBVIOUS
<1> QED BY <1>1, <1>2 DEF Take

LEMMA TakeIsSeq ==
  ASSUME NEW S, NEW f \in Seq(S), NEW n \in Nat, NEW p \in [1..n -> 1..Len(f)]
  PROVE  /\ Take(f, p) \in Seq(S)
         /\ Len(Take(f, p)) = n
         /\ DOMAIN Take(f, p) = 1..n
         /\ \A i \in 1..n : Take(f, p)[i] = f[p[i]] /\ p[i] \in DOMAIN f
<1>1. Take(f, p) \in [1..n -> S]
  BY SeqIsFunction DEF Take
<1> QED BY <1>1, FunctionIsSeq DEF Take

-----------------------------------------------------------------------------
(* Orders. *)

LEMMA InOrderReflexive ==
  ASSUME NEW S, NEW r \in Row(S), NEW keys \in Seq(SortKey),
         \A q \in DOMAIN keys : keys[q].column \in S
  PROVE  InOrder(r, r, keys)
<1>1. \A q \in DOMAIN keys : r.cell[keys[q].column] \in Int
  BY ValuesAssumption DEF Row
<1> QED BY <1>1 DEF InOrder

\* What is in order by some keys is in order by a prefix of them.
LEMMA InOrderPrefix ==
  ASSUME NEW r, NEW s, NEW keys \in Seq(SortKey), NEW few \in Seq(SortKey),
         IsSortedByPrefix(few, keys), InOrder(r, s, keys)
  PROVE  InOrder(r, s, few)
<1>1. \A q \in DOMAIN few : q \in DOMAIN keys /\ few[q] = keys[q]
  BY SeqIsFunction DEF IsSortedByPrefix
<1>2. \A p \in DOMAIN few : \A q \in 1..(p - 1) : q \in DOMAIN few
  BY SeqIsFunction
<1> QED BY <1>1, <1>2 DEF InOrder

-----------------------------------------------------------------------------
(* Sound claims. *)

\* A key list of a claim, cut to fresh keys.
LEMMA FreshPrefix ==
  ASSUME NEW keys \in Seq(SortKey), NEW stale, NEW n \in FreshLengths(keys, stale)
  PROVE  /\ n \in 0..Len(keys) /\ n \in Nat
         /\ Prefix(keys, n) \in Seq(SortKey)
         /\ DOMAIN Prefix(keys, n) = 1..n
         /\ \A i \in 1..n : i \in DOMAIN keys /\ Prefix(keys, n)[i] = keys[i] /\ keys[i].column \notin stale
<1>1. n \in 0..Len(keys) /\ \A i \in 1..n : keys[i].column \notin stale
  BY DEF FreshLengths
<1>2. DOMAIN keys = 1..Len(keys) /\ Len(keys) \in Nat
  BY SeqIsFunction
<1> QED BY <1>1, <1>2, PrefixIsSeq

\* A weaker claim than a true one is true, also if more is held to be stale,
\* or less of what the claim promises nothing of.
LEMMA WeakerIsSound ==
  ASSUME NEW f, NEW S, NEW c \in Claim, NEW d \in Claim,
         NEW stale, NEW mixed \in BOOLEAN, NEW more, NEW mixedMore \in BOOLEAN,
         Sound(f, S, c, stale, mixed),
         d.columns = c.columns,
         IsSortedByPrefix(d.sortedBy, c.sortedBy),
         d.sortEnforced => c.sortEnforced,
         stale \cap Promised(d, mixedMore) \subseteq more,
         d.sortEnforced /\ mixed => mixedMore
  PROVE  Sound(f, S, d, more, mixedMore)
<1>0. /\ c.sortedBy \in Seq(SortKey) /\ d.sortedBy \in Seq(SortKey)
      /\ d.sortEnforced \in BOOLEAN /\ c.sortEnforced \in BOOLEAN
  BY DEF Claim
<1>1. \A n \in DOMAIN d.sortedBy : n \in DOMAIN c.sortedBy /\ d.sortedBy[n] = c.sortedBy[n]
  BY <1>0, SeqIsFunction DEF IsSortedByPrefix
<1>2. Names(d) \subseteq S
  BY <1>1 DEF Sound, Names, ColumnsOf, KeysOf
<1>3. ASSUME \A n \in DOMAIN d.columns : d.columns[n] \notin more
      PROVE  Colocated(f, d)
  <2>1. \A n \in DOMAIN c.columns : c.columns[n] \notin stale
    BY <1>3 DEF Promised, ColumnsOf
  <2> QED BY <2>1 DEF Sound, Colocated
<1>4. ASSUME d.sortEnforced, ~mixedMore
      PROVE  /\ Contiguous(f)
             /\ \A n \in FreshLengths(d.sortedBy, more) : SortedWithin(f, Prefix(d.sortedBy, n))
  <2>1. /\ Contiguous(f)
        /\ \A n \in FreshLengths(c.sortedBy, stale) : SortedWithin(f, Prefix(c.sortedBy, n))
    BY <1>4 DEF Sound
  <2>2. ASSUME NEW n \in FreshLengths(d.sortedBy, more)
        PROVE  SortedWithin(f, Prefix(d.sortedBy, n))
    <3>1. n \in 0..Len(d.sortedBy) /\ n \in Nat /\ \A i \in 1..n : i \in DOMAIN d.sortedBy /\ d.sortedBy[i].column \notin more
      BY <1>0, FreshPrefix
    <3>2. \A i \in 1..n : c.sortedBy[i].column \notin stale /\ c.sortedBy[i] = d.sortedBy[i]
      BY <1>1, <1>4, <3>1 DEF Promised, KeysOf
    <3>3. n \in 0..Len(c.sortedBy)
      BY <1>0, <3>1, SeqIsFunction DEF IsSortedByPrefix
    <3>4. n \in FreshLengths(c.sortedBy, stale)
      BY <3>2, <3>3 DEF FreshLengths
    <3>5. Prefix(d.sortedBy, n) = Prefix(c.sortedBy, n)
      BY <3>2 DEF Prefix
    <3> QED BY <2>1, <3>4, <3>5
  <2> QED BY <2>1, <2>2
<1> QED BY <1>2, <1>3, <1>4 DEF Sound

\* The sort keys may always be dropped.
LEMMA UnsortedIsSound ==
  ASSUME NEW f, NEW S, NEW c \in Claim, NEW stale, NEW mixed \in BOOLEAN, Sound(f, S, c, stale, mixed)
  PROVE  /\ Unsorted(c) \in Claim \cup {NoClaim}
         /\ Unsorted(c) # NoClaim => Sound(f, S, Unsorted(c), stale, mixed) /\ Names(Unsorted(c)) = ColumnsOf(c.columns)
<1>1. CASE c = NoClaim
  BY <1>1 DEF Unsorted
<1>2. CASE c # NoClaim
  <2>0. <<>> \in Seq(SortKey) /\ FALSE \in BOOLEAN
    OBVIOUS
  <2>1. /\ Unsorted(c) \in Claim
        /\ Unsorted(c).columns = c.columns
        /\ Unsorted(c).sortedBy = <<>>
        /\ Unsorted(c).sortEnforced = FALSE
    BY <2>0, <1>2 DEF Unsorted, Claim
  <2>2. IsSortedByPrefix(Unsorted(c).sortedBy, c.sortedBy)
    BY <2>1, SeqIsFunction DEF IsSortedByPrefix, Claim
  <2>3. Sound(f, S, Unsorted(c), stale, mixed)
    BY <2>1, <2>2, WeakerIsSound
  <2> QED BY <2>1, <2>3 DEF Names, KeysOf
<1> QED BY <1>1, <1>2

\* Taking rows in any order, with repetitions, keeps equal keys together.
LEMMA TakeColocated ==
  ASSUME NEW S, NEW f \in Seq(Row(S)), NEW c, Colocated(f, c),
         NEW n \in Nat, NEW p \in [1..n -> 1..Len(f)]
  PROVE  Colocated(Take(f, p), c)
<1>1. /\ DOMAIN Take(f, p) = 1..n
      /\ \A i \in 1..n : Take(f, p)[i] = f[p[i]]
      /\ \A i \in 1..n : p[i] \in DOMAIN f
  BY TakeRows
<1> QED BY <1>1 DEF Colocated

\* Taking rows in stream order keeps the rows of a partition sorted.
LEMMA TakeIsSorted ==
  ASSUME NEW S, NEW f \in Seq(Row(S)), NEW keys \in Seq(SortKey), SortedWithin(f, keys),
         \A q \in DOMAIN keys : keys[q].column \in S,
         NEW n \in Nat, NEW p \in [1..n -> 1..Len(f)],
         \A i, j \in 1..n : i < j => p[i] <= p[j]
  PROVE  SortedWithin(Take(f, p), keys)
<1>1. /\ DOMAIN Take(f, p) = 1..n
      /\ \A i \in 1..n : Take(f, p)[i] = f[p[i]]
      /\ \A i \in 1..n : p[i] \in DOMAIN f
  BY TakeRows
<1>2. DOMAIN f = 1..Len(f) /\ Len(f) \in Nat
  BY SeqIsFunction
<1> SUFFICES ASSUME NEW i \in 1..n, NEW j \in 1..n,
                    i < j, f[p[i]].partition = f[p[j]].partition
             PROVE  InOrder(f[p[i]], f[p[j]], keys)
  BY <1>1 DEF SortedWithin
<1>3. p[i] <= p[j] /\ p[i] \in DOMAIN f /\ p[j] \in DOMAIN f
  BY <1>1
<1>4. CASE p[i] < p[j]
  BY <1>3, <1>4 DEF SortedWithin
<1>5. CASE p[i] = p[j]
  <2>1. f[p[i]] \in Row(S)
    BY <1>3, SeqIsFunction
  <2> QED BY <1>5, <2>1, InOrderReflexive
<1> QED BY <1>2, <1>3, <1>4, <1>5

\* Taking rows in stream order keeps a claim true.
LEMMA TakeIsSound ==
  ASSUME NEW S, NEW f \in Seq(Row(S)), NEW c \in Claim, NEW stale, NEW mixed, Sound(f, S, c, stale, mixed),
         NEW n \in Nat, NEW p \in [1..n -> 1..Len(f)],
         \A i, j \in 1..n : i < j => p[i] <= p[j]
  PROVE  Sound(Take(f, p), S, c, stale, mixed)
<1> DEFINE g == Take(f, p)
<1>1. /\ DOMAIN g = 1..n
      /\ \A i \in 1..n : g[i] = f[p[i]]
      /\ \A i \in 1..n : p[i] \in DOMAIN f
  BY TakeRows
<1> HIDE DEF g
<1>2. DOMAIN f = 1..Len(f) /\ Len(f) \in Nat
  BY SeqIsFunction
<1>3. (\A m \in DOMAIN c.columns : c.columns[m] \notin stale) => Colocated(g, c)
  BY TakeColocated DEF Sound, g
<1>4. ASSUME c.sortEnforced, ~mixed
      PROVE  /\ Contiguous(g)
             /\ \A m \in FreshLengths(c.sortedBy, stale) : SortedWithin(g, Prefix(c.sortedBy, m))
  <2>1. /\ Contiguous(f)
        /\ \A m \in FreshLengths(c.sortedBy, stale) : SortedWithin(f, Prefix(c.sortedBy, m))
    BY <1>4 DEF Sound
  <2>2. Contiguous(g)
    <3> SUFFICES ASSUME NEW i \in DOMAIN g, NEW k \in DOMAIN g, NEW j \in DOMAIN g,
                        i < k, k < j, g[i].partition = g[j].partition
                 PROVE  g[k].partition = g[i].partition
      BY DEF Contiguous
    <3>0. g[i] = f[p[i]] /\ g[k] = f[p[k]] /\ g[j] = f[p[j]]
      BY <1>1
    <3>1. p[i] <= p[k] /\ p[k] <= p[j] /\ p[i] \in DOMAIN f /\ p[k] \in DOMAIN f /\ p[j] \in DOMAIN f
      BY <1>1
    <3>2. CASE p[i] = p[k] \/ p[k] = p[j]
      BY <3>0, <3>2
    <3>3. CASE p[i] < p[k] /\ p[k] < p[j]
      BY <3>0, <3>1, <3>3, <2>1 DEF Contiguous
    <3> QED BY <3>1, <3>2, <3>3, <1>2
  <2>3. ASSUME NEW m \in FreshLengths(c.sortedBy, stale)
        PROVE  SortedWithin(g, Prefix(c.sortedBy, m))
    <3>1. c.sortedBy \in Seq(SortKey) /\ \A q \in DOMAIN c.sortedBy : c.sortedBy[q].column \in S
      BY DEF Sound, Claim, Names, KeysOf
    <3>2. /\ Prefix(c.sortedBy, m) \in Seq(SortKey)
          /\ \A q \in DOMAIN Prefix(c.sortedBy, m) : Prefix(c.sortedBy, m)[q].column \in S
      BY <3>1, FreshPrefix
    <3> QED BY <2>1, <3>2, TakeIsSorted DEF g
  <2> QED BY <2>2, <2>3
<1> QED BY <1>3, <1>4 DEF Sound, g

\* A claim speaks of the partitions and of the cells it names only, and of no
\* cell that is stale.
LEMMA SameNamedCellsIsSound ==
  ASSUME NEW f, NEW S, NEW g, NEW T, NEW c \in Claim, NEW stale, NEW more, NEW mixed,
         Sound(f, S, c, stale, mixed), stale \subseteq more,
         Names(c) \subseteq T,
         DOMAIN g = DOMAIN f,
         \A i \in DOMAIN f : g[i].partition = f[i].partition
                             /\ \A d \in Names(c) \ more : g[i].cell[d] = f[i].cell[d]
  PROVE  Sound(g, T, c, more, mixed)
<1>1. ASSUME \A n \in DOMAIN c.columns : c.columns[n] \notin more
      PROVE  Colocated(g, c)
  <2>1. \A i, j \in DOMAIN f : SameCells(g[i], g[j], c.columns) <=> SameCells(f[i], f[j], c.columns)
    BY <1>1 DEF SameCells, Names, ColumnsOf
  <2>2. Colocated(f, c)
    BY <1>1 DEF Sound
  <2> QED BY <2>1, <2>2 DEF Colocated
<1>2. ASSUME NEW n \in FreshLengths(c.sortedBy, more), SortedWithin(f, Prefix(c.sortedBy, n))
      PROVE  SortedWithin(g, Prefix(c.sortedBy, n))
  <2> DEFINE keys == Prefix(c.sortedBy, n)
  <2>1. /\ DOMAIN keys = 1..n /\ n \in Nat
        /\ \A q \in 1..n : keys[q].column \in Names(c) \ more
    <3>1. c.sortedBy \in Seq(SortKey)
      BY DEF Claim
    <3> QED BY <3>1, FreshPrefix DEF Names, KeysOf
  <2> HIDE DEF keys
  <2> SUFFICES ASSUME NEW i \in DOMAIN f, NEW j \in DOMAIN f, InOrder(f[i], f[j], keys)
               PROVE  InOrder(g[i], g[j], keys)
    BY <1>2 DEF SortedWithin, keys
  <2>2. \A q \in DOMAIN keys :
          /\ g[i].cell[keys[q].column] = f[i].cell[keys[q].column]
          /\ g[j].cell[keys[q].column] = f[j].cell[keys[q].column]
    BY <2>1
  <2>3. \A p \in DOMAIN keys : \A q \in 1..(p - 1) : q \in DOMAIN keys
    BY <2>1
  <2> QED BY <2>2, <2>3 DEF InOrder
<1>3. FreshLengths(c.sortedBy, more) \subseteq FreshLengths(c.sortedBy, stale)
  BY DEF FreshLengths
<1>4. ASSUME c.sortEnforced, ~mixed
      PROVE  /\ Contiguous(g)
             /\ \A n \in FreshLengths(c.sortedBy, more) : SortedWithin(g, Prefix(c.sortedBy, n))
  <2>1. Contiguous(f) /\ \A n \in FreshLengths(c.sortedBy, stale) : SortedWithin(f, Prefix(c.sortedBy, n))
    BY <1>4 DEF Sound
  <2>2. Contiguous(g)
    BY <2>1 DEF Contiguous
  <2> QED BY <1>2, <1>3, <2>1, <2>2
<1> QED BY <1>1, <1>4 DEF Sound

\* A projection keeps a claim true of the rows it is computed from.
LEMMA ProjectedIsSound ==
  ASSUME NEW f, NEW S, NEW T, NEW c \in Claim, c # NoClaim,
         NEW stale, NEW mixed \in BOOLEAN, Sound(f, S, c, stale, mixed),
         NEW n \in KeptLengths(c.sortedBy, T),
         PropagateProjection(c, T, n) # NoClaim
  PROVE  /\ PropagateProjection(c, T, n) \in Claim
         /\ Sound(f, S, PropagateProjection(c, T, n), stale, mixed)
         /\ Names(PropagateProjection(c, T, n)) \subseteq T
<1> DEFINE d == PropagateProjection(c, T, n)
<1>1. c.columns \in Seq(ColumnNames) /\ c.sortedBy \in Seq(SortKey) /\ c.sortEnforced \in BOOLEAN
  BY DEF Claim
<1>2. n \in 0..Len(c.sortedBy) /\ \A i \in 1..n : c.sortedBy[i].column \in T
  BY DEF KeptLengths
<1>3. \A i \in DOMAIN c.columns : c.columns[i] \in T
  BY DEF PropagateProjection
<1>4. d = [c EXCEPT !.sortedBy = Prefix(@, n), !.sortEnforced = @ /\ n > 0]
  BY <1>3 DEF PropagateProjection
<1>5. /\ Prefix(c.sortedBy, n) \in Seq(SortKey)
      /\ DOMAIN Prefix(c.sortedBy, n) = 1..n
      /\ Len(Prefix(c.sortedBy, n)) = n
      /\ \A i \in 1..n : Prefix(c.sortedBy, n)[i] = c.sortedBy[i]
  BY <1>1, <1>2, PrefixIsSeq
<1> HIDE DEF d
<1>6. (c.sortEnforced /\ n > 0) \in BOOLEAN
  OBVIOUS
<1>7. d.columns = c.columns /\ d.sortedBy = Prefix(c.sortedBy, n) /\ d.sortEnforced = (c.sortEnforced /\ n > 0)
  BY <1>4 DEF Claim
<1>8. d \in Claim
  BY <1>4, <1>5, <1>6 DEF Claim
<1>9. IsSortedByPrefix(d.sortedBy, c.sortedBy)
  BY <1>2, <1>5, <1>7, <1>1, SeqIsFunction DEF IsSortedByPrefix
<1>a. /\ d.sortEnforced => c.sortEnforced
      /\ stale \cap Promised(d, mixed) \subseteq stale
      /\ d.sortEnforced /\ mixed => mixed
  BY <1>1, <1>7
<1>10. Sound(f, S, d, stale, mixed)
  BY <1>7, <1>8, <1>9, <1>a, WeakerIsSound
<1>11. \A m \in DOMAIN d.sortedBy : /\ m \in DOMAIN c.sortedBy
                                   /\ d.sortedBy[m] = c.sortedBy[m]
                                   /\ d.sortedBy[m].column \in T
  BY <1>1, <1>2, <1>5, <1>7, SeqIsFunction
<1>12. Names(d) \subseteq T
  BY <1>3, <1>7, <1>11 DEF Names, ColumnsOf, KeysOf
<1> QED BY <1>8, <1>10, <1>12 DEF d

LEMMA LimitedIsSound ==
  ASSUME NEW f, NEW S, NEW c \in Claim, c # NoClaim,
         NEW stale, NEW mixed \in BOOLEAN, Sound(f, S, c, stale, mixed)
  PROVE  /\ PropagateLimit(c) \in Claim \cup {NoClaim}
         /\ PropagateLimit(c) # NoClaim => Sound(f, S, PropagateLimit(c), stale, mixed)
<1>1. PropagateLimit(c) = c \/ PropagateLimit(c) = Unsorted(c)
  BY DEF PropagateLimit, Unsorted
<1> QED BY <1>1, UnsortedIsSound

\* What the history forgets, the claim does not promise.
LEMMA HistoryIsSound ==
  ASSUME NEW f, NEW S, NEW cs \in SUBSET ColumnNames, TypeOK, claim' \in Claim \cup {NoClaim}, History(cs),
         claim' # NoClaim => claim # NoClaim /\ Sound(f, S, claim', recomputed \cup cs, interleaved)
  PROVE  /\ recomputed' \in SUBSET ColumnNames
         /\ interleaved' \in BOOLEAN
         /\ claim' # NoClaim => Sound(f, S, claim', recomputed', interleaved')
<1> DEFINE kept == claim # NoClaim /\ claim' # NoClaim
<1>1. /\ interleaved' = (interleaved /\ kept /\ claim'.sortEnforced)
      /\ recomputed' = IF kept THEN (recomputed \cup cs) \cap Promised(claim', interleaved) ELSE {}
  BY DEF History
<1>2. recomputed \in SUBSET ColumnNames /\ interleaved \in BOOLEAN
  BY DEF TypeOK
<1>3. interleaved' \in BOOLEAN /\ recomputed' \in SUBSET ColumnNames
  BY <1>1, <1>2
<1>4. ASSUME claim' # NoClaim
      PROVE  Sound(f, S, claim', recomputed', interleaved')
  <2>1. kept /\ claim' \in Claim /\ Sound(f, S, claim', recomputed \cup cs, interleaved)
    BY <1>4
  <2>2. claim'.sortEnforced \in BOOLEAN /\ claim'.sortedBy \in Seq(SortKey)
    BY <2>1 DEF Claim
  <2> DEFINE c == claim'
  <2>3. Promised(c, interleaved') = Promised(c, interleaved)
    BY <1>1, <1>2, <2>1, <2>2 DEF Promised
  <2>4. (recomputed \cup cs) \cap Promised(c, interleaved') \subseteq recomputed'
    BY <1>1, <2>1, <2>3
  <2>5. IsSortedByPrefix(c.sortedBy, c.sortedBy)
    BY <2>2, SeqIsFunction DEF IsSortedByPrefix
  <2>6. c.sortEnforced /\ interleaved => interleaved'
    BY <1>1, <2>1
  <2> HIDE DEF c
  <2>7. c \in Claim /\ Sound(f, S, c, recomputed \cup cs, interleaved)
    BY <2>1 DEF c
  <2>8. Sound(f, S, c, recomputed', interleaved')
    BY <1>2, <1>3, <2>4, <2>5, <2>6, <2>7, WeakerIsSound
  <2> QED BY <2>8 DEF c
<1> QED BY <1>3, <1>4

-----------------------------------------------------------------------------
(* The invariant. *)

IInv == TypeOK /\ ClaimSound

LEMMA SeqMonotone ==
  ASSUME NEW S, NEW T, S \subseteq T, NEW s \in Seq(S)
  PROVE  s \in Seq(T)
OBVIOUS

LEMMA SeqElements ==
  ASSUME NEW S, NEW s \in Seq(S)
  PROVE  \A q \in DOMAIN s : s[q] \in S
OBVIOUS

LEMMA ListIsSeq ==
  ASSUME NEW S, NEW n \in Nat, NEW s \in Lists(S, n)
  PROVE  s \in Seq(S)
<1>1. PICK k \in 0..n : s \in [1..k -> S]
  BY DEF Lists
<1> QED BY <1>1, FunctionIsSeq

LEMMA SortListFacts ==
  ASSUME NEW S \in SUBSET ColumnNames, NEW directions \in SUBSET BOOLEAN, NEW keys \in SortLists(S, directions)
  PROVE  /\ keys \in Seq(SortKey)
         /\ keys \in Seq([column : S, descending : BOOLEAN])
         /\ KeysOf(keys) \subseteq S
<1> DEFINE K == [column : S, descending : directions]
<1>1. keys \in Seq(K)
  BY ListIsSeq DEF SortLists
<1>2. K \subseteq SortKey
  BY DEF SortKey
<1>3. K \subseteq [column : S, descending : BOOLEAN]
  OBVIOUS
<1>4. \A k \in K : k.column \in S
  OBVIOUS
<1> HIDE DEF K
<1>5. \A q \in DOMAIN keys : keys[q].column \in S
  BY <1>1, <1>4, SeqElements
<1> QED BY <1>1, <1>2, <1>3, <1>5, SeqMonotone DEF KeysOf

LEMMA ClaimsAreClaims ==
  ASSUME NEW S \in SUBSET ColumnNames, NEW c \in Claims(S)
  PROVE  c \in Claim
<1>1. c.columns \in Seq(S)
  BY ListIsSeq DEF Claims
<1>2. c.sortedBy \in Seq(SortKey)
  BY SortListFacts, BoundsAssumption DEF Claims
<1>3. c.columns \in Seq(ColumnNames)
  BY <1>1
<1> QED BY <1>2, <1>3 DEF Claims, Claim

LEMMA InitIsSound == Init => IInv
<1> SUFFICES ASSUME Init PROVE IInv
  OBVIOUS
<1>1. schema \in SUBSET ColumnNames
  BY DEF Init, Schemas
<1>2. frame \in Seq(Row(schema))
  <2>1. PICK n \in 0..MaxRows : frame \in [1..n -> Row(schema)]
    BY DEF Init, Frames
  <2>2. n \in Nat
    BY BoundsAssumption
  <2> QED BY <2>1, <2>2, FunctionIsSeq
<1>3. claim \in Claim \cup {NoClaim}
  BY <1>1, ClaimsAreClaims DEF Init
<1>4. ClaimSound
  BY DEF Init, ClaimSound
<1> QED BY <1>1, <1>2, <1>3, <1>4 DEF IInv, TypeOK, Init

\* What a step has to show that keeps a history.
LEMMA StepIsSound ==
  ASSUME IInv, NEW cs \in SUBSET ColumnNames, History(cs),
         schema' \in SUBSET ColumnNames, frame' \in Seq(Row(schema')), scanned' = scanned,
         claim' # NoClaim => /\ claim # NoClaim /\ claim' \in Claim
                             /\ Sound(frame', schema', claim', recomputed \cup cs, interleaved)
  PROVE  IInv'
<1> DEFINE f == frame'
           S == schema'
<1>1. TypeOK /\ claim' \in Claim \cup {NoClaim}
  BY DEF IInv
<1>2. claim' # NoClaim => claim # NoClaim /\ Sound(f, S, claim', recomputed \cup cs, interleaved)
  OBVIOUS
<1> HIDE DEF f, S
<1>3. /\ recomputed' \in SUBSET ColumnNames
      /\ interleaved' \in BOOLEAN
      /\ claim' # NoClaim => Sound(f, S, claim', recomputed', interleaved')
  BY <1>1, <1>2, HistoryIsSound
<1>4. ClaimSound'
  BY <1>3 DEF ClaimSound, f, S
<1>5. TypeOK'
  BY <1>1, <1>3 DEF TypeOK
<1> QED BY <1>4, <1>5 DEF IInv

-----------------------------------------------------------------------------
(* One lemma per operator. *)

LEMMA ScanStep ==
  ASSUME IInv, Scan
  PROVE  IInv'
<1>1. UNCHANGED <<schema, claim, recomputed>> /\ scanned' = TRUE
  BY DEF Scan
<1>2. CASE UNCHANGED <<frame, interleaved>>
  BY <1>1, <1>2 DEF IInv, TypeOK, ClaimSound
<1>3. CASE ~UNCHANGED <<frame, interleaved>>
  <2>1. /\ interleaved' = (claim # NoClaim /\ claim.sortEnforced)
        /\ \E half \in 0..Len(frame), p \in [1..Len(frame) -> 1..Len(frame)] : frame' = Take(frame, p)
    BY <1>3 DEF Scan
  <2>2. PICK p \in [1..Len(frame) -> 1..Len(frame)] : frame' = Take(frame, p)
    BY <2>1
  <2>3. frame \in Seq(Row(schema)) /\ Len(frame) \in Nat
    BY SeqIsFunction DEF IInv, TypeOK
  <2>4. Take(frame, p) \in Seq(Row(schema))
    BY <2>3, TakeIsSeq
  <2>5. interleaved' \in BOOLEAN
    BY <2>1 DEF IInv, TypeOK, Claim
  <2>6. ASSUME claim # NoClaim
        PROVE  Sound(Take(frame, p), schema, claim, recomputed, interleaved')
    <3>1. claim \in Claim /\ Sound(frame, schema, claim, recomputed, interleaved)
      BY <2>6 DEF IInv, TypeOK, ClaimSound
    <3>2. Colocated(frame, claim) => Colocated(Take(frame, p), claim)
      BY <2>3, TakeColocated
    <3> QED BY <2>1, <2>6, <3>1, <3>2 DEF Sound
  <2>7. ClaimSound'
    BY <1>1, <2>2, <2>6 DEF ClaimSound
  <2>8. TypeOK'
    BY <1>1, <2>2, <2>4, <2>5 DEF IInv, TypeOK
  <2> QED BY <2>7, <2>8 DEF IInv
<1> QED BY <1>2, <1>3

LEMMA FilterStep ==
  ASSUME IInv, Filter
  PROVE  IInv'
<1>0. PICK n \in 0..Len(frame) : \E p \in StrictMaps(n, Len(frame)) : frame' = Take(frame, p)
  BY DEF Filter
<1>1. PICK p \in StrictMaps(n, Len(frame)) : frame' = Take(frame, p)
  BY <1>0
<1>2. n \in Nat /\ p \in [1..n -> 1..Len(frame)] /\ \A i, j \in 1..n : i < j => p[i] <= p[j]
  BY SeqIsFunction DEF IInv, TypeOK, StrictMaps
<1>3. frame' \in Seq(Row(schema))
  BY <1>1, <1>2, TakeIsSeq DEF IInv, TypeOK
<1>4. claim # NoClaim => Sound(frame', schema, claim, recomputed, interleaved)
  BY <1>1, <1>2, TakeIsSound DEF IInv, TypeOK, ClaimSound
<1> QED BY <1>3, <1>4 DEF IInv, TypeOK, ClaimSound, Filter

LEMMA ProjectStep ==
  ASSUME IInv, Project
  PROVE  IInv'
<1>1. PICK S \in Schemas, computed \in {{}} \cup {{c} : c \in ColumnNames} :
        /\ computed \subseteq S /\ S \ computed \subseteq schema
        /\ schema' = S
        /\ \E n \in IF claim = NoClaim THEN {0} ELSE KeptLengths(claim.sortedBy, S) :
             claim' = PropagateProjection(claim, S, n)
        /\ History(computed)
        /\ \E v \in [computed -> [DOMAIN frame -> Values]] :
             frame' = [i \in DOMAIN frame |->
               [frame[i] EXCEPT !.cell = [d \in S |-> IF d \in computed THEN v[d][i] ELSE frame[i].cell[d]]]]
  BY DEF Project
<1>2. PICK v \in [computed -> [DOMAIN frame -> Values]] :
        frame' = [i \in DOMAIN frame |->
          [frame[i] EXCEPT !.cell = [d \in S |-> IF d \in computed THEN v[d][i] ELSE frame[i].cell[d]]]]
  BY <1>1
<1>3. /\ frame \in Seq(Row(schema))
      /\ DOMAIN frame = 1..Len(frame) /\ Len(frame) \in Nat
      /\ \A i \in DOMAIN frame : frame[i] \in Row(schema)
  BY SeqIsFunction DEF IInv, TypeOK
<1>4. \A i \in DOMAIN frame : /\ frame'[i] \in Row(S)
                              /\ frame'[i].partition = frame[i].partition
                              /\ \A d \in S \ computed : frame'[i].cell[d] = frame[i].cell[d]
  <2> SUFFICES ASSUME NEW i \in DOMAIN frame
               PROVE  /\ frame'[i] \in Row(S)
                      /\ frame'[i].partition = frame[i].partition
                      /\ \A d \in S \ computed : frame'[i].cell[d] = frame[i].cell[d]
    OBVIOUS
  <2> DEFINE cells == [d \in S |-> IF d \in computed THEN v[d][i] ELSE frame[i].cell[d]]
  <2>1. frame[i].cell \in [schema -> Values] /\ frame[i].partition \in Partitions
    BY <1>3 DEF Row
  <2>2. \A d \in computed : v[d][i] \in Values
    OBVIOUS
  <2>3. cells \in [S -> Values] /\ \A d \in S \ computed : cells[d] = frame[i].cell[d]
    BY <1>1, <2>1, <2>2
  <2>4. frame'[i] = [frame[i] EXCEPT !.cell = cells] /\ frame[i] \in Row(schema)
    BY <1>2, <1>3
  <2> HIDE DEF cells
  <2> QED BY <2>1, <2>3, <2>4 DEF Row
<1>5. DOMAIN frame' = DOMAIN frame
  BY <1>2
<1>6. frame' \in Seq(Row(S))
  <2>1. frame' \in [1..Len(frame) -> Row(S)]
    BY <1>2, <1>3, <1>4
  <2> QED BY <2>1, <1>3, FunctionIsSeq
<1>7. ASSUME claim' # NoClaim
      PROVE  claim # NoClaim /\ claim' \in Claim /\ Sound(frame', S, claim', recomputed \cup computed, interleaved)
  <2>1. /\ claim # NoClaim /\ claim \in Claim /\ interleaved \in BOOLEAN
        /\ Sound(frame, schema, claim, recomputed, interleaved)
    BY <1>1, <1>7 DEF PropagateProjection, IInv, TypeOK, ClaimSound
  <2>2. PICK n \in KeptLengths(claim.sortedBy, S) : claim' = PropagateProjection(claim, S, n)
    BY <1>1, <2>1
  <2>3. /\ claim' \in Claim
        /\ Sound(frame, schema, claim', recomputed, interleaved)
        /\ Names(claim') \subseteq S
    BY <1>7, <2>1, <2>2, ProjectedIsSound
  <2> DEFINE more == recomputed \cup computed
  <2>4. \A i \in DOMAIN frame : \A d \in Names(claim') \ more : frame'[i].cell[d] = frame[i].cell[d]
    BY <1>4, <2>3
  <2>5. recomputed \subseteq more
    OBVIOUS
  <2> HIDE DEF more
  <2>6. Sound(frame', S, claim', more, interleaved)
    BY <1>4, <1>5, <2>3, <2>4, <2>5, SameNamedCellsIsSound
  <2> QED BY <2>1, <2>3, <2>6 DEF more
<1>8. S \in SUBSET ColumnNames /\ computed \in SUBSET ColumnNames
  BY DEF Schemas
<1>9. scanned' = scanned
  BY DEF Project
<1>10. schema' \in SUBSET ColumnNames /\ frame' \in Seq(Row(schema'))
  BY <1>1, <1>6, <1>8
<1>11. claim' # NoClaim => /\ claim # NoClaim /\ claim' \in Claim
                           /\ Sound(frame', schema', claim', recomputed \cup computed, interleaved)
  BY <1>1, <1>7
<1>12. History(computed)
  BY <1>1
<1> QED BY <1>8, <1>9, <1>10, <1>11, <1>12, StepIsSound

\* g is the frame f of columns S after a write to column c.
Overwrites(g, f, S, c) ==
  /\ g \in Seq(Row(S \cup {c}))
  /\ DOMAIN g = DOMAIN f
  /\ \A i \in DOMAIN f : /\ g[i].partition = f[i].partition
                         /\ \A d \in S \ {c} : g[i].cell[d] = f[i].cell[d]

HasCells(v, f) == \A i \in DOMAIN f : v[i] \in Values

LEMMA WithCellsIsFrame ==
  ASSUME NEW S, NEW f, f \in Seq(Row(S)), NEW c, NEW v, HasCells(v, f)
  PROVE  Overwrites(WithCells(f, S, c, v), f, S, c)
<1> DEFINE g == WithCells(f, S, c, v)
<1>1. /\ DOMAIN f = 1..Len(f) /\ Len(f) \in Nat
      /\ \A i \in DOMAIN f : f[i] \in Row(S)
  BY SeqIsFunction
<1>2. \A i \in DOMAIN f : /\ g[i] \in Row(S \cup {c})
                          /\ g[i].partition = f[i].partition
                          /\ \A d \in S \ {c} : g[i].cell[d] = f[i].cell[d]
  BY <1>1 DEF WithCells, Row, HasCells
<1>3. g \in [1..Len(f) -> Row(S \cup {c})]
  BY <1>1, <1>2 DEF WithCells
<1> HIDE DEF g
<1>4. g \in Seq(Row(S \cup {c})) /\ DOMAIN g = DOMAIN f
  BY <1>1, <1>3, FunctionIsSeq
<1> QED BY <1>2, <1>4 DEF g, Overwrites

\* g is the frame f restricted to the columns T.
Restricts(g, f, T) ==
  /\ g \in Seq(Row(T))
  /\ DOMAIN g = DOMAIN f
  /\ \A i \in DOMAIN f : /\ g[i].partition = f[i].partition
                         /\ \A d \in T : g[i].cell[d] = f[i].cell[d]

LEMMA RestrictedIsFrame ==
  ASSUME NEW S, NEW f, f \in Seq(Row(S)), NEW T \in SUBSET S
  PROVE  Restricts(Restricted(f, T), f, T)
<1> DEFINE g == Restricted(f, T)
<1>1. /\ DOMAIN f = 1..Len(f) /\ Len(f) \in Nat
      /\ \A i \in DOMAIN f : f[i] \in Row(S)
  BY SeqIsFunction
<1>2. \A i \in DOMAIN f : /\ g[i] \in Row(T)
                          /\ g[i].partition = f[i].partition
                          /\ \A d \in T : g[i].cell[d] = f[i].cell[d]
  BY <1>1 DEF Restricted, Row
<1>3. g \in [1..Len(f) -> Row(T)]
  BY <1>1, <1>2 DEF Restricted
<1> HIDE DEF g
<1>4. g \in Seq(Row(T)) /\ DOMAIN g = DOMAIN f
  BY <1>1, <1>3, FunctionIsSeq
<1> QED BY <1>2, <1>4 DEF g, Restricts

LEMMA WithColumnStep ==
  ASSUME IInv, WithColumn
  PROVE  IInv'
<1>1. PICK c \in ColumnNames :
        /\ schema' = schema \cup {c}
        /\ claim' = claim
        /\ History({c})
        /\ \E v \in [DOMAIN frame -> Values] : frame' = WithCells(frame, schema, c, v)
  BY DEF WithColumn
<1>2. PICK v \in [DOMAIN frame -> Values] : frame' = WithCells(frame, schema, c, v)
  BY <1>1
<1>3. frame \in Seq(Row(schema)) /\ scanned' = scanned
  BY DEF IInv, TypeOK, WithColumn
<1>4. /\ frame' \in Seq(Row(schema'))
      /\ DOMAIN frame' = DOMAIN frame
      /\ \A i \in DOMAIN frame : /\ frame'[i].partition = frame[i].partition
                                 /\ \A d \in schema \ {c} : frame'[i].cell[d] = frame[i].cell[d]
  <2>0. HasCells(v, frame)
    BY DEF HasCells
  <2>1. Overwrites(WithCells(frame, schema, c, v), frame, schema, c)
    BY <1>3, <2>0, WithCellsIsFrame
  <2> QED BY <1>1, <1>2, <2>1 DEF Overwrites
<1> DEFINE more == recomputed \cup {c}
<1>5. ASSUME claim # NoClaim
      PROVE  claim \in Claim /\ Sound(frame', schema', claim, more, interleaved)
  <2>1. /\ claim \in Claim /\ Names(claim) \subseteq schema
        /\ Sound(frame, schema, claim, recomputed, interleaved)
    BY <1>5 DEF IInv, TypeOK, ClaimSound, Sound
  <2>2. Names(claim) \subseteq schema' /\ recomputed \subseteq more
    BY <1>1, <2>1
  <2>3. \A i \in DOMAIN frame : \A d \in Names(claim) \ more : frame'[i].cell[d] = frame[i].cell[d]
    BY <1>4, <2>1
  <2> HIDE DEF more
  <2> QED BY <1>4, <2>1, <2>2, <2>3, SameNamedCellsIsSound
<1>6. schema' \in SUBSET ColumnNames /\ {c} \in SUBSET ColumnNames
  BY <1>1 DEF IInv, TypeOK
<1>7. claim' # NoClaim => /\ claim # NoClaim /\ claim' \in Claim
                          /\ Sound(frame', schema', claim', recomputed \cup {c}, interleaved)
  BY <1>1, <1>5
<1>8. History({c})
  BY <1>1
<1> QED BY <1>3, <1>4, <1>6, <1>7, <1>8, StepIsSound

\* The step of an operator that computes no column.
LEMMA PlainStepIsSound ==
  ASSUME IInv, History({}),
         schema' \in SUBSET ColumnNames, frame' \in Seq(Row(schema')), scanned' = scanned,
         claim' # NoClaim => /\ claim # NoClaim /\ claim' \in Claim
                             /\ Sound(frame', schema', claim', recomputed, interleaved)
  PROVE  IInv'
<1>1. {} \in SUBSET ColumnNames /\ recomputed \cup {} = recomputed
  OBVIOUS
<1> QED BY <1>1, StepIsSound

\* Limit and Tail: a run of neighbouring rows.
LEMMA RunStep ==
  ASSUME IInv, NEW a \in Nat, NEW n \in Nat, a + n <= Len(frame),
         frame' = Take(frame, [i \in 1..n |-> a + i]),
         schema' = schema, claim' = PropagateLimit(claim), scanned' = scanned, History({})
  PROVE  IInv'
<1> DEFINE p == [i \in 1..n |-> a + i]
<1>1. frame \in Seq(Row(schema)) /\ Len(frame) \in Nat
  BY SeqIsFunction DEF IInv, TypeOK
<1>2. p \in [1..n -> 1..Len(frame)] /\ \A i, j \in 1..n : i < j => p[i] <= p[j]
  BY <1>1
<1> HIDE DEF p
<1>3. frame' = Take(frame, p)
  BY DEF p
<1>4. frame' \in Seq(Row(schema))
  BY <1>1, <1>2, <1>3, TakeIsSeq
<1>5. ASSUME claim' # NoClaim
      PROVE  claim # NoClaim /\ claim' \in Claim /\ Sound(frame', schema, claim', recomputed, interleaved)
  <2>1. /\ claim # NoClaim /\ claim \in Claim /\ interleaved \in BOOLEAN
        /\ Sound(frame, schema, claim, recomputed, interleaved)
    BY <1>5 DEF PropagateLimit, IInv, TypeOK, ClaimSound
  <2>2. Sound(frame', schema, claim, recomputed, interleaved)
    BY <1>1, <1>2, <1>3, <2>1, TakeIsSound
  <2> QED BY <1>5, <2>1, <2>2, LimitedIsSound
<1>6. schema' \in SUBSET ColumnNames /\ frame' \in Seq(Row(schema'))
  BY <1>4 DEF IInv, TypeOK
<1> QED BY <1>5, <1>6, PlainStepIsSound

LEMMA FirstRowsStep ==
  ASSUME IInv, FirstRows
  PROVE  IInv'
<1>1. PICK n \in 0..Len(frame) : frame' = SubSeq(frame, 1, n)
  BY DEF FirstRows
<1>2. frame \in Seq(Row(schema)) /\ Len(frame) \in Nat /\ n \in Nat /\ 0 + n <= Len(frame)
  BY SeqIsFunction DEF IInv, TypeOK
<1>3. SubSeq(frame, 1, n) = Take(frame, [i \in 1..n |-> 0 + i])
  BY <1>2 DEF Take
<1> QED BY <1>1, <1>2, <1>3, RunStep DEF FirstRows

LEMMA LastRowsStep ==
  ASSUME IInv, LastRows
  PROVE  IInv'
<1>1. PICK n \in 0..Len(frame) : frame' = SubSeq(frame, Len(frame) - n + 1, Len(frame))
  BY DEF LastRows
<1> DEFINE a == Len(frame) - n
<1>2. frame \in Seq(Row(schema)) /\ Len(frame) \in Nat /\ n \in Nat /\ a \in Nat /\ a + n <= Len(frame)
  BY SeqIsFunction DEF IInv, TypeOK
<1>3. SubSeq(frame, Len(frame) - n + 1, Len(frame)) = Take(frame, [i \in 1..n |-> a + i])
  BY <1>2 DEF Take
<1> QED BY <1>1, <1>2, <1>3, RunStep DEF LastRows

\* Rows taken in any order: what is left of the claim without its sort keys.
LEMMA UnsortedTake ==
  ASSUME NEW S, NEW f \in Seq(Row(S)), NEW c \in Claim, NEW stale, NEW mixed \in BOOLEAN,
         Sound(f, S, c, stale, mixed), Unsorted(c) # NoClaim,
         NEW n \in Nat, NEW p \in [1..n -> 1..Len(f)]
  PROVE  /\ Unsorted(c) \in Claim
         /\ Sound(Take(f, p), S, Unsorted(c), stale, mixed)
         /\ Names(Unsorted(c)) = ColumnsOf(c.columns)
<1>1. /\ Unsorted(c) \in Claim
      /\ Sound(f, S, Unsorted(c), stale, mixed)
      /\ Names(Unsorted(c)) = ColumnsOf(c.columns)
  BY UnsortedIsSound
<1>2. Unsorted(c).sortEnforced = FALSE
  BY DEF Unsorted, Claim
<1>3. Colocated(f, Unsorted(c)) => Colocated(Take(f, p), Unsorted(c))
  BY <1>1, TakeColocated
<1> QED BY <1>1, <1>2, <1>3 DEF Sound

LEMMA JoinStep ==
  ASSUME IInv, Join
  PROVE  IInv'
<1>0. PICK leftDriven \in BOOLEAN, n \in 0..MaxRows : \E p \in [1..n -> 1..Len(frame)] :
        /\ leftDriven => p \in Maps(n, Len(frame))
        /\ claim' = IF leftDriven THEN Unsorted(claim) ELSE NoClaim
        /\ \/ frame' = Take(frame, p) /\ schema' = schema
           \/ \E c \in ColumnNames \ schema, v \in [1..n -> Values] :
                /\ schema \cup {c} \in Schemas
                /\ schema' = schema \cup {c}
                /\ frame' = WithCells(Take(frame, p), schema, c, v)
  BY Zenon DEF Join
<1>1. PICK p \in [1..n -> 1..Len(frame)] :
        /\ leftDriven => p \in Maps(n, Len(frame))
        /\ claim' = IF leftDriven THEN Unsorted(claim) ELSE NoClaim
        /\ \/ frame' = Take(frame, p) /\ schema' = schema
           \/ \E c \in ColumnNames \ schema, v \in [1..n -> Values] :
                /\ schema \cup {c} \in Schemas
                /\ schema' = schema \cup {c}
                /\ frame' = WithCells(Take(frame, p), schema, c, v)
  BY <1>0, Zenon
<1>2. claim' = (IF leftDriven THEN Unsorted(claim) ELSE NoClaim) /\ scanned' = scanned /\ History({})
  BY <1>1 DEF Join
<1>3. /\ frame \in Seq(Row(schema))
      /\ n \in Nat
      /\ p \in [1..n -> 1..Len(frame)]
  BY <1>1, BoundsAssumption, SeqIsFunction DEF IInv, TypeOK
<1>4. Take(frame, p) \in Seq(Row(schema)) /\ DOMAIN Take(frame, p) = 1..n
  BY <1>3, TakeIsSeq
<1>5. claim' # NoClaim => /\ claim # NoClaim /\ claim' \in Claim
                          /\ Sound(Take(frame, p), schema, claim', recomputed, interleaved)
  <2>1. claim' # NoClaim => /\ claim # NoClaim /\ claim \in Claim /\ interleaved \in BOOLEAN
                            /\ Sound(frame, schema, claim, recomputed, interleaved)
                            /\ claim' = Unsorted(claim)
    BY <1>1, <1>2 DEF Unsorted, IInv, TypeOK, ClaimSound
  <2> QED BY <1>3, <2>1, UnsortedTake
<1>6. CASE frame' = Take(frame, p) /\ schema' = schema
  <2>1. schema' \in SUBSET ColumnNames
    BY <1>6 DEF IInv, TypeOK
  <2> QED BY <1>2, <1>4, <1>5, <1>6, <2>1, PlainStepIsSound
<1>7. ASSUME NEW c \in ColumnNames \ schema, NEW v \in [1..n -> Values],
             schema' = schema \cup {c},
             frame' = WithCells(Take(frame, p), schema, c, v)
      PROVE  IInv'
  <2> DEFINE f == Take(frame, p)
             g == WithCells(f, schema, c, v)
  <2> HIDE DEF f
  <2>1. f \in Seq(Row(schema)) /\ HasCells(v, f)
    BY <1>4 DEF f, HasCells
  <2>2. /\ g \in Seq(Row(schema \cup {c}))
        /\ DOMAIN g = DOMAIN f
        /\ \A i \in DOMAIN f : /\ g[i].partition = f[i].partition
                               /\ \A d \in schema \ {c} : g[i].cell[d] = f[i].cell[d]
    <3>1. Overwrites(g, f, schema, c)
      BY <2>1, WithCellsIsFrame
    <3> QED BY <3>1 DEF Overwrites
  <2> HIDE DEF g
  <2>3. frame' = g /\ schema' = schema \cup {c}
    BY <1>7 DEF f, g
  <2>4. ASSUME claim' # NoClaim
        PROVE  Sound(g, schema \cup {c}, claim', recomputed, interleaved)
    <3>1. claim' \in Claim /\ Sound(f, schema, claim', recomputed, interleaved)
      BY <1>5, <2>4 DEF f
    <3>2. Names(claim') \subseteq schema
      BY <3>1 DEF Sound
    <3>3. \A i \in DOMAIN f : g[i].partition = f[i].partition
                              /\ \A d \in Names(claim') \ recomputed : g[i].cell[d] = f[i].cell[d]
      BY <2>2, <3>2, <1>7
    <3>4. Names(claim') \subseteq schema \cup {c}
      BY <3>2
    <3> QED BY <2>2, <3>1, <3>3, <3>4, SameNamedCellsIsSound
  <2>5. schema \cup {c} \in SUBSET ColumnNames
    BY DEF IInv, TypeOK
  <2> QED BY <1>2, <1>5, <2>2, <2>3, <2>4, <2>5, PlainStepIsSound
<1> QED BY <1>1, <1>6, <1>7

LEMMA ExplodeStep ==
  ASSUME IInv, Explode
  PROVE  IInv'
<1>a. PICK c \in schema :
        /\ claim' = IF claim # NoClaim /\ \E i \in DOMAIN claim.columns : claim.columns[i] = c
                    THEN NoClaim ELSE Unsorted(claim)
        /\ History({})
        /\ \E n \in 0..MaxRows : \E p \in Maps(n, Len(frame)), v \in [1..n -> Values] :
             frame' = WithCells(Take(frame, p), schema, c, v)
  BY DEF Explode
<1>0. PICK n \in 0..MaxRows : \E p \in Maps(n, Len(frame)), v \in [1..n -> Values] :
        frame' = WithCells(Take(frame, p), schema, c, v)
  BY <1>a
<1>1. PICK p \in Maps(n, Len(frame)), v \in [1..n -> Values] : frame' = WithCells(Take(frame, p), schema, c, v)
  BY <1>0
<1>2. schema' = schema /\ scanned' = scanned /\ History({})
  BY <1>a DEF Explode
<1>3. /\ frame \in Seq(Row(schema))
      /\ n \in Nat
      /\ p \in [1..n -> 1..Len(frame)]
  BY BoundsAssumption DEF IInv, TypeOK, Maps
<1> DEFINE f == Take(frame, p)
           g == WithCells(f, schema, c, v)
<1>4. f \in Seq(Row(schema)) /\ HasCells(v, f)
  BY <1>3, TakeIsSeq DEF HasCells
<1> HIDE DEF f
<1>5. /\ g \in Seq(Row(schema \cup {c}))
      /\ DOMAIN g = DOMAIN f
      /\ \A i \in DOMAIN f : /\ g[i].partition = f[i].partition
                             /\ \A d \in schema \ {c} : g[i].cell[d] = f[i].cell[d]
  <2>1. Overwrites(g, f, schema, c)
    BY <1>4, WithCellsIsFrame
  <2> QED BY <2>1 DEF Overwrites
<1> HIDE DEF g
<1>6. frame' = g /\ schema \cup {c} = schema
  BY <1>1 DEF f, g
<1>7. ASSUME claim' # NoClaim
      PROVE  claim # NoClaim /\ claim' \in Claim /\ Sound(g, schema, claim', recomputed, interleaved)
  <2>1. /\ claim' = Unsorted(claim)
        /\ claim # NoClaim
        /\ \A i \in DOMAIN claim.columns : claim.columns[i] # c
    BY <1>a, <1>7 DEF Unsorted
  <2>2. claim \in Claim /\ interleaved \in BOOLEAN /\ Sound(frame, schema, claim, recomputed, interleaved)
    BY <2>1 DEF IInv, TypeOK, ClaimSound
  <2>3. /\ claim' \in Claim
        /\ Sound(f, schema, claim', recomputed, interleaved)
        /\ Names(claim') = ColumnsOf(claim.columns)
    BY <1>3, <1>7, <2>1, <2>2, UnsortedTake DEF f
  <2>4. Names(claim') \subseteq schema \ {c}
    BY <2>1, <2>3 DEF Sound, ColumnsOf
  <2>5. \A i \in DOMAIN f : g[i].partition = f[i].partition
                            /\ \A d \in Names(claim') \ recomputed : g[i].cell[d] = f[i].cell[d]
    BY <1>5, <2>4
  <2>6. Names(claim') \subseteq schema
    BY <2>4
  <2>7. Sound(g, schema, claim', recomputed, interleaved)
    BY <1>5, <2>3, <2>5, <2>6, SameNamedCellsIsSound
  <2> QED BY <2>1, <2>3, <2>7
<1>8. schema' \in SUBSET ColumnNames /\ frame' \in Seq(Row(schema'))
  BY <1>2, <1>5, <1>6 DEF IInv, TypeOK
<1> QED BY <1>2, <1>6, <1>7, <1>8, PlainStepIsSound

LEMMA DropStep ==
  ASSUME IInv, Drop
  PROVE  IInv'
<1>1. PICK c \in schema :
        /\ schema' = schema \ {c}
        /\ frame' = Restricted(frame, schema \ {c})
        /\ \E n \in IF claim = NoClaim THEN {0} ELSE KeptLengths(claim.sortedBy, schema \ {c}) :
             claim' = PropagateProjection(claim, schema \ {c}, n)
        /\ History({})
  BY DEF Drop
<1> DEFINE T == schema \ {c}
<1>2. frame \in Seq(Row(schema)) /\ T \in SUBSET schema /\ T \in SUBSET ColumnNames
  BY DEF IInv, TypeOK
<1> HIDE DEF T
<1>3. /\ Restricted(frame, T) \in Seq(Row(T))
      /\ DOMAIN Restricted(frame, T) = DOMAIN frame
      /\ \A i \in DOMAIN frame : /\ Restricted(frame, T)[i].partition = frame[i].partition
                                 /\ \A d \in T : Restricted(frame, T)[i].cell[d] = frame[i].cell[d]
  <2>1. Restricts(Restricted(frame, T), frame, T)
    BY <1>2, RestrictedIsFrame
  <2> QED BY <2>1 DEF Restricts
<1>4. frame' = Restricted(frame, T) /\ schema' = T
  BY <1>1 DEF T
<1>5. ASSUME claim' # NoClaim
      PROVE  claim # NoClaim /\ claim' \in Claim /\ Sound(frame', T, claim', recomputed, interleaved)
  <2>1. /\ claim # NoClaim /\ claim \in Claim /\ interleaved \in BOOLEAN
        /\ Sound(frame, schema, claim, recomputed, interleaved)
    BY <1>1, <1>5 DEF PropagateProjection, IInv, TypeOK, ClaimSound
  <2>2. PICK n \in KeptLengths(claim.sortedBy, T) : claim' = PropagateProjection(claim, T, n)
    BY <1>1, <2>1 DEF T
  <2>3. /\ claim' \in Claim
        /\ Sound(frame, schema, claim', recomputed, interleaved)
        /\ Names(claim') \subseteq T
    BY <1>5, <2>1, <2>2, ProjectedIsSound
  <2>4. \A i \in DOMAIN frame : \A d \in Names(claim') \ recomputed : frame'[i].cell[d] = frame[i].cell[d]
    BY <1>3, <1>4, <2>3
  <2>5. Sound(frame', T, claim', recomputed, interleaved)
    BY <1>3, <1>4, <2>3, <2>4, SameNamedCellsIsSound
  <2> QED BY <2>1, <2>3, <2>5
<1>6. History({}) /\ scanned' = scanned
  BY <1>1 DEF Drop
<1> QED BY <1>2, <1>3, <1>4, <1>5, <1>6, PlainStepIsSound

LEMMA AssertClaimStep ==
  ASSUME IInv, AssertClaim
  PROVE  IInv'
<1>1. UNCHANGED <<frame, schema, scanned>> /\ History({})
  BY DEF AssertClaim
<1>2. CASE claim' = NoClaim
  <2>1. schema' \in SUBSET ColumnNames /\ frame' \in Seq(Row(schema'))
    BY <1>1 DEF IInv, TypeOK
  <2> QED BY <1>1, <1>2, <2>1, PlainStepIsSound
<1>3. CASE claim' # NoClaim
  <2>1. PICK a \in Claims(schema) : /\ ValidateAssertion(claim, a)
                                    /\ claim = NoClaim => Sound(frame, schema, a, {}, FALSE)
                                    /\ claim' = a
    BY <1>3 DEF AssertClaim
  <2>2. a \in Claim
    BY ClaimsAreClaims DEF IInv, TypeOK
  <2>3. CASE claim = NoClaim
    <3>1. recomputed' = {} /\ interleaved' = FALSE
      BY <1>1, <2>3 DEF History
    <3>2. ClaimSound'
      BY <1>1, <2>1, <2>3, <3>1 DEF ClaimSound
    <3>3. TypeOK'
      BY <1>1, <2>1, <2>2, <3>1 DEF IInv, TypeOK
    <3> QED BY <3>2, <3>3 DEF IInv
  <2>4. CASE claim # NoClaim
    <3>1. /\ claim \in Claim /\ interleaved \in BOOLEAN
          /\ Sound(frame, schema, claim, recomputed, interleaved)
      BY <2>4 DEF IInv, TypeOK, ClaimSound
    <3>2. /\ a.columns = claim.columns
          /\ IsSortedByPrefix(a.sortedBy, claim.sortedBy)
          /\ a.sortEnforced => claim.sortEnforced
      BY <2>1, <2>4 DEF ValidateAssertion
    <3>3. Sound(frame, schema, a, recomputed, interleaved)
      BY <2>2, <3>1, <3>2, WeakerIsSound
    <3>4. schema' \in SUBSET ColumnNames /\ frame' \in Seq(Row(schema'))
      BY <1>1 DEF IInv, TypeOK
    <3>5. claim' # NoClaim => /\ claim # NoClaim /\ claim' \in Claim
                              /\ Sound(frame', schema', claim', recomputed, interleaved)
      BY <1>1, <2>1, <2>2, <2>4, <3>3
    <3> QED BY <1>1, <3>4, <3>5, PlainStepIsSound
  <2> QED BY <2>3, <2>4
<1> QED BY <1>2, <1>3

LEMMA AggregateStep ==
  ASSUME IInv, Aggregate
  PROVE  IInv'
<1>0. PICK keys \in KeyLists(schema), c \in ColumnNames, n \in 0..Len(frame) :
      \E p \in [1..n -> DOMAIN frame] :
        LET K == {keys[i] : i \in DOMAIN keys} IN
        /\ c \notin K /\ K \cup {c} \in Schemas
        /\ \A i, j \in 1..n : SameCells(frame[p[i]], frame[p[j]], keys) => i = j
        /\ \A j \in DOMAIN frame : \E i \in 1..n : SameCells(frame[p[i]], frame[j], keys)
        /\ schema' = K \cup {c}
        /\ \E v \in [1..n -> Values] : frame' = WithCells(Restricted(Take(frame, p), K), K, c, v)
        /\ claim' = IF claim = NoClaim THEN NoClaim
                    ELSE IF claim.columns # keys THEN NoClaim
                    ELSE Unsorted(claim)
  BY Zenon DEF Aggregate
<1> DEFINE K == {keys[i] : i \in DOMAIN keys}
<1>a. PICK p \in [1..n -> DOMAIN frame] :
        /\ c \notin K /\ K \cup {c} \in Schemas
        /\ \A i, j \in 1..n : SameCells(frame[p[i]], frame[p[j]], keys) => i = j
        /\ schema' = K \cup {c}
        /\ \E v \in [1..n -> Values] : frame' = WithCells(Restricted(Take(frame, p), K), K, c, v)
        /\ claim' = IF claim = NoClaim THEN NoClaim
                    ELSE IF claim.columns # keys THEN NoClaim
                    ELSE Unsorted(claim)
  BY <1>0
<1>1. PICK v \in [1..n -> Values] : frame' = WithCells(Restricted(Take(frame, p), K), K, c, v)
  BY <1>a
<1>2. /\ frame \in Seq(Row(schema))
      /\ n \in Nat
      /\ p \in [1..n -> 1..Len(frame)]
  BY SeqIsFunction DEF IInv, TypeOK
<1>3. K \in SUBSET schema
  <2>1. keys \in Seq(schema)
    BY ListIsSeq DEF KeyLists
  <2> QED BY <2>1, SeqElements
<1> HIDE DEF K
<1> DEFINE t == Take(frame, p)
           f == Restricted(t, K)
           g == WithCells(f, K, c, v)
<1>4. /\ t \in Seq(Row(schema)) /\ DOMAIN t = 1..n
      /\ \A i \in 1..n : t[i] = frame[p[i]]
  BY <1>2, TakeIsSeq
<1> HIDE DEF t
<1>5. /\ f \in Seq(Row(K))
      /\ DOMAIN f = DOMAIN t
      /\ \A i \in DOMAIN t : /\ f[i].partition = t[i].partition
                             /\ \A d \in K : f[i].cell[d] = t[i].cell[d]
  <2>1. Restricts(f, t, K)
    BY <1>3, <1>4, RestrictedIsFrame
  <2> QED BY <2>1 DEF Restricts
<1> HIDE DEF f
<1>6. Overwrites(g, f, K, c)
  <2>1. HasCells(v, f)
    BY <1>4, <1>5 DEF HasCells
  <2> QED BY <1>5, <2>1, WithCellsIsFrame
<1> HIDE DEF g
<1>7. /\ g \in Seq(Row(K \cup {c}))
      /\ DOMAIN g = DOMAIN t
      /\ \A i \in DOMAIN t : /\ g[i].partition = t[i].partition
                             /\ \A d \in K : g[i].cell[d] = t[i].cell[d]
  BY <1>a, <1>5, <1>6 DEF Overwrites
<1>8. frame' = g /\ schema' = K \cup {c} /\ K \cup {c} \in SUBSET ColumnNames
  BY <1>a, <1>1 DEF f, g, t, Schemas
<1>9. ASSUME claim' # NoClaim
      PROVE  claim' \in Claim /\ Sound(g, K \cup {c}, claim', {}, FALSE)
  <2>1. claim # NoClaim /\ claim.columns = keys /\ claim' = Unsorted(claim)
    BY <1>a, <1>9
  <2>2. /\ claim \in Claim /\ interleaved \in BOOLEAN
        /\ Sound(frame, schema, claim, recomputed, interleaved)
    BY <2>1 DEF IInv, TypeOK, ClaimSound
  <2>3. claim' \in Claim /\ Names(claim') = ColumnsOf(keys)
    BY <1>9, <2>1, <2>2, UnsortedIsSound
  <2>4. claim'.columns = keys /\ claim'.sortEnforced = FALSE
    BY <2>1, <2>2 DEF Unsorted, Claim
  <2>5. \A d \in DOMAIN keys : keys[d] \in K
    BY DEF K
  \* A row stands for one group, so that none agrees with another on the keys.
  <2>6. \A i, j \in 1..n : SameCells(g[i], g[j], keys) => i = j
    <3>1. \A i \in 1..n : \A d \in DOMAIN keys : g[i].cell[keys[d]] = frame[p[i]].cell[keys[d]]
      BY <1>4, <1>7, <2>5
    <3>2. \A i, j \in 1..n : SameCells(g[i], g[j], keys) => SameCells(frame[p[i]], frame[p[j]], keys)
      BY <3>1 DEF SameCells
    <3> QED BY <1>a, <3>2
  <2>7. Colocated(g, claim')
    BY <1>4, <1>7, <2>4, <2>6 DEF Colocated
  <2>8. Names(claim') \subseteq K \cup {c}
    BY <2>3, <2>5 DEF ColumnsOf
  <2> QED BY <2>3, <2>4, <2>7, <2>8 DEF Sound
<1>10. recomputed' = {} /\ interleaved' = FALSE /\ scanned' = scanned
  BY DEF Aggregate
<1>11. ClaimSound'
  BY <1>8, <1>9, <1>10 DEF ClaimSound
<1>12. TypeOK'
  BY <1>7, <1>8, <1>9, <1>10 DEF IInv, TypeOK
<1> QED BY <1>11, <1>12 DEF IInv

LEMMA SortStep ==
  ASSUME IInv, Sort
  PROVE  IInv'
<1>1. PICK p \in [1..Len(frame) -> 1..Len(frame)], keys \in SortLists(schema, Directions) \ {<<>>} :
        /\ \A i, j \in 1..Len(frame) : i < j => p[i] # p[j] /\ InOrder(frame[p[i]], frame[p[j]], keys)
        /\ frame' = [i \in 1..Len(frame) |-> [frame[p[i]] EXCEPT !.partition = frame[1].partition]]
        /\ claim' = [columns |-> <<>>, hashFn |-> ValuePartitioned, sortedBy |-> keys, sortEnforced |-> TRUE]
  BY DEF Sort
<1>2. /\ frame \in Seq(Row(schema))
      /\ Len(frame) \in Nat
      /\ DOMAIN frame = 1..Len(frame)
      /\ \A i \in DOMAIN frame : frame[i] \in Row(schema)
  BY SeqIsFunction DEF IInv, TypeOK
<1>3. \A i \in 1..Len(frame) : /\ frame'[i] \in Row(schema)
                               /\ frame'[i].partition = frame[1].partition
                               /\ frame'[i].cell = frame[p[i]].cell
  <2> SUFFICES ASSUME NEW i \in 1..Len(frame)
               PROVE  /\ frame'[i] \in Row(schema)
                      /\ frame'[i].partition = frame[1].partition
                      /\ frame'[i].cell = frame[p[i]].cell
    OBVIOUS
  <2>1. frame[1] \in Row(schema) /\ frame[p[i]] \in Row(schema)
    BY <1>2
  <2> QED BY <1>1, <2>1 DEF Row
<1>4. frame' \in Seq(Row(schema)) /\ DOMAIN frame' = 1..Len(frame)
  <2>1. frame' \in [1..Len(frame) -> Row(schema)]
    BY <1>1, <1>3
  <2> QED BY <2>1, <1>2, FunctionIsSeq
<1>5. keys \in Seq(SortKey) /\ KeysOf(keys) \subseteq schema
  BY SortListFacts, BoundsAssumption DEF IInv, TypeOK
<1>6. claim' \in Claim
  <2>1. <<>> \in Seq(ColumnNames)
    OBVIOUS
  <2> QED BY <1>1, <1>5, <2>1, HashAssumption DEF Claim
<1>7. claim'.columns = <<>> /\ claim'.sortedBy = keys
  BY <1>1
<1>8. Names(claim') \subseteq schema
  BY <1>5, <1>7 DEF Names, ColumnsOf
<1>9. Colocated(frame', claim')
  BY <1>7 DEF Colocated
<1>10. Contiguous(frame')
  BY <1>3, <1>4 DEF Contiguous
<1>11. ASSUME NEW n \in FreshLengths(keys, {})
       PROVE  SortedWithin(frame', Prefix(keys, n))
  <2> DEFINE few == Prefix(keys, n)
  <2>1. few \in Seq(SortKey) /\ IsSortedByPrefix(few, keys)
    BY <1>5, FreshPrefix, PrefixIsSeq DEF IsSortedByPrefix
  <2> HIDE DEF few
  <2> SUFFICES ASSUME NEW i \in 1..Len(frame), NEW j \in 1..Len(frame), i < j
               PROVE  InOrder(frame'[i], frame'[j], few)
    BY <1>4 DEF SortedWithin, few
  <2>2. InOrder(frame[p[i]], frame[p[j]], keys)
    BY <1>1
  <2>3. InOrder(frame[p[i]], frame[p[j]], few)
    BY <1>5, <2>1, <2>2, InOrderPrefix
  <2> QED BY <1>3, <2>3 DEF InOrder
<1>12. Sound(frame', schema, claim', {}, FALSE)
  BY <1>7, <1>8, <1>9, <1>10, <1>11 DEF Sound
<1>13. recomputed' = {} /\ interleaved' = FALSE /\ UNCHANGED <<schema, scanned>>
  BY DEF Sort
<1>14. ClaimSound'
  BY <1>12, <1>13 DEF ClaimSound
<1>15. TypeOK'
  BY <1>4, <1>6, <1>13 DEF IInv, TypeOK
<1> QED BY <1>14, <1>15 DEF IInv

\* d says of the frame g what c says of f, under other names.
Translates(g, f, d, c) ==
  /\ DOMAIN g = DOMAIN f
  /\ \A i \in DOMAIN f : g[i].partition = f[i].partition
  /\ DOMAIN d.columns = DOMAIN c.columns
  /\ \A n \in DOMAIN c.columns : \A i \in DOMAIN f : g[i].cell[d.columns[n]] = f[i].cell[c.columns[n]]
  /\ DOMAIN d.sortedBy = DOMAIN c.sortedBy
  /\ \A n \in DOMAIN c.sortedBy : d.sortedBy[n].descending = c.sortedBy[n].descending
  /\ \A n \in DOMAIN c.sortedBy : \A i \in DOMAIN f :
       g[i].cell[d.sortedBy[n].column] = f[i].cell[c.sortedBy[n].column]
  /\ d.sortEnforced = c.sortEnforced

LEMMA TranslatedIsSound ==
  ASSUME NEW f, NEW S, NEW g, NEW T, NEW c \in Claim, NEW d \in Claim,
         NEW stale, NEW more, NEW mixed, Sound(f, S, c, stale, mixed),
         Names(d) \subseteq T, Translates(g, f, d, c),
         \A n \in DOMAIN c.columns : c.columns[n] \in stale => d.columns[n] \in more,
         \A n \in DOMAIN c.sortedBy : c.sortedBy[n].column \in stale => d.sortedBy[n].column \in more
  PROVE  Sound(g, T, d, more, mixed)
<1>0. /\ c.columns \in Seq(ColumnNames) /\ d.columns \in Seq(ColumnNames)
      /\ c.sortedBy \in Seq(SortKey) /\ d.sortedBy \in Seq(SortKey)
  BY DEF Claim
<1>1. ASSUME \A n \in DOMAIN d.columns : d.columns[n] \notin more
      PROVE  Colocated(g, d)
  <2>1. \A i, j \in DOMAIN f : SameCells(g[i], g[j], d.columns) <=> SameCells(f[i], f[j], c.columns)
    BY DEF SameCells, Translates
  <2>2. c.columns = <<>> => d.columns = <<>>
    <3>1. DOMAIN c.columns = 1..Len(c.columns) /\ DOMAIN d.columns = 1..Len(d.columns) /\ Len(d.columns) \in Nat
      BY <1>0, SeqIsFunction
    <3>2. DOMAIN d.columns = DOMAIN c.columns
      BY DEF Translates
    <3>3. c.columns = <<>> => Len(c.columns) = 0
      BY <1>0, EmptyIsEmpty
    <3>4. c.columns = <<>> => Len(d.columns) = 0
      <4>1. Len(d.columns) # 0 => 1 \in DOMAIN d.columns
        BY <3>1
      <4>2. Len(c.columns) = 0 => 1 \notin DOMAIN c.columns
        BY <3>1
      <4> QED BY <3>2, <3>3, <4>1, <4>2
    <3>5. Len(d.columns) = 0 => d.columns = <<>>
      BY <1>0, EmptyIsEmpty
    <3> QED BY <3>4, <3>5
  <2>3. Colocated(f, c)
    BY <1>1 DEF Sound, Translates
  <2> QED BY <2>1, <2>2, <2>3 DEF Colocated, Translates
<1>2. ASSUME NEW n \in FreshLengths(d.sortedBy, more)
      PROVE  /\ n \in FreshLengths(c.sortedBy, stale)
             /\ SortedWithin(f, Prefix(c.sortedBy, n)) => SortedWithin(g, Prefix(d.sortedBy, n))
  <2>1. /\ n \in 0..Len(d.sortedBy) /\ n \in Nat
        /\ DOMAIN Prefix(d.sortedBy, n) = 1..n
        /\ \A q \in 1..n : /\ q \in DOMAIN d.sortedBy /\ d.sortedBy[q].column \notin more
                           /\ Prefix(d.sortedBy, n)[q] = d.sortedBy[q]
    BY <1>0, FreshPrefix
  <2>2. Len(c.sortedBy) = Len(d.sortedBy)
    BY <1>0, SeqIsFunction DEF Translates
  <2>3. n \in FreshLengths(c.sortedBy, stale)
    BY <2>1, <2>2 DEF FreshLengths, Translates
  <2>4. /\ DOMAIN Prefix(c.sortedBy, n) = 1..n
        /\ \A q \in 1..n : Prefix(c.sortedBy, n)[q] = c.sortedBy[q]
    BY <1>0, <2>3, FreshPrefix
  <2> DEFINE cs == Prefix(c.sortedBy, n)
             ds == Prefix(d.sortedBy, n)
  <2>5. \A q \in 1..n : \A i \in DOMAIN f :
          /\ g[i].cell[ds[q].column] = f[i].cell[cs[q].column]
          /\ ds[q].descending = cs[q].descending
    BY <2>1, <2>4 DEF Translates
  <2>6. DOMAIN cs = 1..n /\ DOMAIN ds = 1..n
    BY <2>1, <2>4
  <2> HIDE DEF cs, ds
  <2>7. ASSUME NEW i \in DOMAIN f, NEW j \in DOMAIN f, InOrder(f[i], f[j], cs)
        PROVE  InOrder(g[i], g[j], ds)
    <3>1. \A p \in 1..n : \A q \in 1..(p - 1) : q \in 1..n
      BY <2>1
    <3> QED BY <2>5, <2>6, <2>7, <3>1 DEF InOrder
  <2>8. SortedWithin(f, cs) => SortedWithin(g, ds)
    BY <2>7 DEF SortedWithin, Translates
  <2> QED BY <2>3, <2>8 DEF cs, ds
<1>3. ASSUME d.sortEnforced, ~mixed
      PROVE  /\ Contiguous(g)
             /\ \A n \in FreshLengths(d.sortedBy, more) : SortedWithin(g, Prefix(d.sortedBy, n))
  <2>1. Contiguous(f) /\ \A n \in FreshLengths(c.sortedBy, stale) : SortedWithin(f, Prefix(c.sortedBy, n))
    BY <1>3 DEF Sound, Translates
  <2>2. Contiguous(g)
    BY <2>1 DEF Contiguous, Translates
  <2> QED BY <1>2, <2>1, <2>2
<1> QED BY <1>1, <1>3 DEF Sound

LEMMA RenameStep ==
  ASSUME IInv, Rename
  PROVE  IInv'
<1>1. PICK old \in schema, new \in ColumnNames \ schema :
        /\ schema' = (schema \ {old}) \cup {new}
        /\ frame' = [i \in DOMAIN frame |->
                       [frame[i] EXCEPT !.cell = [d \in (schema \ {old}) \cup {new} |->
                                                    frame[i].cell[IF d = new THEN old ELSE d]]]]
        /\ claim' = IF claim = NoClaim THEN NoClaim ELSE RenamedClaim(claim, old, new)
        /\ recomputed' = {RenamedTo(c, old, new) : c \in recomputed}
  BY DEF Rename
<1> DEFINE T == (schema \ {old}) \cup {new}
<1>2. /\ frame \in Seq(Row(schema))
      /\ DOMAIN frame = 1..Len(frame) /\ Len(frame) \in Nat
      /\ \A i \in DOMAIN frame : frame[i] \in Row(schema)
  BY SeqIsFunction DEF IInv, TypeOK
<1>3. \A i \in DOMAIN frame : /\ frame'[i] \in Row(T)
                              /\ frame'[i].partition = frame[i].partition
                              /\ \A d \in schema : frame'[i].cell[RenamedTo(d, old, new)] = frame[i].cell[d]
  BY <1>1, <1>2 DEF Row, RenamedTo
<1>4. frame' \in Seq(Row(T)) /\ DOMAIN frame' = DOMAIN frame
  <2>1. frame' \in [1..Len(frame) -> Row(T)]
    BY <1>1, <1>2, <1>3
  <2> QED BY <2>1, <1>2, FunctionIsSeq
<1>5. T \in SUBSET ColumnNames
  BY DEF IInv, TypeOK
<1>6. ASSUME claim' # NoClaim
      PROVE  claim' \in Claim /\ Sound(frame', T, claim', recomputed', interleaved)
  <2>1. claim # NoClaim /\ claim \in Claim /\ Sound(frame, schema, claim, recomputed, interleaved)
    BY <1>1, <1>6 DEF IInv, TypeOK, ClaimSound
  <2>2. /\ claim.columns \in Seq(ColumnNames)
        /\ claim.sortedBy \in Seq(SortKey)
    BY <2>1 DEF Claim
  <2>3. /\ \A n \in DOMAIN claim.columns : claim.columns[n] \in schema
        /\ \A n \in DOMAIN claim.sortedBy : claim.sortedBy[n].column \in schema
    BY <2>1 DEF Sound, Names, ColumnsOf, KeysOf
  <2>4. /\ claim'.columns = [n \in DOMAIN claim.columns |-> RenamedTo(claim.columns[n], old, new)]
        /\ claim'.sortedBy = [n \in DOMAIN claim.sortedBy |->
                                [column |-> RenamedTo(claim.sortedBy[n].column, old, new),
                                 descending |-> claim.sortedBy[n].descending]]
        /\ claim'.hashFn = claim.hashFn
        /\ claim'.sortEnforced = claim.sortEnforced
        /\ claim' = RenamedClaim(claim, old, new)
    BY <1>1, <2>1 DEF RenamedClaim
  <2>5. claim'.columns \in Seq(ColumnNames)
    <3>1. claim'.columns \in [1..Len(claim.columns) -> ColumnNames]
      BY <2>2, <2>4, SeqIsFunction DEF RenamedTo
    <3> QED BY <2>2, <3>1, FunctionIsSeq, SeqIsFunction
  <2>6. \A n \in DOMAIN claim.sortedBy :
          /\ claim'.sortedBy[n] \in SortKey
          /\ claim'.sortedBy[n].column = RenamedTo(claim.sortedBy[n].column, old, new)
          /\ claim'.sortedBy[n].descending = claim.sortedBy[n].descending
    <3>1. \A n \in DOMAIN claim.sortedBy : claim.sortedBy[n] \in SortKey
      BY <2>2, SeqIsFunction
    <3> QED BY <2>4, <3>1 DEF RenamedTo, SortKey
  <2>7. claim'.sortedBy \in Seq(SortKey)
    <3>1. claim'.sortedBy \in [1..Len(claim.sortedBy) -> SortKey]
      BY <2>2, <2>4, <2>6, SeqIsFunction
    <3> QED BY <2>2, <3>1, FunctionIsSeq, SeqIsFunction
  <2>8. claim' \in Claim
    BY <2>1, <2>4, <2>5, <2>7 DEF Claim, RenamedClaim
  <2>9. Names(claim') \subseteq T
    BY <2>3, <2>4, <2>6 DEF Names, ColumnsOf, KeysOf, RenamedTo
  <2>10. \A n \in DOMAIN claim.columns : \A i \in DOMAIN frame :
           frame'[i].cell[claim'.columns[n]] = frame[i].cell[claim.columns[n]]
    BY <1>3, <2>3, <2>4
  <2>11. \A n \in DOMAIN claim.sortedBy : \A i \in DOMAIN frame :
           frame'[i].cell[claim'.sortedBy[n].column] = frame[i].cell[claim.sortedBy[n].column]
    BY <1>3, <2>3, <2>6
  <2>12. DOMAIN claim'.columns = DOMAIN claim.columns /\ DOMAIN claim'.sortedBy = DOMAIN claim.sortedBy
    BY <2>4
  <2>13. Sound(frame', T, claim', recomputed', interleaved)
    <3>1. Translates(frame', frame, claim', claim)
      BY <1>3, <1>4, <2>4, <2>6, <2>10, <2>11, <2>12 DEF Translates
    <3>2. \A n \in DOMAIN claim.columns : claim.columns[n] \in recomputed => claim'.columns[n] \in recomputed'
      BY <1>1, <2>4
    <3>3. \A n \in DOMAIN claim.sortedBy :
            claim.sortedBy[n].column \in recomputed => claim'.sortedBy[n].column \in recomputed'
      BY <1>1, <2>6
    <3> DEFINE g == frame'
               d == claim'
               more == recomputed'
    <3>4. /\ d \in Claim /\ Names(d) \subseteq T /\ Translates(g, frame, d, claim)
          /\ \A n \in DOMAIN claim.columns : claim.columns[n] \in recomputed => d.columns[n] \in more
          /\ \A n \in DOMAIN claim.sortedBy : claim.sortedBy[n].column \in recomputed => d.sortedBy[n].column \in more
      BY <2>8, <2>9, <3>1, <3>2, <3>3
    <3> HIDE DEF g, d, more
    <3>5. Sound(g, T, d, more, interleaved)
      BY <2>1, <3>4, TranslatedIsSound
    <3> QED BY <3>5 DEF g, d, more
  <2> QED BY <2>8, <2>13
<1>7. UNCHANGED <<scanned, interleaved>> /\ schema' = T
  BY <1>1 DEF Rename
<1>8. recomputed' \in SUBSET ColumnNames
  BY <1>1 DEF IInv, TypeOK, RenamedTo
<1>9. ClaimSound'
  BY <1>6, <1>7 DEF ClaimSound
<1>10. TypeOK'
  BY <1>4, <1>5, <1>6, <1>7, <1>8 DEF IInv, TypeOK
<1> QED BY <1>9, <1>10 DEF IInv

-----------------------------------------------------------------------------
(* The theorems. *)

LEMMA NextIsSound ==
  ASSUME IInv, [Next]_vars
  PROVE  IInv'
<1>1. CASE Scan         BY <1>1, ScanStep
<1>2. CASE Filter       BY <1>2, FilterStep
<1>3. CASE Project      BY <1>3, ProjectStep
<1>4. CASE WithColumn   BY <1>4, WithColumnStep
<1>5. CASE FirstRows    BY <1>5, FirstRowsStep
<1>6. CASE LastRows     BY <1>6, LastRowsStep
<1>7. CASE Sort         BY <1>7, SortStep
<1>8. CASE Aggregate    BY <1>8, AggregateStep
<1>9. CASE Join         BY <1>9, JoinStep
<1>10. CASE Drop        BY <1>10, DropStep
<1>11. CASE Rename      BY <1>11, RenameStep
<1>12. CASE Explode     BY <1>12, ExplodeStep
<1>13. CASE AssertClaim BY <1>13, AssertClaimStep
<1>14. CASE UNCHANGED vars
  BY <1>14 DEF IInv, TypeOK, ClaimSound, vars
<1> QED BY <1>1, <1>2, <1>3, <1>4, <1>5, <1>6, <1>7, <1>8, <1>9, <1>10, <1>11, <1>12, <1>13, <1>14 DEF Next

(***************************************************************************)
(* The variables keep their types: in particular every derived claim names *)
(* columns and sort keys as a claim does.                                  *)
(***************************************************************************)
THEOREM ClaimTypes == Spec => []TypeOK
<1>1. Init => IInv
  BY InitIsSound
<1>2. IInv /\ [Next]_vars => IInv'
  BY NextIsSound
<1>3. IInv => TypeOK
  BY DEF IInv
<1> QED BY <1>1, <1>2, <1>3, PTL DEF Spec

(***************************************************************************)
(* Every claim a plan derives (plan.go, partition.go) is true of its rows, *)
(* as far as it rests on no column computed anew and on no interleaved     *)
(* order: no rule but these two keeps or makes a claim that is false.      *)
(***************************************************************************)
THEOREM ClaimsAreSound == Spec => []ClaimSound
<1>1. Init => IInv
  BY InitIsSound
<1>2. IInv /\ [Next]_vars => IInv'
  BY NextIsSound
<1>3. IInv => ClaimSound
  BY DEF IInv
<1> QED BY <1>1, <1>2, <1>3, PTL DEF Spec

\* Between two rows with equal keys, in the order of those keys, stands no row with others.
LEMMA NothingBetween ==
  ASSUME NEW S, NEW r \in Row(S), NEW s \in Row(S), NEW t \in Row(S),
         NEW keys \in Seq(SortKey), NEW cols \in Seq(S),
         Len(cols) <= 2, Len(keys) >= Len(cols),
         \A i \in DOMAIN cols : keys[i].column = cols[i],
         InOrder(r, s, keys), InOrder(s, t, keys), SameCells(r, t, cols)
  PROVE  SameCells(r, s, cols)
<1>1. /\ Len(cols) \in Nat /\ Len(keys) \in Nat
      /\ DOMAIN cols = 1..Len(cols) /\ DOMAIN keys = 1..Len(keys)
      /\ \A i \in DOMAIN cols : cols[i] \in S
  BY SeqIsFunction
<1>2. \A i \in DOMAIN cols : r.cell[cols[i]] \in Int /\ s.cell[cols[i]] \in Int /\ t.cell[cols[i]] = r.cell[cols[i]]
  BY <1>1, ValuesAssumption DEF Row, SameCells
<1>3. ASSUME NEW p \in DOMAIN cols, \A q \in 1..(p - 1) : r.cell[cols[q]] = s.cell[cols[q]]
      PROVE  r.cell[cols[p]] = s.cell[cols[p]]
  <2>1. p \in DOMAIN keys /\ keys[p].column = cols[p]
    BY <1>1
  <2>2. \A q \in 1..(p - 1) : q \in DOMAIN cols /\ keys[q].column = cols[q]
    BY <1>1
  <2>3. \A q \in 1..(p - 1) : r.cell[keys[q].column] = s.cell[keys[q].column]
                             /\ s.cell[keys[q].column] = t.cell[keys[q].column]
    BY <1>2, <1>3, <2>2
  <2>4. IF keys[p].descending
        THEN r.cell[cols[p]] >= s.cell[cols[p]] /\ s.cell[cols[p]] >= t.cell[cols[p]]
        ELSE r.cell[cols[p]] <= s.cell[cols[p]] /\ s.cell[cols[p]] <= t.cell[cols[p]]
    BY <2>1, <2>3 DEF InOrder
  <2> QED BY <1>2, <2>4
<1>4. 1 \in DOMAIN cols => r.cell[cols[1]] = s.cell[cols[1]]
  BY <1>3
<1>5. 2 \in DOMAIN cols => r.cell[cols[2]] = s.cell[cols[2]]
  <2> SUFFICES ASSUME 2 \in DOMAIN cols PROVE r.cell[cols[2]] = s.cell[cols[2]]
    OBVIOUS
  <2>1. \A q \in 1..(2 - 1) : q = 1
    OBVIOUS
  <2>2. 1 \in DOMAIN cols
    BY <1>1
  <2> QED BY <1>3, <1>4, <2>1, <2>2
<1>6. \A i \in DOMAIN cols : i = 1 \/ i = 2
  BY <1>1
<1> QED BY <1>4, <1>5, <1>6 DEF SameCells

LEMMA KeyListFacts ==
  ASSUME NEW S, NEW cols \in KeyLists(S)
  PROVE  cols \in Seq(S) /\ Len(cols) <= 2 /\ cols # <<>>
<1>1. PICK k \in 0..2 : cols \in [1..k -> S]
  BY DEF KeyLists, Lists
<1> QED BY <1>1, FunctionIsSeq DEF KeyLists

\* Where the fast path applies, rows with equal keys have only their like between them.
LEMMA EqualKeysAreNeighbours ==
  ASSUME IInv, ~interleaved,
         NEW cols \in KeyLists(schema), Fresh(ColumnsOf(cols)), FastPathApplicable(claim, cols),
         NEW i \in DOMAIN frame, NEW k \in DOMAIN frame, NEW j \in DOMAIN frame,
         i < k, k < j, SameCells(frame[i], frame[j], cols)
  PROVE  SameCells(frame[i], frame[k], cols)
<1>1. /\ claim \in Claim /\ claim.columns = cols /\ claim.sortEnforced
      /\ Sound(frame, schema, claim, recomputed, interleaved)
  BY DEF IInv, TypeOK, ClaimSound, FastPathApplicable, Aligned
<1>2. cols \in Seq(schema) /\ Len(cols) <= 2 /\ cols # <<>>
  BY KeyListFacts
<1>3. /\ claim.sortedBy \in Seq(SortKey)
      /\ Len(claim.sortedBy) >= Len(cols)
      /\ \A m \in DOMAIN cols : claim.sortedBy[m].column = cols[m]
  BY <1>1 DEF Claim, FastPathApplicable
<1>4. \A m \in DOMAIN cols : cols[m] \notin recomputed
  BY DEF Fresh, ColumnsOf
<1>5. Colocated(frame, claim) /\ Contiguous(frame)
  BY <1>1, <1>4 DEF Sound
<1> DEFINE n == Len(cols)
           keys == Prefix(claim.sortedBy, n)
<1>6. n \in FreshLengths(claim.sortedBy, recomputed) /\ DOMAIN cols = 1..n /\ n \in Nat
  <2>1. DOMAIN cols = 1..n /\ n \in Nat /\ Len(claim.sortedBy) \in Nat
    BY <1>2, <1>3, SeqIsFunction
  <2> QED BY <1>3, <1>4, <2>1 DEF FreshLengths
<1>7. keys \in Seq(SortKey) /\ Len(keys) = n /\ \A m \in DOMAIN cols : keys[m].column = cols[m]
  <2>1. n \in 0..Len(claim.sortedBy)
    BY <1>6 DEF FreshLengths
  <2> QED BY <1>3, <1>6, <2>1, PrefixIsSeq
<1>8. SortedWithin(frame, keys)
  BY <1>1, <1>6 DEF Sound
<1> HIDE DEF keys
<1>9. frame[i].partition = frame[j].partition
  BY <1>1, <1>2, <1>5 DEF Colocated
<1>10. frame[k].partition = frame[i].partition
  BY <1>5, <1>9 DEF Contiguous
<1>11. InOrder(frame[i], frame[k], keys) /\ InOrder(frame[k], frame[j], keys)
  BY <1>8, <1>9, <1>10 DEF SortedWithin
<1>12. frame[i] \in Row(schema) /\ frame[k] \in Row(schema) /\ frame[j] \in Row(schema)
  BY SeqIsFunction DEF IInv, TypeOK
<1>13. Len(keys) >= Len(cols)
  BY <1>6, <1>7
<1> QED BY <1>2, <1>7, <1>11, <1>12, <1>13, NothingBetween

\* ... hence the run of like rows from i to j is unbroken.
LEMMA RunsAreUnbroken ==
  ASSUME IInv, ~interleaved,
         NEW cols \in KeyLists(schema), Fresh(ColumnsOf(cols)), FastPathApplicable(claim, cols),
         NEW i \in DOMAIN frame, NEW j \in DOMAIN frame, SameCells(frame[i], frame[j], cols),
         NEW k \in (i..j) \cup (j..i)
  PROVE  SameCells(frame[i], frame[k], cols)
<1>1. DOMAIN frame = 1..Len(frame) /\ Len(frame) \in Nat
  BY SeqIsFunction DEF IInv, TypeOK
<1>2. i \in Int /\ j \in Int /\ k \in Int /\ k \in DOMAIN frame
  BY <1>1
<1>3. CASE k = i
  BY <1>3 DEF SameCells
<1>4. CASE k = j
  BY <1>4
<1>5. CASE i < k /\ k < j
  BY <1>2, <1>5, EqualKeysAreNeighbours
<1>6. CASE j < k /\ k < i
  <2>1. SameCells(frame[j], frame[i], cols)
    BY DEF SameCells
  <2>2. SameCells(frame[j], frame[k], cols)
    BY <1>2, <1>6, <2>1, EqualKeysAreNeighbours
  <2> QED BY <2>2 DEF SameCells
<1> QED BY <1>2, <1>3, <1>4, <1>5, <1>6

(***************************************************************************)
(* The linear scan of aggAligned and evalContiguous finds the groups of    *)
(* the hash path whenever the claim lets them take it, no grouping column  *)
(* was computed anew and the order of the rows is the source's.            *)
(***************************************************************************)
THEOREM FastPathsAreExact == Spec => []FastPathGroups
<1>1. Init => IInv
  BY InitIsSound
<1>2. IInv /\ [Next]_vars => IInv'
  BY NextIsSound
<1>3. IInv => FastPathGroups
  <2> SUFFICES ASSUME IInv, ~interleaved,
                      NEW cols \in KeyLists(schema), Fresh(ColumnsOf(cols)), FastPathApplicable(claim, cols)
               PROVE  LinearGroups(frame, cols) = HashGroups(frame, cols)
    BY DEF FastPathGroups, SameGroups
  <2>1. ASSUME NEW i \in DOMAIN frame
        PROVE  {j \in DOMAIN frame : \A k \in (i..j) \cup (j..i) : SameCells(frame[i], frame[k], cols)}
               = {j \in DOMAIN frame : SameCells(frame[i], frame[j], cols)}
    <3>1. ASSUME NEW j \in DOMAIN frame, SameCells(frame[i], frame[j], cols)
          PROVE  \A k \in (i..j) \cup (j..i) : SameCells(frame[i], frame[k], cols)
      BY <3>1, RunsAreUnbroken
    <3>2. ASSUME NEW j \in DOMAIN frame,
                 \A k \in (i..j) \cup (j..i) : SameCells(frame[i], frame[k], cols)
          PROVE  SameCells(frame[i], frame[j], cols)
      <4>1. i \in Int /\ j \in Int
        BY SeqIsFunction DEF IInv, TypeOK
      <4>2. j \in (i..j) \cup (j..i)
        BY <4>1
      <4> QED BY <3>2, <4>2
    <3> QED BY <3>1, <3>2
  <2> QED BY <2>1 DEF LinearGroups, HashGroups
<1> QED BY <1>1, <1>2, <1>3, PTL DEF Spec

(***************************************************************************)
(* Where Over slices the frame in place, the rows of a group are in the    *)
(* order the window asks for, with the same exceptions.                    *)
(***************************************************************************)
THEOREM WindowsAreOrdered == Spec => []WindowOrder
<1>1. Init => IInv
  BY InitIsSound
<1>2. IInv /\ [Next]_vars => IInv'
  BY NextIsSound
<1>3. IInv => WindowOrder
  <2> SUFFICES ASSUME IInv, ~interleaved, NEW cols \in KeyLists(schema), NEW orderBy \in SortLists(schema, BOOLEAN),
                      ShapeFastPathApplicable(claim, cols, orderBy),
                      Fresh(ColumnsOf(cols) \cup KeysOf(orderBy)),
                      NEW i \in DOMAIN frame, NEW j \in DOMAIN frame,
                      i < j, SameCells(frame[i], frame[j], cols)
               PROVE  InOrder(frame[i], frame[j], orderBy)
    BY DEF WindowOrder
  <2>1. FastPathApplicable(claim, cols)
    BY DEF ShapeFastPathApplicable
  <2>2. /\ claim \in Claim /\ Sound(frame, schema, claim, recomputed, interleaved)
        /\ claim.columns = cols /\ claim.sortEnforced /\ cols # <<>>
        /\ claim.sortedBy \in Seq(SortKey)
    BY <2>1 DEF IInv, TypeOK, ClaimSound, FastPathApplicable, Aligned, Claim
  <2>3. /\ \A m \in DOMAIN cols : cols[m] \notin recomputed
        /\ \A m \in DOMAIN orderBy : orderBy[m].column \notin recomputed
    BY DEF Fresh, ColumnsOf, KeysOf
  <2>4. frame[i].partition = frame[j].partition
    BY <2>2, <2>3 DEF Sound, Colocated
  <2>5. /\ cols \in Seq(schema) /\ orderBy \in Seq(SortKey)
    BY KeyListFacts, SortListFacts DEF IInv, TypeOK
  <2> DEFINE n == Len(cols) + Len(orderBy)
             keys == Prefix(claim.sortedBy, n)
  <2>6. /\ Len(cols) \in Nat /\ Len(orderBy) \in Nat /\ Len(claim.sortedBy) \in Nat
        /\ DOMAIN cols = 1..Len(cols) /\ DOMAIN orderBy = 1..Len(orderBy)
    BY <2>2, <2>5, SeqIsFunction
  <2>a. /\ \A m \in DOMAIN cols : claim.sortedBy[m].column = cols[m]
        /\ Len(claim.sortedBy) >= Len(cols) + Len(orderBy)
        /\ \A m \in DOMAIN orderBy : claim.sortedBy[Len(cols) + m] = orderBy[m]
    BY <2>1 DEF ShapeFastPathApplicable, FastPathApplicable
  <2>b. n \in 0..Len(claim.sortedBy) /\ n \in Nat
    BY <2>6, <2>a
  <2>c. /\ DOMAIN keys = 1..n
        /\ \A m \in 1..n : keys[m] = claim.sortedBy[m]
    BY <2>2, <2>b, PrefixIsSeq
  <2>d. \A m \in 1..n : claim.sortedBy[m].column \notin recomputed
    <3> SUFFICES ASSUME NEW m \in 1..n PROVE claim.sortedBy[m].column \notin recomputed
      OBVIOUS
    <3>1. CASE m \in DOMAIN cols
      BY <2>3, <2>a, <3>1
    <3>2. CASE m \notin DOMAIN cols
      <4>1. m - Len(cols) \in DOMAIN orderBy /\ m = Len(cols) + (m - Len(cols))
        BY <2>6, <3>2
      <4> QED BY <2>3, <2>a, <4>1
    <3> QED BY <3>1, <3>2
  <2>e. SortedWithin(frame, keys)
    <3>1. n \in FreshLengths(claim.sortedBy, recomputed)
      BY <2>b, <2>d DEF FreshLengths
    <3> QED BY <2>2, <3>1 DEF Sound
  <2>f. InOrder(frame[i], frame[j], keys)
    BY <2>4, <2>e DEF SortedWithin
  <2>7. /\ \A m \in DOMAIN cols : m \in DOMAIN keys /\ keys[m].column = cols[m]
        /\ \A m \in DOMAIN orderBy : Len(cols) + m \in DOMAIN keys /\ keys[Len(cols) + m] = orderBy[m]
    <3> HIDE DEF keys
    <3>1. \A m \in DOMAIN cols : m \in 1..n
      BY <2>6
    <3>2. \A m \in DOMAIN orderBy : Len(cols) + m \in 1..n
      BY <2>6
    <3> HIDE DEF n
    <3> QED BY <2>a, <2>c, <3>1, <3>2
  <2> HIDE DEF keys
  <2>8. ASSUME NEW p \in DOMAIN orderBy,
               \A q \in 1..(p - 1) : frame[i].cell[orderBy[q].column] = frame[j].cell[orderBy[q].column]
        PROVE  IF orderBy[p].descending
               THEN frame[i].cell[orderBy[p].column] >= frame[j].cell[orderBy[p].column]
               ELSE frame[i].cell[orderBy[p].column] <= frame[j].cell[orderBy[p].column]
    <3> DEFINE P == Len(cols) + p
    <3>3. P \in DOMAIN keys /\ keys[P] = orderBy[p]
      BY <2>6, <2>7
    <3>4. ASSUME NEW q \in 1..(P - 1)
          PROVE  frame[i].cell[keys[q].column] = frame[j].cell[keys[q].column]
      <4>1. CASE q \in DOMAIN cols
        BY <2>7, <4>1 DEF SameCells
      <4>2. CASE q \notin DOMAIN cols
        <5> DEFINE m == q - Len(cols)
        <5>1. m \in 1..(p - 1) /\ m \in DOMAIN orderBy /\ q = Len(cols) + m
          BY <2>6, <4>2
        <5> QED BY <2>7, <2>8, <5>1
      <4> QED BY <4>1, <4>2
    <3> HIDE DEF P
    <3>5. IF keys[P].descending
          THEN frame[i].cell[keys[P].column] >= frame[j].cell[keys[P].column]
          ELSE frame[i].cell[keys[P].column] <= frame[j].cell[keys[P].column]
      BY <2>f, <3>3, <3>4, Zenon DEF InOrder
    <3> QED BY <3>3, <3>5
  <2> QED BY <2>8 DEF InOrder
<1> QED BY <1>1, <1>2, <1>3, PTL DEF Spec
=============================================================================
