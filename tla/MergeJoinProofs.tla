--------------------------- MODULE MergeJoinProofs ---------------------------
(***************************************************************************)
(* Two things about mergeJoinInner, for sides of any length, of whatever   *)
(* claims.  In whatever order the sides are, it finds only matching pairs  *)
(* and none twice.  If they rise to every key with a partner, which        *)
(* canMergeJoin does not check, it finds every pair, in the order of the   *)
(* hash join; sides in ascending order of keys that are not negative do.   *)
(***************************************************************************)
EXTENDS MergeJoin, TLAPS

Pairs == Join!Emitted(out)
Matching == Join!Matches

\* The pairs of the run being emitted that come before <<a, b>>.
OfRun == {p \in (i..(iEnd - 1)) \X (j..(jEnd - 1)) : Join!Before(p, <<a, b>>)}

LeftRun == i < iEnd /\ i <= Len(left) /\ left[i] # Null /\ \A x \in i..(iEnd - 1) : left[x] = left[i]
RightRun == j < jEnd /\ j <= Len(right) /\ \A y \in j..(jEnd - 1) : right[y] = left[i]
LeftEnds == iEnd <= Len(left) => left[iEnd] # left[i]
RightEnds == jEnd <= Len(right) => right[jEnd] # left[i]

RunInv ==
  /\ pc \in {"extendLeft", "extendRight", "emit"} => LeftRun /\ RightRun
  /\ pc \in {"extendRight", "emit"} => LeftEnds
  /\ pc = "emit" => RightEnds /\ a \in i..iEnd /\ b \in j..(jEnd - 1) /\ (a = iEnd => b = j)

PairsInv ==
  /\ Join!Increasing(out)
  /\ Pairs \subseteq Matching
  /\ \A p \in Pairs : p[1] < i \/ (pc = "emit" /\ p \in OfRun)

\* The invariant that needs no order.
MInv == TypeOK /\ RunInv /\ PairsInv

-----------------------------------------------------------------------------
(* Sequences. *)

LEMMA SeqFacts ==
  ASSUME NEW S, NEW s \in Seq(S)
  PROVE  /\ Len(s) \in Nat
         /\ DOMAIN s = 1..Len(s)
         /\ \A x \in 1..Len(s) : s[x] \in S
OBVIOUS

LEMMA AppendFacts ==
  ASSUME NEW S, NEW s \in Seq(S), NEW e \in S
  PROVE  /\ Append(s, e) \in Seq(S)
         /\ Len(Append(s, e)) = Len(s) + 1
         /\ \A x \in 1..Len(s) : Append(s, e)[x] = s[x]
         /\ Append(s, e)[Len(s) + 1] = e
         /\ SubSeq(Append(s, e), 1, Len(s)) = s
OBVIOUS

LEMMA EmittedAppend ==
  ASSUME NEW S, NEW s \in Seq(S), NEW e \in S
  PROVE  Join!Emitted(Append(s, e)) = Join!Emitted(s) \cup {e}
<1>1. /\ DOMAIN s = 1..Len(s) /\ Len(s) \in Nat
      /\ DOMAIN Append(s, e) = 1..(Len(s) + 1)
  BY SeqFacts, AppendFacts
<1>2. \A x \in 1..Len(s) : Append(s, e)[x] = s[x]
  BY AppendFacts
<1>3. Append(s, e)[Len(s) + 1] = e
  BY AppendFacts
<1>4. 1..(Len(s) + 1) = (1..Len(s)) \cup {Len(s) + 1}
  BY <1>1
<1> QED BY <1>1, <1>2, <1>3, <1>4 DEF Join!Emitted

LEMMA IncreasingAppend ==
  ASSUME NEW S, NEW s \in Seq(S), NEW e \in S, Join!Increasing(s),
         \A p \in Join!Emitted(s) : Join!Before(p, e)
  PROVE  Join!Increasing(Append(s, e))
<1>1. /\ DOMAIN s = 1..Len(s) /\ Len(s) \in Nat
      /\ DOMAIN Append(s, e) = 1..(Len(s) + 1)
  BY SeqFacts, AppendFacts
<1>2. \A x \in 1..Len(s) : Append(s, e)[x] = s[x]
  BY AppendFacts
<1>3. Append(s, e)[Len(s) + 1] = e
  BY AppendFacts
<1> SUFFICES ASSUME NEW m \in 1..(Len(s) + 1), NEW n \in 1..(Len(s) + 1), m < n
             PROVE  Join!Before(Append(s, e)[m], Append(s, e)[n])
  BY <1>1 DEF Join!Increasing
<1>4. m \in DOMAIN s /\ Append(s, e)[m] = s[m]
  BY <1>1, <1>2
<1>5. CASE n = Len(s) + 1
  BY <1>3, <1>4, <1>5 DEF Join!Emitted
<1>6. CASE n # Len(s) + 1
  <2>1. n \in DOMAIN s /\ Append(s, e)[n] = s[n]
    BY <1>1, <1>2, <1>6
  <2> QED BY <1>4, <2>1 DEF Join!Increasing
<1> QED BY <1>5, <1>6

-----------------------------------------------------------------------------
(* The invariant that needs no order. *)

LEMMA SideFacts ==
  ASSUME TypeOK
  PROVE  /\ Len(left) \in Nat /\ DOMAIN left = 1..Len(left)
         /\ Len(right) \in Nat /\ DOMAIN right = 1..Len(right)
         /\ i \in Nat /\ j \in Nat /\ iEnd \in Nat /\ jEnd \in Nat /\ a \in Nat /\ b \in Nat
         /\ \A x \in DOMAIN left : left[x] \in Keys \cup {Null}
         /\ \A y \in DOMAIN right : right[y] \in Keys \cup {Null}
BY SeqFacts DEF TypeOK

LEMMA EncodedIsOneToOne ==
  ASSUME NEW k \in Keys, NEW m \in Keys, Encoded(k) = Encoded(m)
  PROVE  k = m
<1>1. k \in Int /\ m \in Int /\ Modulus \in Nat
      /\ -Modulus < 2 * k /\ 2 * k < Modulus /\ -Modulus < 2 * m /\ 2 * m < Modulus
  BY KeysAssumption, ModulusAssumption
<1> QED BY <1>1 DEF Encoded

LEMMA InitIsSound == Init => MInv
<1> SUFFICES ASSUME Init PROVE MInv
  OBVIOUS
<1>1. left \in Seq(Keys \cup {Null}) /\ right \in Seq(Keys \cup {Null})
  <2>1. \A n \in Nat : \A f \in [1..n -> Keys \cup {Null}] : f \in Seq(Keys \cup {Null})
    OBVIOUS
  <2> QED BY <2>1, RowsAssumption DEF Init, Sides
<1>2. TypeOK
  BY <1>1, SeqFacts DEF Init, TypeOK
<1>3. Pairs = {}
  BY DEF Pairs, Join!Emitted, Init
<1>4. Join!Increasing(out)
  BY DEF Join!Increasing, Init
<1> QED BY <1>2, <1>3, <1>4 DEF MInv, RunInv, PairsInv, Init

\* Steps of the scan, which move a pointer and find nothing.
LEMMA MoveStep ==
  ASSUME MInv, SkipLeftNull \/ SkipRightNull \/ AdvanceLeft \/ AdvanceRight \/ Finish
  PROVE  MInv'
<1>1. TypeOK'
  <2>1. UNCHANGED <<left, right, iEnd, jEnd, a, b, out>> /\ pc' \in {"scan", "done"}
    BY DEF SkipLeftNull, SkipRightNull, AdvanceLeft, AdvanceRight, Finish, BothKeyed, Scanning
  <2>2. i' = i \/ (i' = i + 1 /\ i <= Len(left))
    BY DEF SkipLeftNull, SkipRightNull, AdvanceLeft, AdvanceRight, Finish, BothKeyed, Scanning
  <2>3. j' = j \/ (j' = j + 1 /\ j <= Len(right))
    BY DEF SkipLeftNull, SkipRightNull, AdvanceLeft, AdvanceRight, Finish, BothKeyed, Scanning
  <2>4. i' \in 1..Len(left) + 1 /\ j' \in 1..Len(right) + 1
    BY <2>2, <2>3, SideFacts DEF MInv, TypeOK
  <2> QED BY <2>1, <2>4 DEF MInv, TypeOK
<1>2. pc = "scan" /\ pc' \in {"scan", "done"} /\ UNCHANGED <<left, right, out>> /\ i' \in {i, i + 1}
  BY DEF SkipLeftNull, SkipRightNull, AdvanceLeft, AdvanceRight, Finish, BothKeyed, Scanning
<1>3. RunInv'
  BY <1>2 DEF RunInv
<1>4. Pairs' = Pairs /\ Matching' = Matching /\ (Join!Increasing(out))' = Join!Increasing(out)
  BY <1>2 DEF Pairs, Matching, Join!Emitted, Join!Matches, Join!Increasing, Join!Before
<1>5. \A p \in Pairs : p[1] < i /\ p[1] \in Int
  BY <1>2, SideFacts DEF MInv, PairsInv, Matching, Join!Matches
<1>6. PairsInv'
  BY <1>2, <1>4, <1>5, SideFacts DEF MInv, PairsInv
<1> QED BY <1>1, <1>3, <1>6 DEF MInv

LEMMA StartRunStep ==
  ASSUME MInv, StartRun
  PROVE  MInv'
<1>1. TypeOK'
  BY SideFacts DEF MInv, TypeOK, StartRun, BothKeyed, Scanning
<1>2. /\ pc = "scan" /\ pc' = "extendLeft" /\ UNCHANGED <<left, right, out, i, j>>
      /\ i <= Len(left) /\ j <= Len(right) /\ left[i] # Null /\ iEnd' = i + 1 /\ jEnd' = j + 1
  BY DEF StartRun, BothKeyed, Scanning
<1>3. left[i] = right[j]
  <2>1. left[i] \in Keys /\ right[j] \in Keys /\ Encoded(left[i]) = Encoded(right[j])
    BY SideFacts DEF MInv, TypeOK, StartRun, BothKeyed, Scanning
  <2> QED BY <2>1, EncodedIsOneToOne
<1>4. LeftRun' /\ RightRun'
  BY <1>2, <1>3, SideFacts DEF MInv, LeftRun, RightRun
<1>5. RunInv'
  BY <1>2, <1>4 DEF RunInv
<1>6. Pairs' = Pairs /\ Matching' = Matching /\ (Join!Increasing(out))' = Join!Increasing(out)
  BY <1>2 DEF Pairs, Matching, Join!Emitted, Join!Matches, Join!Increasing, Join!Before
<1>7. PairsInv'
  BY <1>2, <1>6 DEF MInv, PairsInv
<1> QED BY <1>1, <1>5, <1>7 DEF MInv

LEMMA ExtendStep ==
  ASSUME MInv, ExtendLeft \/ ExtendRight
  PROVE  MInv'
<1>1. TypeOK'
  <2>1. UNCHANGED <<left, right, i, j, out>> /\ pc' \in {"extendLeft", "extendRight", "emit"}
    BY DEF ExtendLeft, ExtendRight
  <2>2. iEnd' = iEnd \/ (iEnd' = iEnd + 1 /\ iEnd <= Len(left))
    BY DEF ExtendLeft, ExtendRight
  <2>3. jEnd' = jEnd \/ (jEnd' = jEnd + 1 /\ jEnd <= Len(right))
    BY DEF ExtendLeft, ExtendRight
  <2>4. iEnd' \in 1..Len(left) + 1 /\ jEnd' \in 1..Len(right) + 1
    BY <2>2, <2>3, SideFacts DEF MInv, TypeOK
  <2>5. (a' = a \/ a' = i) /\ (b' = b \/ b' = j)
    BY DEF ExtendLeft, ExtendRight
  <2>6. a' \in 1..Len(left) + 1 /\ b' \in 1..Len(right) + 1
    BY <2>5 DEF MInv, TypeOK
  <2> QED BY <2>1, <2>4, <2>6 DEF MInv, TypeOK
<1>2. pc # "emit" /\ UNCHANGED <<left, right, out, i, j>>
  BY DEF ExtendLeft, ExtendRight
<1>3. RunInv'
  <2>0. LeftRun /\ RightRun /\ (pc = "extendRight" => LeftEnds)
    BY DEF MInv, RunInv, ExtendLeft, ExtendRight
  <2>1. CASE ExtendLeft
    BY <1>2, <2>0, <2>1, SideFacts DEF MInv, RunInv, LeftRun, RightRun, LeftEnds, ExtendLeft
  <2>2. CASE ExtendRight /\ jEnd <= Len(right) /\ right[jEnd] = right[j]
    BY <1>2, <2>0, <2>2, SideFacts DEF MInv, RunInv, LeftRun, RightRun, LeftEnds, ExtendRight
  <2>3. CASE ExtendRight /\ ~(jEnd <= Len(right) /\ right[jEnd] = right[j])
    <3>1. pc' = "emit" /\ a' = i /\ b' = j /\ iEnd' = iEnd /\ jEnd' = jEnd /\ pc = "extendRight"
      BY <2>3 DEF ExtendRight
    <3>2. LeftRun' /\ RightRun' /\ LeftEnds'
      BY <1>2, <2>0, <3>1 DEF LeftRun, RightRun, LeftEnds
    <3>3. RightEnds'
      BY <1>2, <2>0, <2>3, <3>1, SideFacts DEF MInv, RightRun, RightEnds
    <3>4. a' \in i'..iEnd' /\ b' \in j'..(jEnd' - 1) /\ (a' = iEnd' => b' = j')
      BY <1>2, <2>0, <3>1, SideFacts DEF MInv, LeftRun, RightRun
    <3> QED BY <3>1, <3>2, <3>3, <3>4 DEF RunInv
  <2> QED BY <2>1, <2>2, <2>3
<1>4. Pairs' = Pairs /\ Matching' = Matching /\ (Join!Increasing(out))' = Join!Increasing(out)
  BY <1>2 DEF Pairs, Matching, Join!Emitted, Join!Matches, Join!Increasing, Join!Before
<1>5. PairsInv'
  BY <1>2, <1>4 DEF MInv, PairsInv
<1> QED BY <1>1, <1>3, <1>5 DEF MInv

\* The pairs of the run before the next <<a, b>> are those before this one, and this one.
LEMMA OfRunGrows ==
  ASSUME MInv, EmitPair
  PROVE  OfRun' = OfRun \cup {<<a, b>>}
<1>1. /\ a \in i..(iEnd - 1) /\ b \in j..(jEnd - 1)
      /\ i' = i /\ j' = j /\ iEnd' = iEnd /\ jEnd' = jEnd
      /\ IF b + 1 < jEnd THEN a' = a /\ b' = b + 1 ELSE a' = a + 1 /\ b' = j
      /\ i \in Int /\ j \in Int /\ iEnd \in Int /\ jEnd \in Int
  BY SideFacts DEF MInv, RunInv, EmitPair
<1>2. \A x \in i..(iEnd - 1), y \in j..(jEnd - 1) :
        Join!Before(<<x, y>>, <<a', b'>>) <=> (Join!Before(<<x, y>>, <<a, b>>) \/ (x = a /\ y = b))
  BY <1>1 DEF Join!Before
<1>3. \A p \in (i..(iEnd - 1)) \X (j..(jEnd - 1)) :
        Join!Before(p, <<a', b'>>) <=> (Join!Before(p, <<a, b>>) \/ p = <<a, b>>)
  <2> TAKE p \in (i..(iEnd - 1)) \X (j..(jEnd - 1))
  <2>1. PICK x \in i..(iEnd - 1), y \in j..(jEnd - 1) : p = <<x, y>>
    OBVIOUS
  <2> QED BY <1>2, <2>1
<1>4. OfRun' = {p \in (i..(iEnd - 1)) \X (j..(jEnd - 1)) : Join!Before(p, <<a', b'>>)}
  BY <1>1 DEF OfRun, Join!Before
<1> QED BY <1>1, <1>3, <1>4 DEF OfRun

\* The pairs found so far come before the one about to be found.
LEMMA NextIsLater ==
  ASSUME MInv, EmitPair, NEW p \in Pairs
  PROVE  Join!Before(p, <<a, b>>)
<1>1. p[1] < i \/ p \in OfRun
  BY DEF MInv, PairsInv
<1>2. p[1] \in Nat /\ i \in Nat /\ a \in Nat
  BY SideFacts DEF MInv, PairsInv, Matching, Join!Matches
<1>3. i <= a
  BY <1>2, SideFacts DEF MInv, RunInv, EmitPair
<1> QED BY <1>1, <1>2, <1>3 DEF OfRun, Join!Before

LEMMA EmittedOne ==
  ASSUME MInv, EmitPair
  PROVE  Pairs' = Pairs \cup {<<a, b>>}
<1> DEFINE S == (DOMAIN left) \X (DOMAIN right)
           e == <<a, b>>
<1>1. out' = Append(out, e)
  BY DEF EmitPair
<1>2. out \in Seq(S)
  BY DEF MInv, TypeOK
<1>3. e \in S
  BY SideFacts DEF MInv, TypeOK, RunInv, LeftRun, RightRun, EmitPair
<1> HIDE DEF S, e
<1>4. Join!Emitted(Append(out, e)) = Join!Emitted(out) \cup {e}
  BY <1>2, <1>3, EmittedAppend
<1> QED BY <1>1, <1>4 DEF Pairs, Join!Emitted, e

LEMMA EmitStep ==
  ASSUME MInv, EmitPair
  PROVE  MInv'
<1> DEFINE S == (DOMAIN left) \X (DOMAIN right)
           e == <<a, b>>
<1>1. /\ pc = "emit" /\ pc' = "emit" /\ out' = Append(out, e)
      /\ UNCHANGED <<left, right, i, j, iEnd, jEnd>>
  BY DEF EmitPair
<1>2. /\ LeftRun /\ RightRun /\ LeftEnds /\ RightEnds
      /\ a \in i..(iEnd - 1) /\ b \in j..(jEnd - 1)
  BY <1>1, SideFacts DEF MInv, RunInv, EmitPair
<1>3. out \in Seq(S) /\ e \in S /\ left[a] = left[i] /\ right[b] = left[i] /\ left[i] # Null
  BY <1>2, SideFacts DEF MInv, TypeOK, LeftRun, RightRun
<1>4. e \in Matching
  BY <1>3 DEF Matching, Join!Matches
<1>5. Matching' = Matching
  BY <1>1 DEF Matching, Join!Matches
<1>6. Pairs' = Pairs \cup {e}
  BY EmittedOne
<1>7. \A p \in Pairs : Join!Before(p, e)
  BY NextIsLater
<1>8. (Join!Increasing(out))'
  <2>1. Join!Increasing(out)
    BY DEF MInv, PairsInv
  <2>2. \A p \in Join!Emitted(out) : Join!Before(p, e)
    BY <1>7 DEF Pairs
  <2> HIDE DEF S, e
  <2>3. Join!Increasing(Append(out, e))
    BY <1>3, <2>1, <2>2, IncreasingAppend
  <2> QED BY <1>1, <2>3 DEF Join!Increasing, Join!Before
<1>9. PairsInv'
  <2>1. \A p \in Pairs' : p[1] < i' \/ p \in OfRun'
    BY <1>1, <1>6, OfRunGrows DEF MInv, PairsInv
  <2>2. Pairs' \subseteq Matching'
    BY <1>4, <1>5, <1>6 DEF MInv, PairsInv
  <2> QED BY <1>1, <1>8, <2>1, <2>2 DEF PairsInv
<1>10. /\ a' \in i'..iEnd' /\ b' \in j'..(jEnd' - 1) /\ (a' = iEnd' => b' = j')
  BY <1>1, <1>2, SideFacts DEF MInv, EmitPair
<1>11. RunInv'
  <2>1. LeftRun' /\ RightRun' /\ LeftEnds' /\ RightEnds'
    BY <1>1, <1>2 DEF LeftRun, RightRun, LeftEnds, RightEnds
  <2> QED BY <1>1, <1>10, <2>1 DEF RunInv
<1>12. TypeOK'
  <2>1. out' \in Seq(S)
    BY <1>1, <1>3, AppendFacts
  <2>2. a' \in 1..(Len(left) + 1) /\ b' \in 1..(Len(right) + 1)
    BY <1>1, <1>10, SideFacts DEF MInv, TypeOK
  <2> QED BY <1>1, <2>1, <2>2 DEF MInv, TypeOK
<1> QED BY <1>9, <1>11, <1>12 DEF MInv

LEMMA EndRunStep ==
  ASSUME MInv, EndRun
  PROVE  MInv'
<1>1. /\ pc = "emit" /\ pc' = "scan" /\ i' = iEnd /\ j' = jEnd /\ a = iEnd
      /\ UNCHANGED <<left, right, out, iEnd, jEnd, a, b>>
  BY DEF EndRun
<1>2. TypeOK'
  BY <1>1 DEF MInv, TypeOK
<1>3. RunInv'
  BY <1>1 DEF RunInv
<1>4. Pairs' = Pairs /\ Matching' = Matching /\ (Join!Increasing(out))' = Join!Increasing(out)
  BY <1>1 DEF Pairs, Matching, Join!Emitted, Join!Matches, Join!Increasing, Join!Before
<1>5. \A p \in Pairs : p[1] < iEnd
  <2> TAKE p \in Pairs
  <2>1. p[1] \in Nat
    BY SideFacts DEF MInv, PairsInv, Matching, Join!Matches
  <2>2. p[1] < i \/ p \in OfRun
    BY DEF MInv, PairsInv
  <2>3. i < iEnd
    BY <1>1 DEF MInv, RunInv, LeftRun
  <2>4. p \in OfRun => p[1] <= iEnd - 1
    BY SideFacts DEF MInv, OfRun
  <2> QED BY <2>1, <2>2, <2>3, <2>4, SideFacts DEF MInv
<1>6. PairsInv'
  BY <1>1, <1>4, <1>5 DEF MInv, PairsInv
<1> QED BY <1>2, <1>3, <1>6 DEF MInv

LEMMA StepIsSound ==
  ASSUME MInv, [Next]_vars
  PROVE  MInv'
<1>1. CASE Next
  BY <1>1, MoveStep, StartRunStep, ExtendStep, EmitStep, EndRunStep DEF Next
<1>2. CASE UNCHANGED vars
  <2>1. Pairs' = Pairs /\ Matching' = Matching /\ OfRun' = OfRun /\ (Join!Increasing(out))' = Join!Increasing(out)
    BY <1>2 DEF vars, Pairs, Matching, OfRun, Join!Emitted, Join!Matches, Join!Increasing, Join!Before
  <2>2. TypeOK'
    BY <1>2 DEF vars, MInv, TypeOK
  <2>3. LeftRun' = LeftRun /\ RightRun' = RightRun /\ LeftEnds' = LeftEnds /\ RightEnds' = RightEnds
    BY <1>2 DEF vars, LeftRun, RightRun, LeftEnds, RightEnds
  <2>4. RunInv'
    BY <1>2, <2>3 DEF vars, MInv, RunInv
  <2>5. PairsInv'
    BY <1>2, <2>1 DEF vars, MInv, PairsInv
  <2> QED BY <2>2, <2>4, <2>5 DEF MInv
<1> QED BY <1>1, <1>2

(***************************************************************************)
(* The pointers stay within the sides and the runs (exec_join_merge.go,    *)
(* mergeJoinInner).                                                        *)
(***************************************************************************)
THEOREM PointersStayInside == Spec => []TypeOK
<1>1. MInv => TypeOK
  BY DEF MInv
<1> QED BY <1>1, InitIsSound, StepIsSound, PTL DEF Spec

(***************************************************************************)
(* For all sides, in whatever order: mergeJoinInner finds only matching    *)
(* pairs and none twice.                                                   *)
(***************************************************************************)
THEOREM OnlyMatches == Spec => []PairsAreMatches
<1>1. MInv => PairsAreMatches
  BY DEF MInv, PairsInv, Pairs, Matching, PairsAreMatches
<1> QED BY <1>1, InitIsSound, StepIsSound, PTL DEF Spec

-----------------------------------------------------------------------------
(* The invariant over sides that rise to every key with a partner: of the  *)
(* matching pairs, the scan has passed the left row of just those whose    *)
(* right row it has passed, and has found them.                            *)

Together == \A p \in Matching : p[1] < i <=> p[2] < j

AllFound ==
  /\ \A p \in Matching : p[1] < i => p \in Pairs
  /\ pc = "emit" => OfRun \subseteq Pairs

EndInv == pc = "done" => i > Len(left) \/ j > Len(right)

CInv == MInv /\ PartnersRise /\ Together /\ AllFound /\ EndInv

LEMMA KeysAreIntegers == \A k \in Keys : k \in Int /\ k # Null
BY KeysAssumption

LEMMA CellFacts ==
  ASSUME NEW s \in Seq(Keys \cup {Null}), NEW x \in DOMAIN s, s[x] # Null
  PROVE  s[x] \in Keys /\ s[x] \in Int
<1>1. s[x] \in Keys
  BY SeqFacts
<1> QED BY <1>1, KeysAreIntegers

\* What stands between two cells of the run that s rises to is the same key.
LEMMA BetweenEquals ==
  ASSUME NEW s \in Seq(Keys \cup {Null}), NEW z \in DOMAIN s, Rises(s, z),
         NEW x \in DOMAIN s, NEW y \in DOMAIN s,
         x < y, y <= z, s[z] = s[x]
  PROVE  s[y] = s[x]
<1>0. x \in Nat /\ y \in Nat /\ z \in Nat
  BY SeqFacts
<1>1. CASE y = z
  BY <1>1
<1>2. CASE y # z
  <2>1. y < z
    BY <1>0, <1>2
  <2> QED BY <2>1 DEF Rises
<1> QED BY <1>1, <1>2

\* No key before the one s rises to has more bytes.
LEMMA EarlierIsNotGreater ==
  ASSUME NEW s \in Seq(Keys \cup {Null}), NEW y \in DOMAIN s, Rises(s, y),
         NEW x \in DOMAIN s, x <= y, s[x] # Null, s[y] # Null
  PROVE  Encoded(s[x]) <= Encoded(s[y])
<1>1. x \in Nat /\ y \in Nat
  BY SeqFacts
<1>2. CASE x = y
  <2>1. Encoded(s[x]) \in Int
    BY CellFacts, ModulusAssumption DEF Encoded
  <2> QED BY <1>2, <2>1
<1>3. CASE x < y
  BY <1>3 DEF Rises
<1> QED BY <1>1, <1>2, <1>3

LEMMA MatchFacts ==
  ASSUME TypeOK, NEW p \in Matching
  PROVE  /\ p[1] \in DOMAIN left /\ p[2] \in DOMAIN right /\ p = <<p[1], p[2]>>
         /\ p[1] \in Nat /\ p[2] \in Nat /\ p[1] <= Len(left) /\ p[2] <= Len(right)
         /\ left[p[1]] # Null /\ left[p[1]] \in Keys /\ right[p[2]] = left[p[1]]
BY SideFacts DEF Matching, Join!Matches

\* While a run is emitted, a pair has its left row in the run just if it has its right row in it.
LEMMA RunBlock ==
  ASSUME CInv, pc = "emit", NEW p \in Matching
  PROVE  p[1] \in i..(iEnd - 1) <=> p[2] \in j..(jEnd - 1)
<1> DEFINE x == p[1]
           y == p[2]
<1>0. /\ TypeOK /\ LeftRun /\ RightRun /\ LeftEnds /\ RightEnds
      /\ Rises(left, x) /\ Rises(right, y)
      /\ left \in Seq(Keys \cup {Null}) /\ right \in Seq(Keys \cup {Null})
  BY DEF CInv, MInv, RunInv, PartnersRise, TypeOK, Matching
<1>1. /\ x \in DOMAIN left /\ y \in DOMAIN right /\ x \in Nat /\ y \in Nat
      /\ x <= Len(left) /\ y <= Len(right) /\ right[y] = left[x]
  BY <1>0, MatchFacts
<1>2. x < i <=> y < j
  BY DEF CInv, Together
<1>3. /\ i \in DOMAIN left /\ j \in DOMAIN right /\ left[i] # Null /\ right[j] = left[i]
      /\ i \in Nat /\ j \in Nat /\ iEnd \in Nat /\ jEnd \in Nat /\ i < iEnd /\ j < jEnd
      /\ DOMAIN left = 1..Len(left) /\ DOMAIN right = 1..Len(right)
      /\ iEnd >= 1 /\ jEnd >= 1 /\ Len(left) \in Nat /\ Len(right) \in Nat
  BY <1>0, SideFacts DEF LeftRun, RightRun, TypeOK
<1> HIDE DEF x, y
<1>4. ASSUME x \in i..(iEnd - 1)
      PROVE  y \in j..(jEnd - 1)
  <2>1. left[x] = left[i] /\ ~(x < i)
    BY <1>0, <1>3, <1>4 DEF LeftRun
  <2> SUFFICES ASSUME jEnd <= y PROVE FALSE
    BY <1>1, <1>2, <1>3, <2>1
  <2>2. jEnd \in DOMAIN right
    BY <1>1, <1>3
  <2>3. right[jEnd] = right[j]
    BY <1>0, <1>1, <1>3, <2>1, <2>2, BetweenEquals
  <2> QED BY <1>0, <1>1, <1>3, <2>3 DEF RightEnds
<1>5. ASSUME y \in j..(jEnd - 1)
      PROVE  x \in i..(iEnd - 1)
  <2>1. left[x] = left[i] /\ ~(y < j)
    BY <1>0, <1>1, <1>3, <1>5 DEF RightRun
  <2> SUFFICES ASSUME iEnd <= x PROVE FALSE
    BY <1>1, <1>2, <1>3, <2>1
  <2>2. iEnd \in DOMAIN left
    BY <1>1, <1>3
  <2>3. left[iEnd] = left[i]
    BY <1>0, <1>1, <1>3, <2>1, <2>2, BetweenEquals
  <2> QED BY <1>0, <1>1, <1>3, <2>3 DEF LeftEnds
<1> QED BY <1>4, <1>5 DEF x, y

\* What no step changes.
LEMMA SidesStay ==
  ASSUME [Next]_vars
  PROVE  left' = left /\ right' = right /\ Matching' = Matching /\ PartnersRise' = PartnersRise
<1>1. left' = left /\ right' = right
  BY Zenon DEF Next, vars, SkipLeftNull, SkipRightNull, AdvanceLeft, AdvanceRight, StartRun, ExtendLeft, ExtendRight,
               EmitPair, EndRun, Finish
<1>2. Matching' = Matching
  BY <1>1 DEF Matching, Join!Matches
<1>3. PartnersRise' = PartnersRise
  BY <1>1 DEF PartnersRise, Rises, Join!Matches
<1> QED BY <1>1, <1>2, <1>3

\* A left row that the scan passes has no partner, and neither has a right row.
LEMMA PassedHasNoPartner ==
  ASSUME CInv, NEW p \in Matching
  PROVE  /\ SkipLeftNull \/ AdvanceLeft => p[1] # i
         /\ SkipRightNull \/ AdvanceRight => p[2] # j
<1>0. /\ TypeOK /\ Rises(left, p[1]) /\ Rises(right, p[2])
      /\ left \in Seq(Keys \cup {Null}) /\ right \in Seq(Keys \cup {Null})
  BY DEF CInv, MInv, PartnersRise, TypeOK, Matching
<1>1. /\ p[1] \in DOMAIN left /\ p[2] \in DOMAIN right /\ p[1] \in Nat /\ p[2] \in Nat
      /\ left[p[1]] # Null /\ left[p[1]] \in Keys /\ right[p[2]] = left[p[1]]
  BY <1>0, MatchFacts
<1>2. p[1] < i <=> p[2] < j
  BY DEF CInv, Together
<1>4. ASSUME BothKeyed
      PROVE  /\ i \in DOMAIN left /\ j \in DOMAIN right /\ i \in Nat /\ j \in Nat
             /\ left[i] # Null /\ right[j] # Null
             /\ Encoded(left[i]) \in Int /\ Encoded(right[j]) \in Int
  <2>1. i \in DOMAIN left /\ j \in DOMAIN right /\ i \in Nat /\ j \in Nat
    BY <1>0, <1>4, SideFacts DEF BothKeyed, Scanning, TypeOK
  <2>2. left[i] # Null /\ right[j] # Null
    BY <1>4 DEF BothKeyed
  <2>3. Encoded(left[i]) \in Int /\ Encoded(right[j]) \in Int
    BY <1>0, <2>1, <2>2, CellFacts, ModulusAssumption DEF Encoded
  <2> QED BY <2>1, <2>2, <2>3
<1>5. ASSUME SkipLeftNull PROVE p[1] # i
  BY <1>1, <1>5 DEF SkipLeftNull
<1>6. ASSUME SkipRightNull PROVE p[2] # j
  BY <1>1, <1>6 DEF SkipRightNull
<1>7. ASSUME AdvanceLeft, p[1] = i PROVE FALSE
  <2>1. BothKeyed /\ Encoded(left[i]) < Encoded(right[j])
    BY <1>7 DEF AdvanceLeft
  <2>2. j <= p[2] /\ right[p[2]] = left[i]
    BY <1>1, <1>2, <1>4, <1>7, <2>1
  <2>3. Encoded(right[j]) <= Encoded(left[i])
    BY <1>0, <1>1, <1>4, <2>1, <2>2, EarlierIsNotGreater
  <2> QED BY <1>4, <2>1, <2>3
<1>8. ASSUME AdvanceRight, p[2] = j PROVE FALSE
  <2>1. BothKeyed /\ Encoded(left[i]) > Encoded(right[j])
    BY <1>8 DEF AdvanceRight
  <2>2. i <= p[1] /\ left[p[1]] = right[j]
    BY <1>1, <1>2, <1>4, <1>8, <2>1
  <2>3. Encoded(left[i]) <= Encoded(right[j])
    BY <1>0, <1>1, <1>4, <2>1, <2>2, EarlierIsNotGreater
  <2> QED BY <1>4, <2>1, <2>3
<1> QED BY <1>5, <1>6, <1>7, <1>8

LEMMA MoveFindsAll ==
  ASSUME CInv, MInv', SkipLeftNull \/ SkipRightNull \/ AdvanceLeft \/ AdvanceRight \/ Finish
  PROVE  CInv'
<1>0. TypeOK /\ pc = "scan" /\ pc' # "emit" /\ out' = out /\ i \in Nat /\ j \in Nat
  BY SideFacts DEF CInv, MInv, SkipLeftNull, SkipRightNull, AdvanceLeft, AdvanceRight, Finish, BothKeyed, Scanning
<1>1. Matching' = Matching /\ PartnersRise' = PartnersRise /\ left' = left /\ right' = right
  BY SidesStay DEF Next
<1>2. Pairs' = Pairs
  BY <1>0 DEF Pairs, Join!Emitted
<1>3. ASSUME NEW p \in Matching
      PROVE  (p[1] < i' <=> p[1] < i) /\ (p[2] < j' <=> p[2] < j)
  <2>1. p[1] \in Nat /\ p[2] \in Nat
    BY <1>0, MatchFacts
  <2>2. CASE SkipLeftNull \/ AdvanceLeft
    BY <1>0, <2>1, <2>2, PassedHasNoPartner DEF SkipLeftNull, AdvanceLeft
  <2>3. CASE SkipRightNull \/ AdvanceRight
    BY <1>0, <2>1, <2>3, PassedHasNoPartner DEF SkipRightNull, AdvanceRight
  <2>4. CASE Finish
    BY <2>4 DEF Finish
  <2> QED BY <2>2, <2>3, <2>4
<1>4. Together'
  BY <1>1, <1>3 DEF CInv, Together
<1>5. AllFound'
  BY <1>0, <1>1, <1>2, <1>3 DEF CInv, AllFound
<1>6. EndInv'
  <2>1. CASE Finish
    BY <1>0, <1>1, <2>1, SideFacts DEF Finish, Scanning, EndInv
  <2>2. CASE ~Finish
    BY <2>2 DEF EndInv, SkipLeftNull, SkipRightNull, AdvanceLeft, AdvanceRight, BothKeyed, Scanning
  <2> QED BY <2>1, <2>2
<1> QED BY <1>1, <1>4, <1>5, <1>6 DEF CInv

LEMMA RunFindsAll ==
  ASSUME CInv, MInv', StartRun \/ ExtendLeft \/ ExtendRight
  PROVE  CInv'
<1>0. pc # "done" /\ pc # "emit" /\ pc' # "done" /\ out' = out /\ i' = i /\ j' = j
  BY DEF StartRun, ExtendLeft, ExtendRight, BothKeyed, Scanning
<1>1. Matching' = Matching /\ PartnersRise' = PartnersRise
  BY SidesStay DEF Next
<1>2. Pairs' = Pairs
  BY <1>0 DEF Pairs, Join!Emitted
<1>3. Together' /\ EndInv'
  BY <1>0, <1>1 DEF CInv, Together, EndInv
<1>4. pc' = "emit" => OfRun' = {}
  <2> SUFFICES ASSUME pc' = "emit", NEW p \in OfRun' PROVE FALSE
    OBVIOUS
  <2>1. a' = i' /\ b' = j'
    BY <1>0 DEF StartRun, ExtendLeft, ExtendRight
  <2>2. p[1] \in i'..(iEnd' - 1) /\ p[2] \in j'..(jEnd' - 1) /\ (p[1] < a' \/ (p[1] = a' /\ p[2] < b'))
    BY DEF OfRun, Join!Before
  <2>3. i' \in Int /\ j' \in Int /\ iEnd' \in Int /\ jEnd' \in Int
    BY <1>0, SidesStay DEF MInv, TypeOK
  <2> QED BY <2>1, <2>2, <2>3
<1>5. AllFound'
  BY <1>0, <1>1, <1>2, <1>4 DEF CInv, AllFound
<1> QED BY <1>1, <1>3, <1>5 DEF CInv

LEMMA EmitFindsAll ==
  ASSUME CInv, MInv', EmitPair
  PROVE  CInv'
<1>0. pc = "emit" /\ pc' = "emit" /\ i' = i /\ j' = j
  BY DEF EmitPair
<1>1. Matching' = Matching /\ PartnersRise' = PartnersRise
  BY SidesStay DEF Next
<1>2. Pairs' = Pairs \cup {<<a, b>>} /\ OfRun' = OfRun \cup {<<a, b>>}
  BY EmittedOne, OfRunGrows DEF CInv
<1>3. Together' /\ EndInv'
  BY <1>0, <1>1 DEF CInv, Together, EndInv
<1>4. AllFound'
  BY <1>0, <1>1, <1>2 DEF CInv, AllFound
<1> QED BY <1>1, <1>3, <1>4 DEF CInv

LEMMA EndRunFindsAll ==
  ASSUME CInv, MInv', EndRun
  PROVE  CInv'
<1>0. /\ pc = "emit" /\ pc' = "scan" /\ a = iEnd /\ i' = iEnd /\ j' = jEnd /\ out' = out
      /\ i \in Nat /\ j \in Nat /\ iEnd \in Nat /\ jEnd \in Nat /\ TypeOK /\ i < iEnd /\ j < jEnd
  BY SideFacts DEF EndRun, CInv, MInv, RunInv, LeftRun, RightRun
<1>1. Matching' = Matching /\ PartnersRise' = PartnersRise
  BY SidesStay DEF Next
<1>2. Pairs' = Pairs
  BY <1>0 DEF Pairs, Join!Emitted
<1>3. ASSUME NEW p \in Matching
      PROVE  /\ p[1] < iEnd <=> p[2] < jEnd
             /\ p[1] < iEnd => p \in Pairs
  <2>1. p[1] \in Nat /\ p[2] \in Nat /\ p = <<p[1], p[2]>>
    BY <1>0, MatchFacts
  <2>2. p[1] \in i..(iEnd - 1) <=> p[2] \in j..(jEnd - 1)
    BY <1>0, RunBlock
  <2>3. p[1] < i <=> p[2] < j
    BY DEF CInv, Together
  <2>4. p[1] < iEnd <=> p[2] < jEnd
    BY <1>0, <2>1, <2>2, <2>3
  <2>5. CASE p[1] < i
    BY <2>4, <2>5 DEF CInv, AllFound
  <2>6. CASE p[1] \in i..(iEnd - 1)
    <3>1. p \in (i..(iEnd - 1)) \X (j..(jEnd - 1)) /\ p[1] < a
      BY <1>0, <2>1, <2>2, <2>6
    <3>2. p \in OfRun
      BY <3>1 DEF OfRun, Join!Before
    <3> QED BY <1>0, <2>4, <3>2 DEF CInv, AllFound
  <2> QED BY <1>0, <2>1, <2>4, <2>5, <2>6
<1>4. Together' /\ AllFound' /\ EndInv'
  BY <1>0, <1>1, <1>2, <1>3 DEF Together, AllFound, EndInv
<1> QED BY <1>1, <1>4 DEF CInv

LEMMA StepFindsAll ==
  ASSUME CInv, [Next]_vars
  PROVE  CInv'
<1>0. MInv'
  BY StepIsSound DEF CInv
<1>1. CASE Next
  BY <1>0, <1>1, MoveFindsAll, RunFindsAll, EmitFindsAll, EndRunFindsAll DEF Next
<1>2. CASE UNCHANGED vars
  <2>1. Matching' = Matching /\ PartnersRise' = PartnersRise
    BY SidesStay
  <2>2. Pairs' = Pairs /\ OfRun' = OfRun
    BY <1>2 DEF vars, Pairs, OfRun, Join!Emitted, Join!Before
  <2>3. Together' /\ AllFound' /\ EndInv'
    BY <1>2, <2>1, <2>2 DEF vars, CInv, Together, AllFound, EndInv
  <2> QED BY <1>0, <2>1, <2>3 DEF CInv
<1> QED BY <1>1, <1>2

LEMMA InitFindsAll ==
  ASSUME Init, PartnersRise
  PROVE  CInv
<1>1. MInv /\ TypeOK
  BY InitIsSound DEF MInv
<1>2. i = 1 /\ j = 1 /\ pc = "scan"
  BY DEF Init
<1>3. \A p \in Matching : ~(p[1] < i) /\ ~(p[2] < j)
  BY <1>1, <1>2, SideFacts, MatchFacts
<1> QED BY <1>1, <1>2, <1>3 DEF CInv, Together, AllFound, EndInv

LEMMA DoneFindsAll ==
  ASSUME CInv, pc = "done" \/ (pc = "scan" /\ ~Scanning)
  PROVE  Matching \subseteq Pairs
<1> SUFFICES ASSUME NEW p \in Matching PROVE p \in Pairs
  OBVIOUS
<1>1. /\ p[1] \in Nat /\ p[2] \in Nat /\ p[1] <= Len(left) /\ p[2] <= Len(right)
      /\ i \in Nat /\ j \in Nat /\ Len(left) \in Nat /\ Len(right) \in Nat
  BY SideFacts, MatchFacts DEF CInv, MInv
<1>2. i > Len(left) \/ j > Len(right)
  BY <1>1 DEF CInv, EndInv, Scanning
<1>3. p[1] < i
  BY <1>1, <1>2 DEF CInv, Together
<1> QED BY <1>3 DEF CInv, AllFound

\* The invariant over all sides.
JInv == MInv /\ (PartnersRise => CInv)

LEMMA InitIsJoined == Init => JInv /\ Join!Init
BY InitIsSound, InitFindsAll DEF JInv, Init, Join!Init

LEMMA StepIsJoined ==
  ASSUME JInv, [Next]_vars
  PROVE  JInv'
<1>1. MInv'
  BY StepIsSound DEF JInv
<1>2. PartnersRise' = PartnersRise
  BY SidesStay
<1>3. PartnersRise => CInv'
  BY StepFindsAll DEF JInv
<1> QED BY <1>1, <1>2, <1>3 DEF JInv

(***************************************************************************)
(* Over all sides that rise to every key with a partner mergeJoinInner     *)
(* finds every pair the hash join finds.                                   *)
(***************************************************************************)
THEOREM RisingIsEnough == Spec => []FindsEveryPair
<1>1. JInv => FindsEveryPair
  BY DoneFindsAll DEF JInv, FindsEveryPair, Matching, Pairs
<1> QED BY <1>1, InitIsJoined, StepIsJoined, PTL DEF Spec

LEMMA EmitImplements ==
  ASSUME CInv, MInv', EmitPair
  PROVE  Join!Emit
<1> DEFINE S == (DOMAIN left) \X (DOMAIN right)
           e == <<a, b>>
<1>0. pc = "emit" /\ pc' = "emit" /\ left' = left /\ right' = right /\ out' = Append(out, e)
  BY DEF EmitPair
<1>1. MInv /\ TypeOK /\ RunInv /\ i \in Nat /\ j \in Nat /\ iEnd \in Nat /\ jEnd \in Nat /\ a \in Nat /\ b \in Nat
  BY SideFacts DEF CInv, MInv
<1>2. out \in Seq(S) /\ e \in S
  BY <1>0, <1>1, SideFacts DEF TypeOK, RunInv, LeftRun, RightRun, EmitPair
<1>3. Len(out) < Len(out') /\ SubSeq(out', 1, Len(out)) = out
  <2> HIDE DEF S, e
  <2>1. Len(out) \in Nat /\ Len(Append(out, e)) = Len(out) + 1 /\ SubSeq(Append(out, e), 1, Len(out)) = out
    BY <1>2, SeqFacts, AppendFacts
  <2> QED BY <1>0, <2>1
<1>4. \A q \in Matching : Join!Before(q, e) => q \in Pairs
  <2> SUFFICES ASSUME NEW q \in Matching, Join!Before(q, e) PROVE q \in Pairs
    OBVIOUS
  <2>1. q[1] \in Nat /\ q[2] \in Nat /\ q = <<q[1], q[2]>> /\ q[1] <= a
    BY <1>1, MatchFacts DEF Join!Before
  <2>2. CASE q[1] < i
    BY <2>2 DEF CInv, AllFound
  <2>3. CASE ~(q[1] < i)
    <3>1. q[1] \in i..(iEnd - 1)
      BY <1>1, <2>1, <2>3 DEF EmitPair
    <3>2. q[2] \in j..(jEnd - 1)
      BY <1>0, <3>1, RunBlock
    <3>3. q \in (i..(iEnd - 1)) \X (j..(jEnd - 1))
      BY <2>1, <3>1, <3>2
    <3>4. q \in OfRun
      BY <3>3 DEF OfRun
    <3> QED BY <1>0, <3>4 DEF CInv, AllFound
  <2> QED BY <2>2, <2>3
<1>5. \A p \in Pairs', q \in Matching : Join!Before(q, p) => q \in Pairs'
  <2> SUFFICES ASSUME NEW p \in Pairs', NEW q \in Matching, Join!Before(q, p) PROVE q \in Pairs
    BY <1>1, EmittedOne
  <2>1. CASE p = e
    BY <1>4, <2>1
  <2>2. CASE p # e
    <3>1. p \in Pairs /\ p \in Matching
      BY <1>1, <2>2, EmittedOne DEF MInv, PairsInv
    <3>2. Join!Before(p, e)
      BY <1>1, <3>1, NextIsLater
    <3>3. /\ p[1] \in Nat /\ p[2] \in Nat /\ q[1] \in Nat /\ q[2] \in Nat
      BY <1>1, <3>1, MatchFacts
    <3>4. Join!Before(q, e)
      BY <1>1, <3>2, <3>3 DEF Join!Before
    <3> QED BY <1>4, <3>4
  <2> QED BY <2>1, <2>2
<1>6. (Join!Increasing(out))' /\ Pairs' \subseteq Matching'
  BY DEF MInv, PairsInv
<1>7. Matching' = Matching
  BY SidesStay DEF Next
<1>8. Join!BeginsJoin(out)'
  BY <1>5, <1>6, <1>7 DEF Join!BeginsJoin, Pairs, Matching
<1> QED BY <1>0, <1>3, <1>8 DEF Join!Emit

LEMMA StepImplements ==
  ASSUME CInv, [Next]_vars
  PROVE  [Join!Next]_(Join!joinVars)
<1>1. CASE EmitPair
  BY <1>1, EmitImplements, StepIsSound DEF CInv, Join!Next
<1>2. CASE Finish
  <2>1. pc = "scan" /\ ~Scanning /\ pc' = "done" /\ UNCHANGED <<left, right, out>>
    BY <1>2 DEF Finish
  <2>2. Pairs = Matching
    BY <2>1, DoneFindsAll DEF CInv, MInv, PairsInv
  <2> QED BY <2>1, <2>2 DEF Join!Next, Join!Finish, Pairs, Matching
<1>3. CASE ~EmitPair /\ ~Finish
  <2>1. UNCHANGED <<left, right, out>>
    BY <1>3 DEF Next, vars, SkipLeftNull, SkipRightNull, AdvanceLeft, AdvanceRight, StartRun, ExtendLeft, ExtendRight,
                EndRun
  <2>2. (pc = "done") <=> (pc' = "done")
    BY <1>3 DEF Next, vars, SkipLeftNull, SkipRightNull, AdvanceLeft, AdvanceRight, StartRun, ExtendLeft, ExtendRight,
                EndRun, BothKeyed, Scanning
  <2> QED BY <2>1, <2>2 DEF Join!joinVars
<1> QED BY <1>1, <1>2, <1>3

(***************************************************************************)
(* Over such sides mergeJoinInner finds the pairs of the hash join in its  *)
(* order: each of its steps is one of the inner join.                      *)
(***************************************************************************)
THEOREM RisingGivesTheJoin == Spec => ImplementsInnerJoin
<1>1. JInv /\ [Next]_vars => StepsOfJoin
  BY StepImplements DEF JInv, StepsOfJoin
<1> QED BY <1>1, InitIsJoined, StepIsJoined, PTL DEF Spec, ImplementsInnerJoin

-----------------------------------------------------------------------------
(* One ascending order of keys that are not negative.                      *)

AscendingSides == SortedByKey(left, FALSE) /\ SortedByKey(right, FALSE) /\ \A k \in Keys : k >= 0

LEMMA AscendingRises ==
  ASSUME NEW s \in Seq(Keys \cup {Null}), SortedByKey(s, FALSE), \A k \in Keys : k >= 0,
         NEW x \in DOMAIN s, s[x] # Null
  PROVE  Rises(s, x)
<1>0. DOMAIN s = 1..Len(s) /\ Len(s) \in Nat
  BY SeqFacts
<1>1. \A k \in Keys : k \in Int /\ Encoded(k) = k
  <2> SUFFICES ASSUME NEW k \in Keys PROVE k \in Int /\ ~(k < 0)
    BY DEF Encoded
  <2>1. k \in Int /\ k >= 0
    BY KeysAreIntegers
  <2> QED BY <2>1
<1>2. ASSUME NEW y \in DOMAIN s, y < x, s[y] # Null
      PROVE  Encoded(s[y]) <= Encoded(s[x])
  <2>1. s[y] <= s[x]
    BY <1>2 DEF SortedByKey, InKeyOrder
  <2> QED BY <1>1, <1>2, <2>1, CellFacts
<1>3. ASSUME NEW y \in DOMAIN s, NEW z \in DOMAIN s, y < z, z < x, s[y] = s[x]
      PROVE  s[z] = s[x]
  <2>1. s[z] # Null
    BY <1>3 DEF SortedByKey, NullsAtEnds
  <2>2. s[y] <= s[z] /\ s[z] <= s[x]
    BY <1>3, <2>1 DEF SortedByKey, InKeyOrder
  <2>3. s[x] \in Int /\ s[z] \in Int
    BY <2>1, CellFacts
  <2> QED BY <1>3, <2>2, <2>3
<1> QED BY <1>2, <1>3 DEF Rises

(***************************************************************************)
(* Sides that are each in one ascending order of keys that are not         *)
(* negative, as a source of one bucket gives them, lose no pair.           *)
(***************************************************************************)
THEOREM AscendingSidesFindEveryPair == Spec /\ AscendingSides => []FindsEveryPairOfAll
<1>1. Init /\ AscendingSides => CInv
  <2> SUFFICES ASSUME Init, AscendingSides PROVE CInv
    OBVIOUS
  <2>1. TypeOK
    BY InitIsSound DEF MInv
  <2>2. ASSUME NEW p \in Matching
        PROVE  Rises(left, p[1]) /\ Rises(right, p[2])
    <3>1. /\ p[1] \in DOMAIN left /\ left[p[1]] # Null
          /\ p[2] \in DOMAIN right /\ right[p[2]] # Null
      BY <2>1, MatchFacts
    <3> QED BY <2>1, <3>1, AscendingRises DEF AscendingSides, TypeOK
  <2> QED BY <2>2, InitFindsAll DEF PartnersRise, Matching
<1>2. CInv /\ [Next]_vars => CInv'
  BY StepFindsAll
<1>3. CInv => FindsEveryPairOfAll
  BY DoneFindsAll DEF FindsEveryPairOfAll, Matching, Pairs
<1> QED BY <1>1, <1>2, <1>3, PTL DEF Spec
=============================================================================
