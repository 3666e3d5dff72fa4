------------------------------ MODULE MergeJoin ------------------------------
(***************************************************************************)
(* mergeJoinInner (exec_join_merge.go): the two-pointer scan that replaces *)
(* the hash join when canMergeJoin lets it.                                *)
(*                                                                         *)
(* A side is the list of its rows' keys.  Keys are compared as the bytes   *)
(* of keyOfAppend, big-endian two's complement: that is the order of       *)
(* Encoded(k).  Rows are counted from 1.                                   *)
(*                                                                         *)
(* canMergeJoin looks at the claims of the sides and never at the rows.    *)
(* The scan starts with any two sides of which such claims are true.       *)
(***************************************************************************)
EXTENDS Integers, Sequences

CONSTANTS
  Keys,         \* the values of the key column
  Null,         \* the null cell
  Modulus,      \* 2^w for integers of w bits
  ColumnNames,  \* names of columns, the join keys among them
  HashFns,      \* tags of hash functions
  NoClaim,      \* the nil *PartitionMetadata
  Buckets,      \* the buckets of a source
  MaxRows       \* bound: rows of a side

ASSUME KeysAssumption == Keys \subseteq Int /\ Null \notin Keys
ASSUME ModulusAssumption == Modulus \in Nat /\ \A k \in Keys : -Modulus < 2 * k /\ 2 * k < Modulus
ASSUME RowsAssumption == MaxRows \in Nat

VARIABLES left, right, pc, i, j, iEnd, jEnd, a, b, out
vars == <<left, right, pc, i, j, iEnd, jEnd, a, b, out>>

Encoded(k) == IF k < 0 THEN k + Modulus ELSE k

-----------------------------------------------------------------------------
(***************************************************************************)
(* The claims canMergeJoin accepts.  Lists of columns and of sort keys are *)
(* cut to one: of the sort keys it looks at the first, and a bucket that   *)
(* two columns decide is no bucket of the key.                             *)
(***************************************************************************)
UpToOne(S) == {<<>>} \cup {<<x>> : x \in S}

Claims == {NoClaim} \cup
  [columns : UpToOne(ColumnNames), hashFn : HashFns,
   sortedBy : UpToOne([column : ColumnNames, descending : BOOLEAN]), sortEnforced : BOOLEAN]

AlignedWith(l, r) ==
  /\ l # NoClaim /\ r # NoClaim
  /\ l.columns # <<>> /\ r.columns # <<>>
  /\ l.hashFn = r.hashFn
  /\ l.columns = r.columns

SortedByStartsWith(c, col) == c.sortEnforced /\ c.sortedBy # <<>> /\ c.sortedBy[1].column = col

CanMergeJoin(lm, rm, leftKey, rightKey) ==
  AlignedWith(lm, rm) /\ SortedByStartsWith(lm, leftKey) /\ SortedByStartsWith(rm, rightKey)

\* What mergeJoinInner is called for.
Merged ==
  {m \in [lm : Claims, rm : Claims, leftKey : ColumnNames, rightKey : ColumnNames] :
     CanMergeJoin(m.lm, m.rm, m.leftKey, m.rightKey)}

(***************************************************************************)
(* What the claims say of the rows: buckets are read one after the other,  *)
(* in any order, each sorted by the key, upwards or downwards, with nulls  *)
(* at an end.  The key decides the bucket if it is the column hashed.      *)
(***************************************************************************)
InKeyOrder(k, m, descending) == IF descending THEN m <= k ELSE k <= m

\* A null stands in s only where one of its sides holds nothing but nulls.
NullsAtEnds(s) ==
  \A x, y, z \in DOMAIN s : x < y /\ y < z /\ s[y] = Null => s[x] = Null \/ s[z] = Null

SortedByKey(s, descending) ==
  /\ \A x, y \in DOMAIN s : x < y /\ s[x] # Null /\ s[y] # Null => InKeyOrder(s[x], s[y], descending)
  /\ NullsAtEnds(s)

\* The claim c is true of the side s, whose key column is col.
TrueOf(s, c, col, hash) ==
  \E bucket \in [DOMAIN s -> Buckets] :
    /\ c.columns = <<col>> => \A x \in DOMAIN s : s[x] # Null => bucket[x] = hash[s[x]]
    /\ \A x, y, z \in DOMAIN s : x < y /\ y < z /\ bucket[x] = bucket[z] => bucket[y] = bucket[x]
    /\ \A x, y \in DOMAIN s : bucket[x] = bucket[y] => SortedByKey(SubSeq(s, x, y), c.sortedBy[1].descending)

Sides == UNION {[1..n -> Keys \cup {Null}] : n \in 0..MaxRows}

\* Two sides with true claims that canMergeJoin accepts.
MayBeMerged(l, r) ==
  \E m \in Merged, hash \in [Keys -> Buckets] :
    TrueOf(l, m.lm, m.leftKey, hash) /\ TrueOf(r, m.rm, m.rightKey, hash)

-----------------------------------------------------------------------------
Init ==
  /\ left \in Sides
  /\ right \in {r \in Sides : MayBeMerged(left, r)}
  /\ pc = "scan" /\ i = 1 /\ j = 1 /\ iEnd = 1 /\ jEnd = 1 /\ a = 1 /\ b = 1
  /\ out = <<>>

Scanning == pc = "scan" /\ i <= Len(left) /\ j <= Len(right)

SkipLeftNull ==
  /\ Scanning /\ left[i] = Null
  /\ i' = i + 1
  /\ UNCHANGED <<left, right, pc, j, iEnd, jEnd, a, b, out>>

SkipRightNull ==
  /\ Scanning /\ left[i] # Null /\ right[j] = Null
  /\ j' = j + 1
  /\ UNCHANGED <<left, right, pc, i, iEnd, jEnd, a, b, out>>

BothKeyed == Scanning /\ left[i] # Null /\ right[j] # Null

AdvanceLeft ==
  /\ BothKeyed /\ Encoded(left[i]) < Encoded(right[j])
  /\ i' = i + 1
  /\ UNCHANGED <<left, right, pc, j, iEnd, jEnd, a, b, out>>

\* The step as it would be if the right pointer stayed.
AdvanceRightStays ==
  /\ BothKeyed /\ Encoded(left[i]) > Encoded(right[j])
  /\ UNCHANGED vars

AdvanceRight ==
  /\ BothKeyed /\ Encoded(left[i]) > Encoded(right[j])
  /\ j' = j + 1
  /\ UNCHANGED <<left, right, pc, i, iEnd, jEnd, a, b, out>>

StartRun ==
  /\ BothKeyed /\ Encoded(left[i]) = Encoded(right[j])
  /\ pc' = "extendLeft" /\ iEnd' = i + 1 /\ jEnd' = j + 1
  /\ UNCHANGED <<left, right, i, j, a, b, out>>

ExtendLeft ==
  /\ pc = "extendLeft"
  /\ IF iEnd <= Len(left) /\ left[iEnd] = left[i]
     THEN iEnd' = iEnd + 1 /\ UNCHANGED pc
     ELSE pc' = "extendRight" /\ UNCHANGED iEnd
  /\ UNCHANGED <<left, right, i, j, jEnd, a, b, out>>

\* The right run as it would be one row short, its end not counted.
ExtendRightShort ==
  /\ pc = "extendRight"
  /\ IF jEnd + 1 <= Len(right) /\ right[jEnd] = right[j]
     THEN jEnd' = jEnd + 1 /\ UNCHANGED <<pc, a, b>>
     ELSE pc' = "emit" /\ a' = i /\ b' = j /\ UNCHANGED jEnd
  /\ UNCHANGED <<left, right, i, j, iEnd, out>>

ExtendRight ==
  /\ pc = "extendRight"
  /\ IF jEnd <= Len(right) /\ right[jEnd] = right[j]
     THEN jEnd' = jEnd + 1 /\ UNCHANGED <<pc, a, b>>
     ELSE pc' = "emit" /\ a' = i /\ b' = j /\ UNCHANGED jEnd
  /\ UNCHANGED <<left, right, i, j, iEnd, out>>

\* The cross product as it would be with the right side outermost.
EmitRightMajor ==
  /\ pc = "emit" /\ a < iEnd
  /\ out' = Append(out, <<i + (b - j), j + (a - i)>>)
  /\ IF b + 1 < jEnd THEN a' = a /\ b' = b + 1 ELSE a' = a + 1 /\ b' = j
  /\ UNCHANGED <<left, right, pc, i, j, iEnd, jEnd>>

EmitPair ==
  /\ pc = "emit" /\ a < iEnd
  /\ out' = Append(out, <<a, b>>)
  /\ IF b + 1 < jEnd THEN a' = a /\ b' = b + 1 ELSE a' = a + 1 /\ b' = j
  /\ UNCHANGED <<left, right, pc, i, j, iEnd, jEnd>>

EndRun ==
  /\ pc = "emit" /\ a = iEnd
  /\ pc' = "scan" /\ i' = iEnd /\ j' = jEnd
  /\ UNCHANGED <<left, right, iEnd, jEnd, a, b, out>>

Finish ==
  /\ pc = "scan" /\ ~Scanning
  /\ pc' = "done"
  /\ UNCHANGED <<left, right, i, j, iEnd, jEnd, a, b, out>>

Next ==
  \/ SkipLeftNull \/ SkipRightNull \/ AdvanceLeft \/ AdvanceRight \/ StartRun
  \/ ExtendLeft \/ ExtendRight \/ EmitPair \/ EndRun \/ Finish

Spec == Init /\ [][Next]_vars /\ WF_vars(Next)

-----------------------------------------------------------------------------
Join == INSTANCE InnerJoin WITH done <- pc = "done"

TypeOK ==
  /\ left \in Seq(Keys \cup {Null}) /\ right \in Seq(Keys \cup {Null})
  /\ pc \in {"scan", "extendLeft", "extendRight", "emit", "done"}
  /\ i \in 1..Len(left) + 1 /\ j \in 1..Len(right) + 1
  /\ iEnd \in 1..Len(left) + 1 /\ jEnd \in 1..Len(right) + 1
  /\ a \in 1..Len(left) + 1 /\ b \in 1..Len(right) + 1
  /\ out \in Seq((DOMAIN left) \X (DOMAIN right))

(***************************************************************************)
(* Whatever the order of its sides, the scan pairs only rows with the same *)
(* key that is not null, and no two rows twice: mergeJoinInner can lose    *)
(* pairs, never make them up.                                              *)
(***************************************************************************)
PairsAreMatches == Join!Increasing(out) /\ Join!Emitted(out) \subseteq Join!Matches

(***************************************************************************)
(* The order that the scan needs, and that no test of canMergeJoin gives:  *)
(* on either side a key with a partner stands in one run, and no key with  *)
(* more bytes stands before it.                                            *)
(***************************************************************************)
Rises(s, x) ==
  /\ \A y \in DOMAIN s : y < x /\ s[y] # Null => Encoded(s[y]) <= Encoded(s[x])
  /\ \A y, z \in DOMAIN s : y < z /\ z < x /\ s[y] = s[x] => s[z] = s[x]

PartnersRise == \A p \in Join!Matches : Rises(left, p[1]) /\ Rises(right, p[2])

(***************************************************************************)
(* When the scan ends over sides that rise to every key with a partner, it *)
(* has found every pair that the hash join would find: these are the sides *)
(* for which "a two-pointer merge scan matches every pair" (comment of     *)
(* sortMergeJoinExec), whatever lies between and after those keys.         *)
(***************************************************************************)
FindsEveryPair == pc = "done" /\ PartnersRise => Join!Matches \subseteq Join!Emitted(out)

\* What the comment says of all sides that canMergeJoin lets through: refuted
\* by two buckets, by sides sorted downwards and by keys below zero.
FindsEveryPairOfAll == pc = "done" => Join!Matches \subseteq Join!Emitted(out)

(***************************************************************************)
(* Over such sides every step of the scan is a step of the inner join: it  *)
(* finds the pairs in the order of the hash join, so that either plan      *)
(* gives the same rows.                                                    *)
(***************************************************************************)
StepsOfJoin == PartnersRise => [Join!Next]_(Join!joinVars)
ImplementsInnerJoin == Join!Init /\ [][StepsOfJoin]_vars

\* The scan ends: each iteration of each loop moves a pointer.
Terminates == <>(pc = "done")
=============================================================================
