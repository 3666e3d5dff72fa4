------------------------------ MODULE InnerJoin ------------------------------
(***************************************************************************)
(* What an inner join promises of its row pairs: every pair of a left and  *)
(* a right row with the same key that is not null, once, in the order of   *)
(* the left rows and, for one left row, of the right rows.  It is the      *)
(* order in which the hash join of join.go walks the pairs.                *)
(***************************************************************************)
EXTENDS Integers, Sequences

CONSTANT Null

VARIABLES left, right,  \* the key of each row
          out,          \* the pairs found so far
          done
joinVars == <<left, right, out, done>>

Matches == {p \in (DOMAIN left) \X (DOMAIN right) : left[p[1]] # Null /\ left[p[1]] = right[p[2]]}

Before(p, q) == p[1] < q[1] \/ (p[1] = q[1] /\ p[2] < q[2])

Emitted(o) == {o[n] : n \in DOMAIN o}

Increasing(o) == \A m, n \in DOMAIN o : m < n => Before(o[m], o[n])

\* o is the beginning of the list of all pairs.
BeginsJoin(o) ==
  /\ Increasing(o)
  /\ Emitted(o) \subseteq Matches
  /\ \A p \in Emitted(o), q \in Matches : Before(q, p) => q \in Emitted(o)

Init == out = <<>> /\ done = FALSE

Emit ==
  /\ ~done
  /\ Len(out) < Len(out') /\ SubSeq(out', 1, Len(out)) = out
  /\ BeginsJoin(out)'
  /\ UNCHANGED <<left, right, done>>

Finish ==
  /\ ~done
  /\ Emitted(out) = Matches
  /\ done' = TRUE
  /\ UNCHANGED <<left, right, out>>

Next == Emit \/ Finish

Spec == Init /\ [][Next]_joinVars
=============================================================================
