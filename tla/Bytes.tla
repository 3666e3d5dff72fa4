--------------------------------- MODULE Bytes ---------------------------------
(***************************************************************************)
(* The order of byte strings, as sort.Strings and Go's < have it.          *)
(***************************************************************************)
EXTENDS Naturals, Sequences

BytesLess(a, b) ==
    \E n \in 0..Len(a) :
        /\ n <= Len(b) /\ SubSeq(a, 1, n) = SubSeq(b, 1, n)
        /\ \/ n = Len(a) /\ n < Len(b)
           \/ n < Len(a) /\ n < Len(b) /\ a[n + 1] < b[n + 1]

=============================================================================
