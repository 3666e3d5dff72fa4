---------------------------- MODULE MCGroupByPaths ----------------------------
(***************************************************************************)
(* Frames of three rows for the keys, of four for the values.              *)
(***************************************************************************)
EXTENDS GroupByPaths

Columns(type, n, cells) == {[type |-> type, cells |-> c] : c \in [1..n -> cells]}

A == <<97>>
Confusing == <<97, 31, 1, 97>>

TextKeys == {<<k>> : k \in Columns("text", 3, {Null, <<<<>>>>, <<A>>, <<<<0>>>>})}
IntKeys == {<<k>> : k \in Columns("int", 3, {Null, <<-1>>, <<0>>, <<256>>})}
BoolKeys == {<<k>> : k \in Columns("bool", 3, {Null, <<0>>, <<1>>})}
Huge == 70000
FloatKeys == {<<k>> : k \in Columns("float", 3, {Null, <<-2>>, <<2>>, <<3>>, <<Huge>>, <<-Huge>>})}
PairKeys == {<<k, j>> : k \in Columns("text", 2, {Null, <<A>>, <<Confusing>>}),
                        j \in Columns("text", 2, {<<A>>, <<Confusing>>})}
MixedKeys == {<<k, j>> : k \in Columns("text", 2, {Null, <<A>>}),
                         j \in Columns("int", 2, {Null, <<0>>, <<31>>})}

Triples == {[type |-> t, cells |-> <<<<2>>, Null, <<4>>>>] : t \in {"int", "int8"}}
Double == [type |-> "int", cells |-> <<<<2>>, <<4>>>>]
Steady == [type |-> "int", cells |-> <<<<7>>, <<7>>, <<7>>, <<7>>>>]

MCInputs ==
    {[keys |-> k, value |-> v] :
        k \in TextKeys \cup IntKeys \cup BoolKeys \cup FloatKeys, v \in Triples}
    \cup {[keys |-> k, value |-> Double] : k \in PairKeys \cup MixedKeys}
    \cup {[keys |-> <<Steady>>, value |-> v] :
              v \in Columns("int", 4, {Null, <<1>>, <<2>>, <<4>>})
                       \cup Columns("float", 4, {<<2>>, <<3>>})
                       \cup Columns("text", 4, {Null, <<A>>, <<Confusing>>})}

MCBatchSizes == {1, 3}

=============================================================================
