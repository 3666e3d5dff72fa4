------------------------------ MODULE SeriesOps ------------------------------
(***************************************************************************)
(* Series and the expressions over them, one node at a time: what a node   *)
(* makes of the series its inputs evaluate to.                             *)
(*                                                                         *)
(* A series is a type and its chunks; a chunk is a sequence of cells, a    *)
(* cell Null or <<value>>.  Integers have Word bits, the 32-bit ones       *)
(* HalfWord.  A float is a number of quarters, rounded to a mantissa of at *)
(* most Mantissa: an integer of a larger magnitude need not be one.  A     *)
(* text is a number standing for it, a boolean 0 or 1, a list the sequence *)
(* of its cells, a timestamp a count of its unit.                          *)
(***************************************************************************)
EXTENDS Integers, FiniteSets, SequencesExt, Bitwise

CONSTANTS Word, HalfWord, Mantissa

ASSUME WidthAssumption == /\ {Word, HalfWord, Mantissa} \subseteq Nat \ {0}
                          /\ HalfWord < Word /\ Mantissa < 2 ^ (Word - 1)

Null == <<>>
Unspecified == <<0, 0>>   \* a conversion whose outcome the language leaves open
Whole == 4                \* quarters of 1.0
NaN == 100000
Infinity == 90000

Of(type, cells) == [type |-> type, chunks |-> <<cells>>]
Failed == [type |-> "failed", chunks |-> <<>>]   \* an error is returned
Panics == [type |-> "panic", chunks |-> <<>>]    \* an index is out of range

Cells(s) == FlattenSeq(s.chunks)
Length(s) == Len(Cells(s))
Single(s, type) == s.type = type /\ Len(s.chunks) = 1

ElemType == [list_int64 |-> "int64", list_int32 |-> "int32",
             list_uint32 |-> "uint32", list_float64 |-> "float64",
             list_text |-> "text"]
IsList(type) == type \in DOMAIN ElemType

\* isNumericType, isIntegerType of the planner; isNumeric of a series.
NumericTypes == {"int32", "int64", "float32", "float64", "uint32", "uint64"}
IntegerTypes == {"int32", "int64", "uint32", "uint64"}
Signed == {"int32", "int64"}
IsNumeric(s) == s.type \in {"float64", "float32", "int64", "int32"}

-----------------------------------------------------------------------------
(* Numbers. *)

Wrap(v, bits) == LET m == v % 2 ^ bits
                 IN  IF m >= 2 ^ (bits - 1) THEN m - 2 ^ bits ELSE m

\* The nearest representable float, ties to even.
Nearest(q) ==
    LET size == IF q < 0 THEN -q ELSE q
        step == 2 ^ (CHOOSE k \in 0..20 : /\ size <= Mantissa * 2 ^ k
                                          /\ \A j \in 0..(k - 1) : size > Mantissa * 2 ^ j)
        low == q \div step
        rest == 2 * (q % step)
    IN  step * (IF rest < step \/ (rest = step /\ low % 2 = 0) THEN low ELSE low + 1)
Rounded(q) == IF q \in {NaN, Infinity, -Infinity} THEN q ELSE Nearest(q)

ToFloat(type, v) == IF type \in {"float64", "float32"} THEN v ELSE Rounded(v * Whole)

\* Go's division, and int64(f), are towards zero.
Quotient(a, b) == IF a >= 0 THEN a \div b ELSE -((-a) \div b)
Truncate(q) == Quotient(q, Whole)
FitsIn(v, bits) == -(2 ^ (bits - 1)) <= v /\ v < 2 ^ (bits - 1)
ToInt(q, bits) == IF q \notin {NaN, Infinity, -Infinity} /\ FitsIn(Truncate(q), bits)
                  THEN <<Truncate(q)>> ELSE Unspecified

Divide(a, b) == IF b # 0 THEN IF b > 0 THEN (a * Whole) \div b ELSE (-a * Whole) \div (-b)
                ELSE IF a = 0 THEN NaN ELSE IF a > 0 THEN Infinity ELSE -Infinity

ApplyF64(op, a, b) ==
    IF NaN \in {a, b} THEN NaN
    ELSE Rounded(CASE op = "add" -> a + b
                   [] op = "sub" -> a - b
                   [] op = "mul" -> (a * b) \div Whole
                   [] op = "div" -> Divide(a, b)
                   [] OTHER -> 0)

ApplyI64(op, a, b) ==
    LET Bits(v) == v % 2 ^ Word
    IN  Wrap(CASE op = "add" -> a + b
               [] op = "sub" -> a - b
               [] op = "mul" -> a * b
               [] op = "bitand" -> Bits(a) & Bits(b)
               [] op = "bitor" -> Bits(a) | Bits(b)
               [] op = "bitxor" -> Bits(a) ^^ Bits(b), Word)

ApplyCmp(op, a, b) ==
    IF NaN \in {a, b} THEN op = "ne"
    ELSE CASE op = "eq" -> a = b [] op = "ne" -> a # b
           [] op = "lt" -> a < b [] op = "le" -> a <= b
           [] op = "gt" -> a > b [] op = "ge" -> a >= b

Bool(b) == IF b THEN 1 ELSE 0

Arithmetics == {"add", "sub", "mul", "div"}
Bitwises == {"bitand", "bitor", "bitxor"}
Comparisons == {"eq", "ne", "lt", "le", "gt", "ge"}
Logicals == {"and", "or"}

-----------------------------------------------------------------------------
(* The kernels: F of two rows, Null where either is. *)

Pairwise(a, b, F(_, _)) == [i \in 1..Len(a) |-> IF a[i] = Null \/ b[i] = Null THEN Null
                                           ELSE <<F(a[i][1], b[i][1])>>]

\* Fault: a row is null only when the left operand is.
ArithF64F64LeftNulls(op, a, b) ==
    [i \in 1..Len(a) |-> IF a[i] = Null THEN Null
                         ELSE <<ApplyF64(op, a[i][1], IF b[i] = Null THEN 0 ELSE b[i][1])>>]
ArithF64F64(op, a, b) == Pairwise(a, b, LAMBDA x, y : ApplyF64(op, x, y))
ArithI64I64(op, a, b) == Of("int64", Pairwise(Cells(a), Cells(b), LAMBDA x, y : ApplyI64(op, x, y)))

Each(a, F(_)) == [i \in 1..Len(a) |-> IF a[i] = Null THEN Null ELSE <<F(a[i][1])>>]

\* numericAt of every row.
Numbers(s) == Each(Cells(s), LAMBDA v : ToFloat(s.type, v))

BothInt(a, b) == a.type \in Signed /\ b.type \in Signed

ArithSlow(op, a, b) ==
    LET floats == ArithF64F64(op, Numbers(a), Numbers(b))
    IN  IF op = "div" \/ ~BothInt(a, b) THEN Of("float64", floats)
        ELSE Of("int64", [i \in 1..Len(floats) |->
                             IF floats[i] = Null THEN Null ELSE ToInt(floats[i][1], Word)])

Arith(op, a, b) ==
    IF ~IsNumeric(a) \/ ~IsNumeric(b) \/ Length(a) # Length(b) THEN Failed
    ELSE IF op # "div" /\ Single(a, "int64") /\ Single(b, "int64")
         THEN ArithI64I64(op, a, b)
    ELSE IF Single(a, "float64") /\ Single(b, "float64")
         THEN Of("float64", ArithF64F64(op, Cells(a), Cells(b)))
    ELSE ArithSlow(op, a, b)

BitwiseColCol(op, a, b) ==
    IF Length(a) = Length(b) /\ Single(a, "int64") /\ Single(b, "int64")
    THEN ArithI64I64(op, a, b)
    ELSE Failed

Compared(op, a, b) ==
    IF ~IsNumeric(a) \/ ~IsNumeric(b) \/ Length(a) # Length(b) THEN Failed
    ELSE Of("bool", Pairwise(Numbers(a), Numbers(b), LAMBDA x, y : Bool(ApplyCmp(op, x, y))))

\* Only the first chunks are read: a longer series gives a short result,
\* and a shorter chunk on the right an index out of range.
FirstChunks(a, b, F(_, _)) ==
    IF Length(a) # Length(b) THEN Failed
    ELSE IF a.chunks = <<>> \/ b.chunks = <<>> \/ Len(a.chunks[1]) > Len(b.chunks[1])
         THEN Panics
    ELSE Of("bool", Pairwise(a.chunks[1], b.chunks[1], F))

StringCompare(op, a, b) == FirstChunks(a, b, LAMBDA x, y : Bool((x = y) = (op = "eq")))

BoolBinary(op, a, b) ==
    IF a.type # "bool" \/ b.type # "bool" THEN Failed
    ELSE FirstChunks(a, b, LAMBDA x, y : Bool(IF op = "and" THEN x = 1 /\ y = 1
                                              ELSE x = 1 \/ y = 1))

BoolNot(s) == IF s.type # "bool" THEN Failed
              ELSE IF s.chunks = <<>> THEN Panics
              ELSE Of("bool", Each(s.chunks[1], LAMBDA v : 1 - v))

ApplyBinaryOp(op, a, b) ==
    IF op \in {"eq", "ne"} /\ a.type = "text" /\ b.type = "text" THEN StringCompare(op, a, b)
    ELSE CASE op \in Arithmetics -> Arith(op, a, b)
           [] op \in Bitwises -> BitwiseColCol(op, a, b)
           [] op \in Comparisons -> Compared(op, a, b)
           [] op \in Logicals -> BoolBinary(op, a, b)

(* A column operator literal. *)

CmpScalarF64(op, s, v) == Of("bool", Each(Numbers(s), LAMBDA x : Bool(ApplyCmp(op, x, v))))
ScalarI64(op, s, v) == Of("int64", Each(Cells(s), LAMBDA x : ApplyI64(op, x, v)))

Scalar(op, s, v) ==
    IF ~IsNumeric(s) THEN Failed
    ELSE IF op \in Arithmetics
         THEN Of("float64", Each(Numbers(s), LAMBDA x : ApplyF64(op, x, v)))
    ELSE CmpScalarF64(op, s, v)

\* An operand: a column, or a literal of one cell.
Column(s) == [literal |-> FALSE, s |-> s]
Lit(type, v) == [literal |-> TRUE, s |-> Of(type, <<<<v>>>>)]
Broadcast(operand, rows) ==
    IF operand.literal THEN Of(operand.s.type, [i \in 1..rows |-> Cells(operand.s)[1]])
    ELSE operand.s

HasScalarPath(op) == op \in Arithmetics \cup {"eq", "lt", "gt"}

\* binOpNode.Eval.  The literal passes through float64 on every fast path.
EvalBinary(op, left, right, rows) ==
    LET fast == right.literal /\ ~left.literal
                /\ right.s.type \in {"int32", "int64", "float32", "float64"}
        v == ToFloat(right.s.type, Cells(right.s)[1][1])
        exactInt == (op # "div" /\ right.s.type \in IntegerTypes) \/ op \in Bitwises
    IN  IF fast /\ exactInt /\ Single(left.s, "int64")
            /\ op \in {"add", "sub", "mul"} \cup Bitwises
        THEN ScalarI64(op, left.s, Truncate(v))
        ELSE IF fast /\ HasScalarPath(op) THEN Scalar(op, left.s, v)
        ELSE ApplyBinaryOp(op, Broadcast(left, rows), Broadcast(right, rows))

\* promoteNumeric, promoteForComparison and binOpNode.Type.
PromoteNumeric(l, r) == IF {l, r} \subseteq NumericTypes
                        THEN IF l = "int64" /\ r = "int64" THEN "int64" ELSE "float64"
                        ELSE "failed"
Comparable(l, r) == \/ {l, r} \subseteq NumericTypes
                    \/ l = r /\ l \in {"text", "bool"}

\* Fault: a quotient keeps the type of its operands.
TypeOfBinaryQuotients(op, l, r) ==
    CASE op \in Bitwises -> IF {l, r} \subseteq IntegerTypes THEN "int64" ELSE "failed"
      [] op \in Arithmetics -> PromoteNumeric(l, r)
      [] op \in Comparisons -> IF Comparable(l, r) THEN "bool" ELSE "failed"
      [] op \in Logicals -> IF l = "bool" /\ r = "bool" THEN "bool" ELSE "failed"

TypeOfBinary(op, l, r) ==
    CASE op \in Bitwises -> IF {l, r} \subseteq IntegerTypes THEN "int64" ELSE "failed"
      [] op = "div" -> IF PromoteNumeric(l, r) = "failed" THEN "failed" ELSE "float64"
      [] op \in Arithmetics -> PromoteNumeric(l, r)
      [] op \in Comparisons -> IF Comparable(l, r) THEN "bool" ELSE "failed"
      [] op \in Logicals -> IF l = "bool" /\ r = "bool" THEN "bool" ELSE "failed"

=============================================================================
