---------------------------- MODULE Values ----------------------------
(***************************************************************************)
(* The values that expressions compute: C++ int, double and cstring.       *)
(*                                                                         *)
(* An int is an integer within MaxNum of zero.  A double is a multiple of  *)
(* one half, written as its double: 3 stands for 1.5.  A string is a       *)
(* natural number, equal strings being equal numbers: 0 is the empty       *)
(* string and NullStr the null pointer.                                    *)
(***************************************************************************)
EXTENDS IR

CONSTANT MaxNum     \* INT_MAX of the model; doubles are bounded alike
ASSUME MaxNumAssumption == MaxNum \in Nat

NullStr == -1

InRange(v) == v \in (-MaxNum - 1)..MaxNum

\* Rounding towards zero, as integer division and a cast from double do.
Quotient(a, b) ==
  LET abs(x) == IF x < 0 THEN -x ELSE x
      q      == abs(a) \div abs(b)
  IN  IF (a < 0) = (b < 0) THEN q ELSE -q

Truncate(double) == Quotient(double, 2)

-----------------------------------------------------------------------------
(***************************************************************************)
(* A symbol table entry's pointer to a node: null, the right side of the   *)
(* assignment that entered the name, or a constant made by an evaluation.  *)
(***************************************************************************)
ConstantKinds == {"int_constant", "float_constant", "string_constant"}
PointerKinds  == ConstantKinds \cup {"null", "expr"}
Pointers      == [kind : PointerKinds, val : Int]

Null           == [kind |-> "null", val |-> 0]
RightSide      == [kind |-> "expr", val |-> 0]
Const(kind, v) == [kind |-> kind, val |-> v]

\* value_() of a typed_interpreter
Initial(ty) == IF ty = StringType THEN NullStr ELSE 0

(***************************************************************************)
(* constant->accept(typed_interpreter<ty>), value_ being old: a constant   *)
(* whose class the visitor does not override leaves value_ as it is.       *)
(***************************************************************************)
Load(ty, c, old) ==
  CASE ty = IntType    /\ c.kind = "int_constant"    -> c.val
    [] ty = IntType    /\ c.kind = "float_constant"  -> Truncate(c.val)
    [] ty = FloatType  /\ c.kind = "int_constant"    -> 2 * c.val
    [] ty = FloatType  /\ c.kind = "float_constant"  -> c.val
    [] ty = StringType /\ c.kind = "string_constant" -> c.val
    [] OTHER -> old

\* A mutant of NewConstant: ints and doubles make the same constant.
NewConstantOfDouble(ty, v) ==
  CASE ty = IntType   -> Const("float_constant", 2 * v)
    [] ty = FloatType -> Const("float_constant", v)
    [] OTHER          -> Const("string_constant", v)

\* The constant that the interpreter's own assignment creates.
NewConstant(ty, v) ==
  CASE ty = IntType   -> Const("int_constant", v)
    [] ty = FloatType -> Const("float_constant", v)
    [] OTHER          -> Const("string_constant", v)

\* The constant that an assignment under an operator creates: int and double
\* share one template, which makes a float_constant of either.
NewTypedConstant(ty, v) ==
  CASE ty = IntType   -> Const("float_constant", 2 * v)
    [] ty = FloatType -> Const("float_constant", v)
    [] OTHER          -> Const("string_constant", v)

-----------------------------------------------------------------------------
(***************************************************************************)
(* left op right in C++.  Exact(op, ty, a, b) says that the result is      *)
(* defined and one of the model's numbers: an int division by zero or an   *)
(* int overflow is undefined in the program, a double that is no multiple  *)
(* of one half, infinite or out of range is only outside the model.        *)
(***************************************************************************)
Compute(op, ty, a, b) ==
  CASE op = "binary_plus"  -> a + b
    [] op = "binary_minus" -> a - b
    [] op = "binary_mult"  -> IF ty = IntType THEN a * b ELSE (a * b) \div 2
    [] op = "binary_div"   -> IF ty = IntType THEN Quotient(a, b) ELSE Quotient(2 * a, b)
    [] op = "unary_minus"  -> -a
    [] op = "unary_plus"   -> a

Exact(op, ty, a, b) ==
  /\ op = "binary_div" => b # 0
  /\ ty = FloatType /\ op = "binary_mult" => (a * b) % 2 = 0
  /\ ty = FloatType /\ op = "binary_div" => Quotient(2 * a, b) * b = 2 * a
  /\ InRange(Compute(op, ty, a, b))

=============================================================================
