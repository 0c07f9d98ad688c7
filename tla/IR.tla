------------------------------ MODULE IR ------------------------------
(***************************************************************************)
(* The syntax trees that the parser builds and every pass walks            *)
(* (src/pcsh/ir/nodes.hpp), and the result types (pcsh/result_type.hpp).   *)
(*                                                                         *)
(* All trees of a model are one forest: a node is a number, and the        *)
(* classes' fields are functions of it.  A behaviour works on one tree,    *)
(* named by its root.                                                      *)
(***************************************************************************)
EXTENDS Integers, Sequences

CONSTANTS
  Node,   \* the node objects
  Name,   \* variable names
  Kind,   \* Kind[n]: the class of n
  Kids,   \* Kids[n]: the nodes that the visitors reach from n, in order.
          \* Of an assign, only the right side: its left is its variable.
  Var,    \* Var[n]: the name of a variable, or of the left of an assign
  Lit,    \* Lit[n]: the value of a constant
  Root    \* the roots of the trees, one per script

LeafKinds   == {"variable", "int_constant", "float_constant", "string_constant"}
UnaryKinds  == {"unary_plus", "unary_minus"}
BinaryKinds == {"binary_plus", "binary_minus", "binary_mult", "binary_div"}
ExprKinds   == LeafKinds \cup UnaryKinds \cup BinaryKinds \cup {"assign", "comp_equals"}
NodeKinds   == ExprKinds \cup {"block", "if_stmt"}

(***************************************************************************)
(* What parser_engine builds: every node has the children its class        *)
(* declares, an operand, a right side or a condition is an expression, and *)
(* a script is a block.                                                    *)
(***************************************************************************)
Arity(kind) ==
  IF kind \in LeafKinds THEN 0
  ELSE IF kind \in UnaryKinds \cup {"assign"} THEN 1
  ELSE 2

ASSUME TreeAssumption ==
  /\ Node \subseteq Int
  /\ Kind \in [Node -> NodeKinds]
  /\ Kids \in [Node -> Seq(Node)]
  /\ Var  \in [Node -> Name]
  /\ Lit  \in [Node -> Int]
  /\ Root \subseteq Node
  /\ \A n \in Root : Kind[n] = "block"
  /\ \A n \in Node : Kind[n] # "block" => Len(Kids[n]) = Arity(Kind[n])
  /\ \A n \in Node : Kind[n] \in ExprKinds =>
                       \A k \in DOMAIN Kids[n] : Kind[Kids[n][k]] \in ExprKinds
  /\ \A n \in Node : Kind[n] = "if_stmt" => Kind[Kids[n][1]] \in ExprKinds

-----------------------------------------------------------------------------
(***************************************************************************)
(* Result types, in the order of the enumeration: propagate compares them. *)
(***************************************************************************)
BoolType   == 0
IntType    == 1
FloatType  == 2
StringType == 3
Undet      == 4
Failed     == 5

\* The types a variable's value can have.
ValueTypes == {IntType, FloatType, StringType}

\* propagate with its default maxvalid: the type of an operation on operands of
\* types l and r, none of them below minvalid or above FLOATING.
Propagate(l, r, minvalid) ==
  LET lower  == IF l < r THEN l ELSE r
      higher == IF l < r THEN r ELSE l
  IN  IF lower < minvalid \/ higher > FloatType THEN Failed ELSE higher

=============================================================================
