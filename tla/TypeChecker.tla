------------------------- MODULE TypeChecker -------------------------
(***************************************************************************)
(* The second pass of validate_tree (src/pcsh/ir/passes/type_checker.cpp): *)
(* it gives every name the type of its first assignment, annotates the     *)
(* conditions and comparisons with the type they are evaluated at, and     *)
(* rejects the tree with a type_checker_error.                             *)
(***************************************************************************)
EXTENDS Visitor

VARIABLES
  curr,      \* curr_: the type of the expression visited last
  anntype,   \* cond_ty_ of the if_stmts and comp_ty_ of the comp_equals set so far
  checked    \* history: the calls <<n, scope>> that returned

Annotation(n) == IF n \in DOMAIN anntype THEN anntype[n] ELSE Undet

Annotate(n, ty) ==
  anntype' = [m \in DOMAIN anntype \cup {n} |-> IF m = n THEN ty ELSE anntype[m]]

\* throw type_checker_error: the pass is gone, and with it its list of tables.
Reject ==
  /\ phase' = "stopped" /\ result' = "rejected"
  /\ stk' = <<>> /\ nested' = <<>>
  /\ UNCHANGED <<table, checked>>

Checked == /\ Return
           /\ checked' = checked \cup {<<N, Top.scope>>}
           /\ UNCHANGED <<phase, result>>

\* Visit child k next, keeping v.
CheckChild(k, v) == /\ Call(k, v, FALSE)
                    /\ UNCHANGED <<table, nested, phase, result, anntype, checked>>

\* The type of a constant or of the nearest variable of the name.
CheckLeaf ==
  /\ Running(LeafKinds, 0)
  /\ curr' = CASE Kind[N] = "int_constant"    -> IntType
               [] Kind[N] = "float_constant"  -> FloatType
               [] Kind[N] = "string_constant" -> StringType
               [] Kind[N] = "variable"        -> Lookup(Var[N], FALSE).type
  /\ Checked /\ UNCHANGED <<table, nested, anntype>>

\* A mutant of Conclude: FAILED is not tested for.
ConcludeAlways(ty) == curr' = ty /\ Checked /\ UNCHANGED <<table, nested>>

\* The visit ends with type ty, or throws if that is FAILED.
Conclude(ty) ==
  IF ty = Failed
    THEN Reject /\ UNCHANGED curr
    ELSE curr' = ty /\ Checked /\ UNCHANGED <<table, nested>>

CheckUnary ==
  \/ Running(UnaryKinds, 0) /\ CheckChild(1, 0) /\ UNCHANGED curr
  \/ /\ Running(UnaryKinds, 1)
     /\ Conclude(Propagate(curr, BoolType, BoolType))
     /\ UNCHANGED anntype

\* The operands of every operator but `/' may be BOOLEAN.
MinValid == IF Kind[N] = "binary_div" THEN IntType ELSE BoolType

OperationType(l, r) ==
  LET ty == Propagate(l, r, MinValid) IN IF ty = BoolType THEN IntType ELSE ty

CheckBinary ==
  \/ Running(BinaryKinds, 0) /\ CheckChild(1, 0) /\ UNCHANGED curr
  \/ Running(BinaryKinds, 1) /\ CheckChild(2, curr) /\ UNCHANGED curr
  \/ /\ Running(BinaryKinds, 2)
     /\ Conclude(OperationType(Top.local, curr))
     /\ UNCHANGED anntype

\* The type that two operands are compared at, FAILED if they cannot be.
ComparisonType(l, r) ==
  IF StringType \in {l, r}
    THEN IF l = r THEN StringType ELSE Failed
    ELSE Propagate(l, r, BoolType)

CheckEquals ==
  \/ Running({"comp_equals"}, 0) /\ CheckChild(1, 0) /\ UNCHANGED curr
  \/ Running({"comp_equals"}, 1) /\ CheckChild(2, curr) /\ UNCHANGED curr
  \/ /\ Running({"comp_equals"}, 2)
     /\ Annotate(N, IF StringType \in {Top.local, curr} THEN StringType
                    ELSE ComparisonType(Top.local, curr))
     /\ Conclude(IF ComparisonType(Top.local, curr) = Failed THEN Failed ELSE IntType)

\* The value's type is unknown, or not the variable's.
IllTypedIfUnknown(sym) == curr = Undet   \* a mutant of IllTyped
IllTyped(sym) == curr = Undet \/ sym.type \notin {Undet, curr}

\* A mutant of GiveType: the entry is marked evaluated.
GiveTypeAndMark(sym) ==
  IF sym.type = Undet THEN Set(Var[N], Entry(sym.ptr, curr, TRUE)) ELSE UNCHANGED table

\* A variable without a type gets the value's.
GiveType(sym) ==
  IF sym.type = Undet THEN Set(Var[N], Entry(sym.ptr, curr, FALSE)) ELSE UNCHANGED table

CheckAssign ==
  \/ Running({"assign"}, 0) /\ CheckChild(1, 0) /\ UNCHANGED curr
  \/ /\ Running({"assign"}, 1)
     /\ LET sym == Lookup(Var[N], FALSE)
        IN  IF IllTyped(sym) THEN Reject
            ELSE GiveType(sym) /\ Checked /\ UNCHANGED nested
     /\ UNCHANGED <<curr, anntype>>

CheckIf ==
  \/ Running({"if_stmt"}, 0) /\ CheckChild(1, 0) /\ UNCHANGED curr
  \/ /\ Running({"if_stmt"}, 1)
     /\ Annotate(N, curr)
     /\ Call(2, 0, FALSE)
     /\ UNCHANGED <<curr, table, nested, phase, result, checked>>
  \/ /\ Running({"if_stmt"}, 2)
     /\ Checked /\ UNCHANGED <<curr, table, nested, anntype>>

\* A block gives its caller's type back.
CheckBlock ==
  /\ \/ EnterScope(curr) /\ curr' = Undet /\ UNCHANGED <<phase, result, checked>>
     \/ NextStatement /\ UNCHANGED <<curr, phase, result, checked>>
     \/ LeaveScope /\ curr' = Top.local /\ Checked
  /\ UNCHANGED <<table, anntype>>

CheckStep ==
  /\ phase = "check"
  /\ CheckLeaf \/ CheckUnary \/ CheckBinary \/ CheckEquals
     \/ CheckAssign \/ CheckIf \/ CheckBlock
  /\ UNCHANGED root

=============================================================================
