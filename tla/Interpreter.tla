------------------------- MODULE Interpreter -------------------------
(***************************************************************************)
(* Executing a validated tree (src/pcsh/execution/interpreter.cpp).  The   *)
(* interpreter runs the statements; an expression is computed by a         *)
(* typed_interpreter of the type the expression is wanted at.              *)
(***************************************************************************)
EXTENDS TypeChecker

CONSTANT NDEBUG     \* whether PCSH_ASSERT is compiled out
ASSUME BuildAssumption == NDEBUG \in BOOLEAN

VARIABLES
  vis,    \* the typed_interpreters alive, each with its value_; the last one
          \* is the one that visits expressions, curr_visitor_ of a statement
  last    \* last_assign_: the constant assigned last, and its identity as the
          \* number of constants assigned before it, itself included

\* typed_interpreter<void>, the visitor of the statements of a block
VoidVisitor == [ty |-> Undet, val |-> 0]
Visitors    == [ty : ValueTypes \cup {Undet}, val : Int]

Visiting  == vis[Len(vis)]
Value     == Visiting.val
OuterVis  == SubSeq(vis, 1, Len(vis) - 1)
NewVisitor(ty) == vis' = Append(vis, [ty |-> ty, val |-> Initial(ty)])
SetValue(v)    == vis' = Append(OuterVis, [Visiting EXCEPT !.val = v])

(***************************************************************************)
(* How a call of evaluate may end early.  An exception unwinds it and      *)
(* reaches the caller, who keeps the tree; assert_fail aborts the program; *)
(* after undefined behaviour nothing more is said of it.                   *)
(***************************************************************************)
Unwind(next, why) ==
  /\ phase' = next /\ result' = why
  /\ stk' = <<>> /\ nested' = <<>> /\ vis' = <<>>
  /\ UNCHANGED <<table, last>>

Throw(why) == Unwind("ready", why)
Die        == Unwind("stopped", "assertion failed")
Undefined  == Unwind("stopped", "undefined behaviour")

\* An operation whose result Exact rules out.
Inexact ==
  IF Visiting.ty = FloatType
    THEN Unwind("stopped", "outside the model's doubles")
    ELSE Undefined

Going == UNCHANGED <<phase, result>>

-----------------------------------------------------------------------------
(***************************************************************************)
(* The typed_interpreters.  Frames of theirs are typed, and so is the      *)
(* frame of an expression that the interpreter hands to curr_visitor_.     *)
(***************************************************************************)
Typed == stk # <<>> /\ (Top.typed \/ Kind[N] # "assign") /\ Visiting.ty # Undet

\* An expression statement is visited by typed_interpreter<void>: nothing.
SkipExpression ==
  /\ Running(ExprKinds \ {"assign"}, 0) /\ Visiting.ty = Undet
  /\ Return /\ Going /\ UNCHANGED <<table, nested, vis, last>>

EvalConstant ==
  /\ Running(ConstantKinds, 0) /\ Typed
  /\ SetValue(Load(Visiting.ty, Const(Kind[N], Lit[N]), Value))
  /\ Return /\ Going /\ UNCHANGED <<table, nested, last>>

\* The nearest evaluated entry of the name is read.
EvalVariable ==
  /\ Running({"variable"}, 0) /\ Typed
  /\ LET res == Lookup(Var[N], TRUE)
     IN  IF res.evaluated
           THEN /\ SetValue(Load(Visiting.ty, res.ptr, Value))
                /\ Return /\ Going /\ UNCHANGED <<table, nested, last>>
           ELSE Throw("used before assigned")

EvalChild(k, v) == /\ Call(k, v, TRUE)
                   /\ Going /\ UNCHANGED <<table, nested, vis, last>>

\* The visit ends with the result of op on a and b.
Finish(op, a, b) ==
  IF Exact(op, Visiting.ty, a, b)
    THEN /\ SetValue(Compute(op, Visiting.ty, a, b))
         /\ Return /\ Going /\ UNCHANGED <<table, nested, last>>
    ELSE Inexact

\* typed_interpreter<cstring> inherits the traversal of an operator's operands.
KeepValue == /\ Return /\ Going /\ UNCHANGED <<table, nested, vis, last>>

EvalUnary ==
  \/ Running(UnaryKinds, 0) /\ Typed /\ EvalChild(1, 0)
  \/ /\ Running(UnaryKinds, 1) /\ Typed
     /\ IF Visiting.ty = StringType THEN KeepValue
        ELSE Finish(Kind[N], Value, Value)

EvalBinary ==
  \/ Running(BinaryKinds, 0) /\ Typed /\ EvalChild(1, 0)
  \/ Running(BinaryKinds, 1) /\ Typed /\ EvalChild(2, Value)
  \/ /\ Running(BinaryKinds, 2) /\ Typed
     /\ IF Visiting.ty = StringType THEN KeepValue
        ELSE Finish(Kind[N], Top.local, Value)

\* The visitor that compare_eq compares with: ints and doubles are both
\* compared as int.
ComparedAs(ty) == IF ty = FloatType THEN IntType ELSE ty

\* A mutant of BeginEquals: every typed_interpreter has a value for `=='.
BeginEqualsAnyway ==
  /\ Running({"comp_equals"}, 0) /\ Typed
  /\ NewVisitor(ComparedAs(Annotation(N)))
  /\ Call(1, 0, TRUE) /\ Going /\ UNCHANGED <<table, nested, last>>

\* Only typed_interpreter<int> has a value for `=='.
BeginEquals ==
  /\ Running({"comp_equals"}, 0) /\ Typed
  /\ IF Visiting.ty # IntType THEN Throw("invalid use of ==")
     ELSE IF Annotation(N) \in ValueTypes
       THEN /\ NewVisitor(ComparedAs(Annotation(N)))
            /\ Call(1, 0, TRUE) /\ Going /\ UNCHANGED <<table, nested, last>>
     ELSE IF NDEBUG
       THEN /\ SetValue(0)
            /\ Return /\ Going /\ UNCHANGED <<table, nested, last>>
     ELSE Die

EndEquals ==
  /\ Running({"comp_equals"}, 2)
  /\ IF Visiting.ty = StringType /\ NullStr \in {Top.local, Value}
       THEN Undefined
       ELSE /\ vis' = Append(SubSeq(vis, 1, Len(vis) - 2),
                             [vis[Len(vis) - 1] EXCEPT !.val = IF Top.local = Value THEN 1 ELSE 0])
            /\ Return /\ Going /\ UNCHANGED <<table, nested, last>>

EvalEquals ==
  \/ BeginEquals
  \/ Running({"comp_equals"}, 1) /\ EvalChild(2, Value)
  \/ EndEquals

\* An assignment under an operator or in a condition: a variable that already
\* has a value is read instead.
BeginTypedAssign ==
  /\ Running({"assign"}, 0) /\ Typed
  /\ LET res == Lookup(Var[N], FALSE)
     IN  IF res.evaluated
           THEN /\ SetValue(Load(Visiting.ty, res.ptr, Value))
                /\ Return /\ Going /\ UNCHANGED <<table, nested, last>>
           ELSE EvalChild(1, 0)

EndTypedAssign ==
  /\ Running({"assign"}, 1) /\ Typed
  /\ IF Visiting.ty = StringType /\ Value = NullStr
       THEN Undefined
       ELSE /\ Set(Var[N], Entry(NewTypedConstant(Visiting.ty, Value), Visiting.ty, TRUE))
            /\ Return /\ Going /\ UNCHANGED <<nested, vis, last>>

-----------------------------------------------------------------------------
(***************************************************************************)
(* The interpreter: blocks, if statements and assignments that are         *)
(* statements or the right side of one.                                    *)
(***************************************************************************)
EvalBlock ==
  /\ \/ EnterScope(0) /\ vis' = Append(vis, VoidVisitor)
     \/ NextStatement /\ UNCHANGED vis
     \/ LeaveScope /\ vis' = OuterVis
  /\ Going /\ UNCHANGED <<table, last>>

Statement(kind, stage) == Running({kind}, stage) /\ ~Top.typed

BeginAssign ==
  /\ Statement("assign", 0)
  /\ LET outty == Lookup(Var[N], FALSE).type
     IN  IF outty \in ValueTypes
           THEN /\ NewVisitor(outty)
                /\ Call(1, last.id, FALSE)
                /\ Going /\ UNCHANGED <<table, nested, last>>
           ELSE Die

\* oldlastasgn != last_assign_: the right side was an assignment itself, and its
\* constant is shared.
NeverCascading == FALSE   \* a mutant of Cascading: the test is missing
Cascading == last.id # Top.local

NewValue == IF Cascading THEN last.ptr ELSE NewConstant(Visiting.ty, Value)

\* A mutant of NewEntry: a cascade sets the entry with the default arguments.
NewEntryByDefault == IF Cascading THEN Entry(NewValue, Undet, FALSE)
                     ELSE Entry(NewValue, Visiting.ty, TRUE)
NewEntry == Entry(NewValue, Visiting.ty, TRUE)

\* assign_done_cleanup
\* A mutant of Cleanup: a cascade returns instead of jumping to it.
CleanupUnlessCascading == vis' = IF Cascading THEN vis ELSE OuterVis
Cleanup == vis' = OuterVis

EndAssign ==
  /\ Statement("assign", 1)
  /\ IF ~Cascading /\ Visiting.ty = StringType /\ Value = NullStr
       THEN Undefined
       ELSE /\ Set(Var[N], NewEntry)
            /\ last' = IF Cascading THEN last ELSE [id |-> last.id + 1, ptr |-> NewValue]
            /\ Cleanup
            /\ Return /\ Going /\ UNCHANGED nested

BeginIf ==
  /\ Statement("if_stmt", 0)
  /\ IF Annotation(N) \in ValueTypes
       THEN /\ NewVisitor(Annotation(N))
            /\ Call(1, 0, TRUE)
            /\ Going /\ UNCHANGED <<table, nested, last>>
     ELSE IF NDEBUG
       THEN Return /\ Going /\ UNCHANGED <<table, nested, vis, last>>
     ELSE Die

\* The body runs if the condition is not zero, not the empty string.
DecideIf ==
  /\ Statement("if_stmt", 1)
  /\ IF Visiting.ty = StringType /\ Value = NullStr
       THEN Undefined
       ELSE /\ vis' = OuterVis
            /\ IF Value # 0 THEN Call(2, 0, FALSE) ELSE Return
            /\ Going /\ UNCHANGED <<table, nested, last>>

EndIf == /\ Statement("if_stmt", 2)
         /\ Return /\ Going /\ UNCHANGED <<table, nested, vis, last>>

EvalStep ==
  /\ phase = "eval"
  /\ \/ SkipExpression \/ EvalConstant \/ EvalVariable \/ EvalUnary \/ EvalBinary
     \/ EvalEquals \/ BeginTypedAssign \/ EndTypedAssign
     \/ EvalBlock \/ BeginAssign \/ EndAssign \/ BeginIf \/ DecideIf \/ EndIf
  /\ UNCHANGED <<root, curr, anntype, checked>>

=============================================================================
