-------------------------- MODULE ReferenceInv --------------------------
(***************************************************************************)
(* The inductive invariant behind EntersTheDeclared, EndsAsMeant and       *)
(* ReadsTheChecked.                                                        *)
(***************************************************************************)
EXTENDS Reference, PlainScripts

\* How far in the text the call f has come, and the passes with it.
Reached(f) == IF f.stage = 0 \/ Called(f) = 0 THEN f.n ELSE LastIn[Kids[f.n][Called(f)]] + 1

Upto == IF stk = << >> THEN LastIn[root] + 1 ELSE Reached(Top)

(***************************************************************************)
(* Populate has entered what the text that it has gone through declares.   *)
(***************************************************************************)
DeclaredOK ==
  DOMAIN table = IF phase = "populate" THEN Declared(root, Upto) ELSE Declarations(root)

-----------------------------------------------------------------------------
(***************************************************************************)
(* The type checker has looked at every node, and found the operands fit   *)
(* for the types that they are evaluated at.                               *)
(***************************************************************************)
\* The type of the variable that is meant at n.
TypeAt(n) ==
  IF Having(root, n, Var[n], DOMAIN table) = {} THEN Undet
  ELSE table[Owner(root, n, Var[n], DOMAIN table)].type

IsNumber(n) ==
  \/ Kind[n] \in {"int_constant", "float_constant", "comp_equals"} \cup UnaryKinds \cup BinaryKinds
  \/ Kind[n] = "variable" /\ TypeAt(n) \in {IntType, FloatType}

IsString(n) == Kind[n] = "string_constant" \/ (Kind[n] = "variable" /\ TypeAt(n) = StringType)

Fits(n, ty) == IF ty = StringType THEN IsString(n) ELSE IsNumber(n)

\* What was checked of n.
Sound(n) ==
  /\ Kind[n] \in UnaryKinds \cup BinaryKinds => \A k \in DOMAIN Kids[n] : IsNumber(Kids[n][k])
  /\ Kind[n] = "comp_equals" =>
       /\ Annotation(n) \in ValueTypes
       /\ \A k \in DOMAIN Kids[n] : Fits(Kids[n][k], ComparedAs(Annotation(n)))
  /\ Kind[n] = "if_stmt" /\ Annotation(n) \in ValueTypes => Fits(Kids[n][1], Annotation(n))
  /\ Kind[n] = "assign" /\ Acts(n) => TypeAt(n) \in ValueTypes /\ Fits(Kids[n][1], TypeAt(n))

CheckedNodes == {c[1] : c \in checked}

\* A call of the type checker after the visits of its first children, as many as
\* done: it keeps the type of the left operand.
CallTyped(f, done) ==
  /\ \A k \in 1..done : Kids[f.n][k] \in CheckedNodes
  /\ Kind[f.n] \in BinaryKinds \cup {"comp_equals"} /\ f.stage = 2 =>
       /\ f.local \in TableTypes
       /\ f.local \in ValueTypes => Fits(Kids[f.n][1], f.local)
  /\ Kind[f.n] = "if_stmt" /\ f.stage = 2 => Sound(f.n)

\* The expression that was visited last is of the type curr_.
CurrFits ==
  stk # << >> /\ curr \in ValueTypes =>
    (Called(Top) > 0 /\ Kind[Kid(Called(Top))] \in PureKinds => Fits(Kid(Called(Top)), curr))

NodesOK ==
  /\ CheckedNodes \subseteq root..LastIn[root]
  /\ \A n \in CheckedNodes : Sound(n) /\ \A k \in DOMAIN Kids[n] : Kids[n][k] \in CheckedNodes

CallsOK ==
  \A i \in 1..Len(stk) : CallTyped(stk[i], IF i = Len(stk) THEN Called(stk[i]) ELSE Called(stk[i]) - 1)

TypingOK ==
  phase # "stopped" => NodesOK /\ (phase = "check" => CallsOK /\ CurrFits)

-----------------------------------------------------------------------------
(***************************************************************************)
(* An evaluation follows the course of the script.                         *)
(***************************************************************************)
\* The innermost call of the interpreter itself: all above it are of
\* expressions.
IsDoer(frames, i) == /\ i \in 1..Len(frames) /\ Kind[frames[i].n] \notin PureKinds
                     /\ \A j \in (i + 1)..Len(frames) : Kind[frames[j].n] \in PureKinds

Doer(frames) == CHOOSE i \in 1..Len(frames) : IsDoer(frames, i)

\* An assignment or an if that waits for the value of its expression.
Acting(f) == Acts(f.n) /\ f.stage = 1

\* The node that the evaluation is before, and the states there and at the end.
Spot ==
  IF stk = << >> THEN LastIn[root] + 1
  ELSE IF Acting(stk[Doer(stk)]) THEN stk[Doer(stk)].n
  ELSE Reached(stk[Doer(stk)])

Now == Course(Program)[Spot]
End == Meaning(Program)

ValueOf(n, ty) == Values(Program, Now.mem)[n][ty]

\* The script throws before anything else gets a value.
Doomed == ~End.ok /\ End.mem = Now.mem

\* A cascade = that waits for its inner assignment, and one that saw it: the
\* table does not have all its pairs yet.
Waits(f) == Kind[f.n] = "assign" /\ f.stage = 1 /\ ~Acts(f.n)

Pending ==
  IF stk # << >> /\ Waits(Top) THEN {PairOf(Program, a) : a \in Cascaded(root, N)} ELSE {}

\* The tables hold what has a value by now.
MemoryOK ==
  /\ Now.ok /\ Now.next <= Spot
  /\ Pending \subseteq DOMAIN Now.mem
  /\ \A k \in DOMAIN Now.mem :
       IF k \in Pending THEN Now.mem[k] = last.ptr
       ELSE table[k].evaluated /\ table[k].ptr = Now.mem[k]
  /\ \A k \in DOMAIN table :
       IF runs = 1 THEN table[k].evaluated => k \in DOMAIN Now.mem
       ELSE table[k].evaluated <=> k \in DOMAIN End.mem

\* The types that the call i computes at, and was asked to.
VisitType(i) == vis[Rank(i)].ty
AskedFor(i) == VisitType(i - 1)

\* The visitors compute the values of the expressions.
Computes(f, ty, asked) ==
  /\ asked = Undet => f.stage = 0
  /\ asked # Undet => /\ Spot <= f.n /\ Fits(f.n, asked)
                      /\ ValueOf(f.n, asked) = << >> => Doomed
  /\ Kind[f.n] = "comp_equals" /\ f.stage > 0 => asked = IntType /\ ty = ComparedAs(Annotation(f.n))
  /\ Kind[f.n] \in BinaryKinds \cup {"comp_equals"} /\ f.stage = 2 =>
       ValueOf(Kids[f.n][1], ty) = <<f.local>>

CallValued(f, ty, asked) ==
  /\ Kind[f.n] \in PureKinds => Computes(f, ty, asked)
  /\ Kind[f.n] = "if_stmt" => ty = IF f.stage = 1 THEN Annotation(f.n) ELSE Undet

\* The last visitor has the value of the child that the top call visited last.
LastValued ==
  stk # << >> /\ Top.stage > 0 /\ (Kind[N] \in PureKinds \/ Acting(Top)) =>
    ValueOf(Kid(Top.stage), Visiting.ty) = <<Value>>

ValuesOK ==
  /\ \A i \in 1..Len(stk) : CallValued(stk[i], VisitType(i), AskedFor(i))
  /\ LastValued

\* An outer assignment sees that the inner one has assigned.
SharingOK ==
  /\ \A i \in 1..(Len(stk) - 1) :
       Waits(stk[i]) /\ stk[i + 1].stage = 1 => stk[i].local <= stk[i + 1].local
  /\ stk # << >> /\ Waits(Top) => Top.local < last.id

MeaningOK ==
  /\ phase \in {"populate", "check"} => runs = 0
  /\ phase = "ready" /\ runs = 0 => \A k \in DOMAIN table : ~table[k].evaluated
  /\ EndsAsMeant
  /\ phase = "eval" => runs > 0 /\ MemoryOK /\ ValuesOK /\ SharingOK

=============================================================================
