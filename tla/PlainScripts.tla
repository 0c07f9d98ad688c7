-------------------------- MODULE PlainScripts --------------------------
(***************************************************************************)
(* Scripts whose assignments are statements, or the right side of one, and *)
(* the inductive invariant behind KindMatchesType and TypesNeverChange.    *)
(* Both fail when an assignment is an operand or a condition (MCKind): a   *)
(* typed_interpreter then assigns a value of the type that it wants, not   *)
(* of the variable's.                                                      *)
(***************************************************************************)
EXTENDS PcshInv

ASSUME PlainAssumption ==
  \A n \in Node : \A k \in DOMAIN Kids[n] :
    Kind[Kids[n][k]] = "assign" => \/ Kind[n] \in {"block", "assign"}
                                   \/ Kind[n] = "if_stmt" /\ k = 2

PureKinds == ExprKinds \ {"assign"}

\* The type of the variable that an assignment in this scope assigns to.
TypeIn(scope, x) == LookupIn(scope, x, FALSE).type

(***************************************************************************)
(* No typed_interpreter runs an assignment; below an expression there are  *)
(* only expressions.                                                       *)
(***************************************************************************)
PureOK ==
  phase = "eval" =>
    \A i \in 1..Len(stk) :
      /\ Kind[stk[i].n] = "assign" => ~stk[i].typed
      /\ Kind[stk[i].n] \in PureKinds => \A j \in i..Len(stk) : Kind[stk[j].n] \in PureKinds

\* The visitor of an assignment computes a value of its variable's type.
AssignVisitsOK ==
  phase = "eval" =>
    \A i \in Owners : Kind[stk[i].n] = "assign" =>
                        vis[Rank(i)].ty = TypeIn(stk[i].scope, Var[stk[i].n])

(***************************************************************************)
(* The two variables of a cascade have one type: the second pass leaves    *)
(* the inner one's in curr_, and compares the outer one's with it.         *)
(***************************************************************************)
Cascade(n) == Kind[n] = "assign" /\ Kind[Kids[n][1]] = "assign"

CascadesOK ==
  /\ \A c \in checked :
       Cascade(c[1]) /\ HasBinding(c[2], Var[c[1]]) /\ HasBinding(c[2], Var[Kids[c[1]][1]]) =>
         TypeIn(c[2], Var[c[1]]) = TypeIn(c[2], Var[Kids[c[1]][1]])
  /\ phase = "check" /\ stk # << >> =>
       (Cascade(N) /\ Top.stage = 1 /\ HasBinding(nested, Var[Kid(1)]) =>
          curr = TypeIn(nested, Var[Kid(1)]))

(***************************************************************************)
(* last_assign_ tells a cascade from an expression: an expression assigns  *)
(* nothing, and what a cascade's right side assigned is of its class.      *)
(***************************************************************************)
SharedOK ==
  phase = "eval" =>
    \A i \in 1..Len(stk) :
      Kind[stk[i].n] = "assign" /\ stk[i].stage = 1 =>
        /\ Kind[Kids[stk[i].n][1]] # "assign" => last.id = stk[i].local
        /\ i = Len(stk) /\ last.id # stk[i].local =>
             last.ptr.kind = ClassOf(TypeIn(stk[i].scope, Var[stk[i].n]))

PlainOK == PureOK /\ AssignVisitsOK /\ CascadesOK /\ SharedOK /\ KindMatchesType

PlainInv == IInv /\ PlainOK

=============================================================================
