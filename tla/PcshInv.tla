---------------------------- MODULE PcshInv ----------------------------
(***************************************************************************)
(* The inductive invariant behind AssignmentIsTyped, EvaluatedIsConstant,  *)
(* StatementsRunUnderVoid and TablesOnlyAdvance.                           *)
(***************************************************************************)
EXTENDS Pcsh, FiniteSets

-----------------------------------------------------------------------------
(***************************************************************************)
(* The calls on the stack form a path of the tree, and the accessor's list *)
(* is the blocks on it that were entered.                                  *)
(***************************************************************************)
\* The list inside the call f: with f's own block, once it was entered.
Inside(f) == IF Kind[f.n] = "block" /\ f.stage > 0 THEN Append(f.scope, f.n) ELSE f.scope

\* The child that f called last.
Called(f) == IF Kind[f.n] = "block" THEN f.stage - 1
             ELSE IF Kind[f.n] = "if_stmt" /\ phase = "populate" THEN 2
             ELSE f.stage

Calls(f, g) == /\ f.stage > 0
               /\ Called(f) \in DOMAIN Kids[f.n]
               /\ g.n = Kids[f.n][Called(f)]
               /\ g.scope = Inside(f)

PathOK ==
  /\ stk = << >> => nested = << >>
  /\ stk # << >> => /\ stk[1].n = root /\ stk[1].scope = << >>
                    /\ nested = Inside(Top)
  /\ \A i \in 2..Len(stk) : Calls(stk[i - 1], stk[i])
  /\ \A i \in 1..Len(stk) :
       /\ Kind[stk[i].n] # "block" => stk[i].scope # << >>
       /\ stk[i].typed => Kind[stk[i].n] \in ExprKinds

(***************************************************************************)
(* Every visitor on vis is a local variable of one call on the stack.      *)
(***************************************************************************)
Owns(f) ==
  CASE Kind[f.n] = "block"       -> f.stage > 0
    [] Kind[f.n] = "assign"      -> ~f.typed /\ f.stage > 0
    [] Kind[f.n] = "if_stmt"     -> f.stage = 1
    [] Kind[f.n] = "comp_equals" -> f.stage > 0
    [] OTHER -> FALSE

Owners == {i \in 1..Len(stk) : Owns(stk[i])}

VisitorsOK ==
  IF phase = "eval" THEN Len(vis) = Cardinality(Owners) ELSE vis = << >>

\* The type that a block will give back is one.
SavedOK ==
  phase = "check" =>
    \A i \in 1..Len(stk) : Kind[stk[i].n] = "block" /\ stk[i].stage > 0 => stk[i].local \in TableTypes

\* Between two passes nothing is on the stack.
IdleOK == phase \in {"ready", "stopped"} => stk = << >>

MachineOK == TypeOK /\ PathOK /\ VisitorsOK /\ SavedOK /\ IdleOK

-----------------------------------------------------------------------------
(***************************************************************************)
(* The visitors are those of their owners, in order: a block's is a        *)
(* typed_interpreter<void>, all others compute a value.                    *)
(***************************************************************************)
Rank(i) == Cardinality({j \in Owners : j <= i})

TypesOf(f) == IF Kind[f.n] = "block" THEN {Undet} ELSE ValueTypes

VisitsOK == phase = "eval" => \A i \in Owners : vis[Rank(i)].ty \in TypesOf(stk[i])

(***************************************************************************)
(* The entries of the tables, last_assign_, which points at a constant     *)
(* once it points anywhere, and an assignment in progress, which remembers *)
(* an earlier value of it.                                                 *)
(***************************************************************************)
EntriesOK ==
  \A k \in DOMAIN table :
    /\ table[k].ptr.kind # "null"
    /\ table[k].evaluated => table[k].ptr.kind \in ConstantKinds
    /\ phase \in {"populate", "check"} => ~table[k].evaluated

LastOK ==
  /\ last.id > 0 => last.ptr.kind \in ConstantKinds
  /\ phase = "eval" =>
       \A i \in 1..Len(stk) : Kind[stk[i].n] = "assign" /\ ~stk[i].typed => stk[i].local \in 0..last.id

TablesOK == VisitsOK /\ EntriesOK /\ LastOK

-----------------------------------------------------------------------------
(***************************************************************************)
(* What each pass leaves behind, for all calls <<n, scope>> it completed.  *)
(***************************************************************************)
HasBinding(scope, x) == \E i \in DOMAIN scope : Bound(scope[i], x)
HasType(scope, x)    == LookupIn(scope, x, FALSE).type \in ValueTypes

\* The calls that the interpreter's own visit of <<n, scope>> leads to.
Inner(n, scope) ==
  CASE Kind[n] = "block"   -> {<<Kids[n][k], Append(scope, n)>> : k \in DOMAIN Kids[n]}
    [] Kind[n] = "assign"  -> {<<Kids[n][1], scope>>}
    [] Kind[n] = "if_stmt" -> {<<Kids[n][2], scope>>}
    [] OTHER -> {}

Closed(calls) == \A c \in calls : Inner(c[1], c[2]) \subseteq calls

\* Of those, the ones that the first calls that f made led to.
Returned(f, called) ==
  CASE Kind[f.n] = "block" -> {<<Kids[f.n][k], Append(f.scope, f.n)>> : k \in 1..(called - 1)}
    [] Kind[f.n] = "assign" /\ called = 1 -> {<<Kids[f.n][1], f.scope>>}
    [] Kind[f.n] = "if_stmt" /\ called = (IF phase = "populate" THEN 1 ELSE 2) ->
         {<<Kids[f.n][2], f.scope>>}
    [] OTHER -> {}

\* All calls that have returned to one on the stack are recorded; the last call
\* of one that has another on top of it has not.
ReturnedIn(calls) ==
  \A i \in 1..Len(stk) :
    Returned(stk[i], IF i < Len(stk) THEN stk[i].stage - 1 ELSE stk[i].stage) \subseteq calls

PopulatedOK ==
  /\ Closed(populated)
  /\ \A c \in populated : Kind[c[1]] = "assign" => HasBinding(c[2], Var[c[1]])
  /\ phase = "populate" =>
       /\ ReturnedIn(populated)
       /\ \A i \in 1..Len(stk) :
            Kind[stk[i].n] = "assign" /\ stk[i].stage > 0 => HasBinding(stk[i].scope, Var[stk[i].n])
  /\ (phase # "populate" \/ stk = << >>) => <<root, << >> >> \in populated

CheckedOK ==
  /\ phase = "populate" => checked = {}
  /\ Closed(checked)
  /\ \A c \in checked :
       Kind[c[1]] = "assign" /\ HasBinding(c[2], Var[c[1]]) => HasType(c[2], Var[c[1]])
  /\ phase = "check" => ReturnedIn(checked)
  /\ (phase \in {"ready", "eval"} \/ (phase = "check" /\ stk = << >>)) => <<root, << >> >> \in checked

\* What the interpreter itself visits, both passes have visited alike.
EvaluatedOK ==
  phase = "eval" =>
    \A i \in 1..Len(stk) : ~stk[i].typed => <<stk[i].n, stk[i].scope>> \in populated \cap checked

PassesOK == PopulatedOK /\ CheckedOK /\ EvaluatedOK

IInv == MachineOK /\ TablesOK /\ PassesOK

=============================================================================
