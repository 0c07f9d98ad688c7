--------------------------- MODULE Visitor ---------------------------
(***************************************************************************)
(* Walking a tree (src/pcsh/ir/visitor.cpp).  A pass is a recursion of     *)
(* accept and visit_impl calls; its C++ stack is stk, one frame per        *)
(* visit_impl that is running, and the passes' actions are the code        *)
(* between two of those calls.                                             *)
(***************************************************************************)
EXTENDS SymbolTable

VARIABLES
  root,     \* the root of the tree
  phase,    \* what is running on the tree
  result,   \* how the last call of the library ended
  stk       \* the calls of visit_impl

Phases == {"populate", "check", "ready", "eval", "stopped"}

(***************************************************************************)
(* A call of visit_impl(n): how many of its children it has called accept  *)
(* on (counted from one once a block has entered its scope), one local     *)
(* variable, and whether the visitor is a typed_interpreter.  scope is the *)
(* accessor's list when the call began; no action's guard reads it.        *)
(***************************************************************************)
Frames == [n : Node, stage : Nat, local : Int, typed : BOOLEAN, scope : Seq(Node)]

Frame(n, typed, scope) ==
  [n |-> n, stage |-> 0, local |-> 0, typed |-> typed, scope |-> scope]

Top   == stk[Len(stk)]
N     == Top.n
Kid(k) == Kids[N][k]

\* The top call is one of visit_impl(n) for an n of this kind, at this stage.
Running(kinds, stage) == /\ stk # <<>>
                         /\ Kind[N] \in kinds
                         /\ Top.stage = stage

Below == SubSeq(stk, 1, Len(stk) - 1)

\* The top call, later on: it keeps v in its local variable.
Later(stage, v) ==
  [n |-> N, stage |-> stage, local |-> v, typed |-> Top.typed, scope |-> Top.scope]

\* visit_impl goes on without a call.
Goto(stage, v) == stk' = Append(Below, Later(stage, v))

\* child k ->accept(visitor)
Call(k, v, typed) ==
  stk' = Append(Append(Below, Later(Top.stage + 1, v)), Frame(Kid(k), typed, nested))

Return == stk' = Below

\* block: the scope is entered, the statements are visited, the scope is left.
EnterScope(v) == /\ Running({"block"}, 0)
                 /\ nested' = Append(nested, N)
                 /\ Goto(1, v)

\* A mutant of NextStatement: the list of statements is not advanced.
SameStatement == /\ stk # <<>> /\ Kind[N] = "block"
                 /\ Top.stage \in 1..Len(Kids[N])
                 /\ stk' = Append(stk, Frame(Kid(Top.stage), FALSE, nested))
                 /\ UNCHANGED nested

NextStatement == /\ stk # <<>> /\ Kind[N] = "block"
                 /\ Top.stage \in 1..Len(Kids[N])
                 /\ Call(Top.stage, Top.local, FALSE)
                 /\ UNCHANGED nested

LeaveScope == /\ Running({"block"}, Len(Kids[N]) + 1)
              /\ nested' = SubSeq(nested, 1, Len(nested) - 1)
              /\ Return

=============================================================================
