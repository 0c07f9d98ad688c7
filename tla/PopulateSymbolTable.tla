--------------------- MODULE PopulateSymbolTable ---------------------
(***************************************************************************)
(* The first pass of validate_tree                                         *)
(* (src/pcsh/ir/passes/populate_symbol_table.cpp): a name is entered in    *)
(* the block of its first assignment, unless an open block has it.         *)
(***************************************************************************)
EXTENDS Visitor

VARIABLE
  populated   \* history: the calls <<n, scope>> that returned

Done == populated' = populated \cup {<<N, Top.scope>>}

PopulateBlock ==
  \/ EnterScope(0)  /\ UNCHANGED <<table, populated>>
  \/ NextStatement  /\ UNCHANGED <<table, populated>>
  \/ LeaveScope /\ Done /\ UNCHANGED table

\* A mutant of Known: only the block itself is looked in.
KnownHere(x) == Bound(nested[Len(nested)], x)

\* An open block has the name.
Known(x) == Lookup(x, FALSE).ptr # Null

PopulateAssign ==
  \/ /\ Running({"assign"}, 0)
     /\ IF Known(Var[N]) THEN UNCHANGED table
        ELSE Put(nested[Len(nested)], Var[N], Entry(RightSide, Undet, FALSE))
     /\ Call(1, 0, FALSE)
     /\ UNCHANGED <<nested, populated>>
  \/ /\ Running({"assign"}, 1)
     /\ Return /\ Done /\ UNCHANGED <<table, nested>>

\* A mutant of PopulateIf: the condition is visited, not the body.
PopulateIfCondition ==
  \/ /\ Running({"if_stmt"}, 0)
     /\ Call(1, 0, FALSE) /\ UNCHANGED <<table, nested, populated>>
  \/ /\ Running({"if_stmt"}, 1)
     /\ Return /\ Done /\ UNCHANGED <<table, nested>>

\* Only the body is visited.
PopulateIf ==
  \/ /\ Running({"if_stmt"}, 0)
     /\ Call(2, 0, FALSE) /\ UNCHANGED <<table, nested, populated>>
  \/ /\ Running({"if_stmt"}, 1)
     /\ Return /\ Done /\ UNCHANGED <<table, nested>>

\* The traversal that populate_symbol_table inherits for all other nodes.
PopulateOther ==
  /\ stk # <<>> /\ Kind[N] \in ExprKinds \ {"assign"}
  /\ \/ /\ Top.stage < Len(Kids[N])
        /\ Call(Top.stage + 1, 0, FALSE) /\ UNCHANGED <<table, nested, populated>>
     \/ /\ Top.stage = Len(Kids[N])
        /\ Return /\ Done /\ UNCHANGED <<table, nested>>

PopulateStep ==
  /\ phase = "populate"
  /\ PopulateBlock \/ PopulateAssign \/ PopulateIf \/ PopulateOther
  /\ UNCHANGED <<root, phase, result>>

=============================================================================
