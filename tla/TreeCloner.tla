-------------------------- MODULE TreeCloner --------------------------
(***************************************************************************)
(* clone, which copies a tree (src/pcsh/ir/ops/tree_cloner.cpp).           *)
(*                                                                         *)
(* A visit_impl is an operator from the members of the cloner to what they *)
(* are when it returns: cloned is cloned_, the node made last; out is      *)
(* out_stmts_; root is << >> while root_ is null and else the block that   *)
(* it points to, with its statements and the types in its table.  curr_ is *)
(* the argument in.  A node is written <<class, name, value, type, nodes>>.*)
(***************************************************************************)
EXTENDS Pcsh

NullNode == << "null", "x", 0, Undet, << >> >>
NewBlock == [stmts |-> << >>, types |-> << >>]

\* The copy of n, with these children.  comp_ty_ is not copied.
Copy(n, kids) ==
  <<Kind[n], Var[n], Lit[n], IF Kind[n] = "if_stmt" THEN Annotation(n) ELSE Undet, kids>>

\* symbol_table::set in the table of root_, with the type in curr_'s own table.
SetName(root1, in, x) ==
  LET types == root1[1].types
  IN  << [root1[1] EXCEPT !.types = [y \in DOMAIN types \cup {x} |->
                                       IF y = x THEN At(in, x).type ELSE types[y]]] >>

\* A mutant of LeaveBlock: root_ is not set back.
LeaveBlockAsRoot(c, new) == [c EXCEPT !.root = <<new>>]

\* All members are as they were, but that the outermost block stays in root_.
LeaveBlock(c, new) == [c EXCEPT !.root = IF c.root = << >> THEN <<new>> ELSE c.root]

RECURSIVE Clone(_, _, _), CloneStatements(_, _, _)

\* visit_block_postcbk: after each statement, cloned_ is one of the copies.
CloneStatements(ns, in, c) ==
  IF ns = << >> THEN c
  ELSE LET next == Clone(Head(ns), in, c)
       IN  CloneStatements(Tail(ns), in, [next EXCEPT !.out = Append(@, next.cloned)])

Clone(n, in, c) ==
  LET first == Clone(Kids[n][1], in, c)
      both  == Clone(Kids[n][2], in, first)
      made  == [first EXCEPT !.cloned = Copy(n, <<first.cloned>>)]
      inner == CloneStatements(Kids[n], n, [cloned |-> NullNode, out |-> << >>, root |-> <<NewBlock>>])
  IN  CASE Kind[n] \in LeafKinds  -> [c EXCEPT !.cloned = Copy(n, << >>)]
        [] Kind[n] \in UnaryKinds -> made
        [] Kind[n] = "assign"     -> [made EXCEPT !.root = SetName(@, in, Var[n])]
        [] Kind[n] = "block"      -> LeaveBlock(c, [inner.root[1] EXCEPT !.stmts = inner.out])
        [] OTHER                  -> [both EXCEPT !.cloned = Copy(n, <<first.cloned, both.cloned>>)]

\* clone(tree): the new root.
ClonedTree == Clone(root, root, [cloned |-> NullNode, out |-> << >>, root |-> << >>]).root[1]

-----------------------------------------------------------------------------
RECURSIVE TreeOf(_), Assigns(_), HasBlock(_)
TreeOf(n) == Copy(n, [k \in DOMAIN Kids[n] |-> TreeOf(Kids[n][k])])

HasBlock(n) == Kind[n] = "block" \/ \E k \in DOMAIN Kids[n] : HasBlock(Kids[n][k])

\* The names that n assigns, but for those in blocks inside n.
Assigns(n) ==
  (IF Kind[n] = "assign" THEN {Var[n]} ELSE {}) \cup
  UNION {Assigns(Kids[n][k]) : k \in {j \in DOMAIN Kids[n] : Kind[Kids[n][j]] # "block"}}

(***************************************************************************)
(* A clone of a validated tree has the statements of the root, each equal  *)
(* to the original's, and the names they assign, with their types, however *)
(* often the tree was evaluated: the blocks among them, which are visited  *)
(* with the same four members, disturb none of this.  (A statement with a  *)
(* block in it is not cloned: what stands in its place is the copy made    *)
(* before it, tree_cloner.cpp:167.)                                        *)
(***************************************************************************)
ClonesStatements ==
  phase = "ready" =>
    LET copy == ClonedTree
    IN  /\ Len(copy.stmts) = Len(Kids[root])
        /\ \A k \in DOMAIN copy.stmts :
             ~HasBlock(Kids[root][k]) => copy.stmts[k] = TreeOf(Kids[root][k])
        /\ copy.types = [x \in Assigns(root) |-> At(root, x).type]

=============================================================================
