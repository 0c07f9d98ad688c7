-------------------------- MODULE Operations --------------------------
(***************************************************************************)
(* query, which a caller reads the variables of an evaluated tree with     *)
(* (src/pcsh/ir/operations.cpp).                                           *)
(***************************************************************************)
EXTENDS Reference

(***************************************************************************)
(* sym_list_extractor visits the tree in the order of the text; its        *)
(* tablist gets the table of each block, those that an evaluation leaves   *)
(* before it ends and those it never enters as well.  tablist[n] is what   *)
(* is in it when n was visited, and not yet n's children.                  *)
(***************************************************************************)
Blocks ==
  LET tablist[n \in root..LastIn[root]] ==
        LET before == IF n = root THEN << >> ELSE tablist[n - 1]
        IN  IF Kind[n] = "block" THEN Append(before, n) ELSE before
  IN  tablist[LastIn[root]]

\* A mutant of Query: res.evaluated is not looked at.
QueryAnyway(x) ==
  LET res == LookupIn(Blocks, x, FALSE)
  IN  IF res.ptr # Null /\ res.type \in ValueTypes
        THEN [type |-> res.type, val |-> res.ptr.val]
        ELSE [type |-> Failed, val |-> 0]

\* The value is read from the node as from one of the class that the type names.
Query(x) ==
  LET res == LookupIn(Blocks, x, FALSE)
  IN  IF res.ptr # Null /\ res.evaluated /\ res.type \in ValueTypes
        THEN [type |-> res.type, val |-> res.ptr.val]
        ELSE [type |-> Failed, val |-> 0]

-----------------------------------------------------------------------------
\* The blocks that declare x, and the last of them in the text.
Declaring(x) == {k[1] : k \in {d \in Declarations(root) : d[2] = x}}

LastDeclaring(x) == CHOOSE b \in Declaring(x) : \A c \in Declaring(x) : c <= b

(***************************************************************************)
(* query returns the value that the script gives to the variable x of the  *)
(* last block that has one, and FAILED as long as that variable has none:  *)
(* before an evaluation, after one that threw before the assignment, and   *)
(* for a block that was not entered, even if another x has a value         *)
(* (operations.cpp:44-84).                                                 *)
(***************************************************************************)
QueryAsMeant ==
  phase = "ready" =>
    LET end == IF runs = 0 THEN [mem |-> << >>] ELSE Meaning(Program)
    IN  \A x \in Name :
          LET pair == <<LastDeclaring(x), x>>
          IN  IF Declaring(x) = {} \/ pair \notin DOMAIN end.mem
                THEN Query(x).type = Failed
                ELSE /\ ClassOf(Query(x).type) = end.mem[pair].kind
                     /\ Query(x).val = end.mem[pair].val

=============================================================================
