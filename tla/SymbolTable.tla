------------------------- MODULE SymbolTable -------------------------
(***************************************************************************)
(* The symbol tables (src/pcsh/ir/symbol_table.cpp): one hash map from     *)
(* names to entries per block, and the variable_accessor that the passes   *)
(* look a name up with, over the list of the tables of the blocks that     *)
(* are open, innermost last.                                               *)
(***************************************************************************)
EXTENDS Values

VARIABLES
  table,    \* the entries, by block and name: <<b, x>> is a key of b's map
  nested    \* the blocks whose tables are in the accessor's list

TableTypes == {IntType, FloatType, StringType, Undet}
Entries == [ptr : Pointers, type : TableTypes, evaluated : BOOLEAN]

Entry(ptr, type, evaluated) == [ptr |-> ptr, type |-> type, evaluated |-> evaluated]

\* What a lookup that finds nothing returns.
Absent == Entry(Null, Undet, FALSE)

\* symbol_table::lookup in one block's map
At(b, x) == IF <<b, x>> \in DOMAIN table THEN table[<<b, x>>] ELSE Absent

\* symbol_table::set: the key's entry is replaced, or inserted.
Put(b, x, entry) ==
  table' = [k \in DOMAIN table \cup {<<b, x>>} |->
              IF k = <<b, x>> THEN entry ELSE table[k]]

Bound(b, x) == At(b, x).ptr.kind # "null"

(***************************************************************************)
(* The place in a list of blocks that variable_accessor stops at, walking  *)
(* it backwards: the innermost block that binds x, or with findevaluated   *)
(* the innermost whose entry is also evaluated.  0 if there is none.       *)
(***************************************************************************)
Stops(list, x, findevaluated) ==
  {i \in DOMAIN list : /\ Bound(list[i], x)
                       /\ findevaluated => At(list[i], x).evaluated}

Nearest(list, x, findevaluated) ==
  LET stops == Stops(list, x, findevaluated)
  IN  IF stops = {} THEN 0 ELSE CHOOSE i \in stops : \A j \in stops : j <= i

\* variable_accessor::lookup in a list of blocks
LookupIn(list, x, findevaluated) ==
  LET i == Nearest(list, x, findevaluated)
  IN  IF i = 0 THEN Absent ELSE At(list[i], x)

Lookup(x, findevaluated) == LookupIn(nested, x, findevaluated)

\* A mutant of Set: such a name is inserted in the innermost block.
SetOrInsert(x, entry) ==
  LET i == Nearest(nested, x, FALSE)
  IN  Put(nested[IF i = 0 THEN Len(nested) ELSE i], x, entry)

\* variable_accessor::set: a name that no open block binds is left unset.
Set(x, entry) ==
  LET i == Nearest(nested, x, FALSE)
  IN  IF i = 0 THEN UNCHANGED table ELSE Put(nested[i], x, entry)

=============================================================================
