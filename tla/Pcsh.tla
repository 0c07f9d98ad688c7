----------------------------- MODULE Pcsh -----------------------------
(***************************************************************************)
(* A script in the library: parser::parse_to_tree validates its tree once, *)
(* with the two passes of validate_tree, and the caller then evaluates the *)
(* tree as often as it likes, also after an evaluation that threw.         *)
(***************************************************************************)
EXTENDS PopulateSymbolTable, Interpreter

CONSTANT MaxRuns    \* bound on the calls of evaluate
ASSUME MaxRunsAssumption == MaxRuns \in Nat

VARIABLE runs       \* the calls of evaluate so far

NoConstant == [id |-> 0, ptr |-> Null]

vars == <<table, nested, root, phase, result, stk, populated, curr, anntype, checked, vis, last, runs>>

Init ==
  /\ root \in Root
  /\ table = << >> /\ nested = << >>
  /\ phase = "populate" /\ result = "none"
  /\ stk = <<Frame(root, FALSE, << >>)>>
  /\ populated = {} /\ checked = {}
  /\ curr = Undet /\ anntype = << >>
  /\ vis = << >> /\ last = NoConstant
  /\ runs = 0

Populate == PopulateStep /\ UNCHANGED <<curr, anntype, checked, vis, last, runs>>

\* validate_tree goes from its first pass to its second ...
StartCheck ==
  /\ phase = "populate" /\ stk = << >>
  /\ phase' = "check"
  /\ stk' = <<Frame(root, FALSE, << >>)>>
  /\ UNCHANGED <<table, nested, root, result, populated, curr, anntype, checked, vis, last, runs>>

Check == CheckStep /\ UNCHANGED <<populated, vis, last, runs>>

\* ... and returns: parse_to_tree hands the tree out.
EndCheck ==
  /\ phase = "check" /\ stk = << >>
  /\ phase' = "ready" /\ result' = "validated"
  /\ UNCHANGED <<table, nested, root, stk, populated, curr, anntype, checked, vis, last, runs>>

\* evaluate: a new interpreter visits the tree.
Evaluate ==
  /\ phase = "ready" /\ runs < MaxRuns
  /\ phase' = "eval" /\ result' = "none"
  /\ runs' = runs + 1
  /\ stk' = <<Frame(root, FALSE, << >>)>>
  /\ last' = NoConstant
  /\ UNCHANGED <<table, nested, root, populated, curr, anntype, checked, vis>>

Eval == EvalStep /\ UNCHANGED <<populated, runs>>

EndEvaluate ==
  /\ phase = "eval" /\ stk = << >>
  /\ phase' = "ready" /\ result' = "evaluated"
  /\ UNCHANGED <<table, nested, root, stk, populated, curr, anntype, checked, vis, last, runs>>

Next == Populate \/ StartCheck \/ Check \/ EndCheck \/ Evaluate \/ Eval \/ EndEvaluate

Spec == Init /\ [][Next]_vars

\* Every step but the caller's Evaluate is the running thread's own.
Thread == Populate \/ StartCheck \/ Check \/ EndCheck \/ Eval \/ EndEvaluate
FairSpec == Spec /\ WF_vars(Thread)

-----------------------------------------------------------------------------
(***************************************************************************)
(* Correctness.                                                            *)
(***************************************************************************)
Results == {"none", "validated", "rejected", "evaluated", "used before assigned",
            "invalid use of ==", "assertion failed", "undefined behaviour",
            "outside the model's doubles"}

TypeOK ==
  /\ root \in Root
  /\ DOMAIN table \subseteq Node \X Name
  /\ \A k \in DOMAIN table : table[k] \in Entries
  /\ nested \in Seq(Node)
  /\ phase \in Phases /\ result \in Results
  /\ stk \in Seq(Frames)
  /\ populated \subseteq Node \X Seq(Node)
  /\ checked \subseteq Node \X Seq(Node)
  /\ curr \in TableTypes
  /\ DOMAIN anntype \subseteq Node
  /\ \A n \in DOMAIN anntype : anntype[n] \in BoolType..Failed
  /\ vis \in Seq(Visitors)
  /\ last \in [id : Nat, ptr : Pointers]
  /\ runs \in 0..MaxRuns

(***************************************************************************)
(* The interpreter never reaches its "Incomplete implementation for        *)
(* evaluate!" checks (interpreter.cpp:317, 343), in no build and no run:   *)
(* when it begins an assignment, the table that the accessor finds the     *)
(* name in has a type for it.  Populating, checking and every evaluation   *)
(* before it must have agreed on that table.                               *)
(***************************************************************************)
AssignmentIsTyped ==
  phase = "eval" /\ Statement("assign", 0) => Lookup(Var[N], FALSE).type \in ValueTypes

(***************************************************************************)
(* An entry that is marked evaluated points at a constant that an          *)
(* assignment made, never at the expression it was entered with: reading   *)
(* a variable visits no expression (interpreter.cpp:48-50).                *)
(***************************************************************************)
EvaluatedIsConstant ==
  \A k \in DOMAIN table : table[k].evaluated => table[k].ptr.kind \in ConstantKinds

\* query (operations.cpp:68-77) casts an evaluated entry's node to the class
\* that the entry's type names: it is of that class.
ClassOf(type) == CASE type = IntType    -> "int_constant"
                   [] type = FloatType  -> "float_constant"
                   [] type = StringType -> "string_constant"

KindMatchesType ==
  \A k \in DOMAIN table : table[k].evaluated => table[k].ptr.kind = ClassOf(table[k].type)

\* Entries are never lost, nor set back to unevaluated or to no type, and
\* after populate none is added: what a block binds is fixed before types are
\* looked at, though every pass writes the tables through the same accessor.
TablesOnlyAdvance ==
  [][ /\ DOMAIN table \subseteq DOMAIN table'
      /\ phase # "populate" => DOMAIN table' = DOMAIN table
      /\ \A k \in DOMAIN table :
           /\ table'[k].ptr # Null
           /\ table[k].evaluated => table'[k].evaluated
           /\ table[k].type # Undet => table'[k].type # Undet ]_vars

\* The type of a variable is never changed, as the type checker's message has
\* it (type_checker.cpp:140), by the checker or by any evaluation.
TypesNeverChange ==
  [][\A k \in DOMAIN table : table[k].type # Undet => table'[k].type = table[k].type]_vars

(***************************************************************************)
(* A variable that an expression reads is the one its type was taken from: *)
(* the innermost evaluated entry, which the interpreter reads, is the      *)
(* innermost entry, which the type checker looked at.  (A variable that is *)
(* a statement is visited under void, and not read.)                       *)
(***************************************************************************)
ReadsTheChecked ==
  phase = "eval" /\ Running({"variable"}, 0) /\ Typed /\ Lookup(Var[N], TRUE).evaluated =>
    Nearest(nested, Var[N], TRUE) = Nearest(nested, Var[N], FALSE)

\* A statement of a block runs under typed_interpreter<void>, whatever the
\* statements before it did with curr_visitor_: it is restored on every path,
\* the jump of a cascading assignment included.
StatementsRunUnderVoid ==
  phase = "eval" /\ stk # << >> /\ Kind[N] = "block" /\ Top.stage > 0 => Visiting.ty = Undet

\* parser.hpp:177 "returns a valid executable tree, except for use before
\* assign errors": no other error ends an evaluation.
ValidTreeEvaluates ==
  runs > 0 => result \notin {"invalid use of ==", "assertion failed", "undefined behaviour"}

\* Validation and every evaluation come to an end.
Terminates == phase \notin {"ready", "stopped"} ~> phase \in {"ready", "stopped"}

=============================================================================
