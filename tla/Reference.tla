-------------------------- MODULE Reference --------------------------
(***************************************************************************)
(* What a script means, read off its text: the reference that the          *)
(* library's passes, visitors and flags are compared with.  It is for      *)
(* scripts whose assignments are statements or the right side of one.      *)
(***************************************************************************)
EXTENDS Pcsh

(***************************************************************************)
(* The nodes are numbered in the order of the text: LastIn[n] is the last    *)
(* node of n's tree, so that the nodes of the tree are n..LastIn[n], first n *)
(* itself and then those of its children, one after the other.  (A node is *)
(* one object with one parent: the parser hands each to one other.)        *)
(***************************************************************************)
CONSTANT LastIn
ASSUME OrderAssumption ==
  /\ Node \subseteq Nat
  /\ LastIn \in [Node -> Nat]
  /\ \A n \in Node :
       /\ n <= LastIn[n] /\ n..LastIn[n] \subseteq Node
       /\ Kids[n] = << >> => LastIn[n] = n
       /\ Kids[n] # << >> => /\ Kids[n][1] = n + 1
                             /\ LastIn[n] = LastIn[Kids[n][Len(Kids[n])]]
       /\ \A k \in 2..Len(Kids[n]) : Kids[n][k] = LastIn[Kids[n][k - 1]] + 1

-----------------------------------------------------------------------------
(***************************************************************************)
(* Scoping, in the tree of r.  A name belongs to the block of its textually *)
(* first assignment, and so do its assignments and uses from there on      *)
(* inside that block.                                                      *)
(***************************************************************************)
\* The blocks around n, and the innermost of some that are nested.
Around(r, n) == {b \in r..(n - 1) : Kind[b] = "block" /\ n <= LastIn[b]}

Innermost(blocks) == CHOOSE b \in blocks : \A c \in blocks : c <= b

Home(r, n) == Innermost(Around(r, n))

\* No assignment before n belongs to a block around n and has its name.
Declares(r, n) ==
  /\ Kind[n] = "assign"
  /\ \A m \in r..(n - 1) : Kind[m] = "assign" /\ Var[m] = Var[n] => Home(r, m) \notin Around(r, n)

\* The pairs <<block, name>> of the text before n, and all of them.
Declared(r, n) == {<<Home(r, m), Var[m]>> : m \in {a \in r..(n - 1) : Declares(r, a)}}

Declarations(r) == Declared(r, LastIn[r] + 1)

\* The blocks around n that have the name x, of the pairs decls, and the pair
\* that x means there.
Having(r, n, x, decls) == {b \in Around(r, n) : <<b, x>> \in decls}

Owner(r, n, x, decls) == <<Innermost(Having(r, n, x, decls)), x>>

-----------------------------------------------------------------------------
(***************************************************************************)
(* Expressions.  A program is a tree with the types that the type checker  *)
(* chose for its variables and conditions.  mem maps the pairs that have a *)
(* value to it, as a constant.  Values(p, mem)[e][ty] is <<the value of e  *)
(* at type ty>>, or empty if e has none.                                   *)
(***************************************************************************)
Program == [root |-> root, types |-> [k \in DOMAIN table |-> table[k].type], conds |-> anntype]

PairOf(p, n) == Owner(p.root, n, Var[n], DOMAIN p.types)
CondType(p, n) == IF n \in DOMAIN p.conds THEN p.conds[n] ELSE Undet

Computed(op, ty, a, b) ==
  IF a # << >> /\ b # << >> /\ Exact(op, ty, a[1], b[1])
    THEN <<Compute(op, ty, a[1], b[1])>> ELSE << >>

Compared(a, b) ==
  IF a # << >> /\ b # << >> THEN <<IF a[1] = b[1] THEN 1 ELSE 0>> ELSE << >>

Loaded(ty, constant) == <<Load(ty, constant, Initial(ty))>>

\* The value of e at ty, val being those of the nodes after e.
ValueAt(p, mem, e, val, ty) ==
  CASE Kind[e] \in ConstantKinds -> Loaded(ty, Const(Kind[e], Lit[e]))
    [] Kind[e] = "variable" ->
         IF Having(p.root, e, Var[e], DOMAIN p.types) # {} /\ PairOf(p, e) \in DOMAIN mem
           THEN Loaded(ty, mem[PairOf(p, e)]) ELSE << >>
    [] Kind[e] \in UnaryKinds ->
         Computed(Kind[e], ty, val[Kids[e][1]][ty], val[Kids[e][1]][ty])
    [] Kind[e] \in BinaryKinds ->
         Computed(Kind[e], ty, val[Kids[e][1]][ty], val[Kids[e][2]][ty])
    [] Kind[e] = "comp_equals" /\ ty = IntType /\ CondType(p, e) \in ValueTypes ->
         Compared(val[Kids[e][1]][ComparedAs(CondType(p, e))],
                  val[Kids[e][2]][ComparedAs(CondType(p, e))])
    [] OTHER -> << >>

ValuesAt(p, mem, e, val) == [ty \in ValueTypes |-> ValueAt(p, mem, e, val, ty)]

Values(p, mem) ==
  LET val[e \in p.root..LastIn[p.root]] == ValuesAt(p, mem, e, val)
  IN  val

-----------------------------------------------------------------------------
(***************************************************************************)
(* Statements.  A state is the memory, the next node that is not skipped,  *)
(* and whether all expressions so far had a value: after one that has none *)
(* nothing runs.                                                           *)
(***************************************************************************)
State(mem, next, ok) == [mem |-> mem, next |-> next, ok |-> ok]

\* The nodes that change it: an if, and an assignment of an expression.
Acts(n) == Kind[n] \in {"assign", "if_stmt"} /\ Kind[Kids[n][1]] # "assign"

\* The type that u wants the value of its expression at.
Wanted(p, u) == IF Kind[u] = "assign" THEN p.types[PairOf(p, u)] ELSE CondType(p, u)

\* The assignments of a = b = ... = e from m on, u being the last of them, and
\* what they all assign to.
Cascaded(m, u) == {a \in m..u : \A b \in a..u : Kind[b] = "assign"}

Assigned(p, mem, assigns, constant) ==
  LET pairs == {PairOf(p, a) : a \in assigns}
  IN  [k \in DOMAIN mem \cup pairs |-> IF k \in pairs THEN constant ELSE mem[k]]

\* u with this value: an if whose condition is zero is skipped.  An if whose
\* condition has no type fails an assertion, or is skipped by a build without.
Use(p, st, u, value) ==
  CASE Wanted(p, u) \notin ValueTypes -> State(st.mem, LastIn[u] + 1, NDEBUG)
    [] Wanted(p, u) \in ValueTypes /\ value = << >> -> State(st.mem, st.next, FALSE)
    [] Wanted(p, u) \in ValueTypes /\ value # << >> /\ Kind[u] = "assign" ->
         State(Assigned(p, st.mem, Cascaded(p.root, u), NewConstant(Wanted(p, u), value[1])), st.next, TRUE)
    [] Wanted(p, u) \in ValueTypes /\ value # << >> /\ Kind[u] = "if_stmt" ->
         State(st.mem, IF value[1] = 0 THEN LastIn[u] + 1 ELSE st.next, TRUE)

\* The state after node n, st being the one before it.
Pass(p, st, n) ==
  IF ~st.ok \/ n < st.next \/ ~Acts(n) THEN st
  ELSE Use(p, st, n, Values(p, st.mem)[Kids[n][1]][Wanted(p, n)])

\* The state before each node, and after the last one.
Course(p) ==
  LET at[n \in p.root..(LastIn[p.root] + 1)] ==
        IF n = p.root THEN State(<< >>, p.root, TRUE) ELSE Pass(p, at[n - 1], n - 1)
  IN  at

Meaning(p) == Course(p)[LastIn[p.root] + 1]

-----------------------------------------------------------------------------
(***************************************************************************)
(* How an evaluation ends: the first that is evaluated of the expressions  *)
(* without a value says why it has none, in the words of Results.          *)
(***************************************************************************)
\* The type at which the operands of e are evaluated, and those of them that
\* have no value there.
OperandType(p, e, ty) == IF Kind[e] = "comp_equals" THEN ComparedAs(CondType(p, e)) ELSE ty

Valueless(p, e, val, ty) == {k \in DOMAIN Kids[e] : val[Kids[e][k]][OperandType(p, e, ty)] = << >>}

\* Why e has no value at ty if that is no operand's fault.
OwnError(e, ty) ==
  CASE Kind[e] = "variable" -> "used before assigned"
    [] Kind[e] = "comp_equals" -> "invalid use of =="
    [] Kind[e] \in UnaryKinds \cup BinaryKinds ->
         IF ty = FloatType THEN "outside the model's doubles" ELSE "undefined behaviour"

\* Operands are evaluated from left to right, those of an == only under int.
ErrorAt(p, e, val, err, ty) ==
  LET bad == Valueless(p, e, val, ty)
  IN  IF bad = {} \/ (Kind[e] = "comp_equals" /\ ty # IntType) THEN OwnError(e, ty)
      ELSE err[Kids[e][CHOOSE k \in bad : \A j \in bad : k <= j]][OperandType(p, e, ty)]

\* Errors(p, mem)[e][ty] is why e has no value at ty.
Errors(p, mem) ==
  LET err[e \in p.root..LastIn[p.root]] ==
        [ty \in {t \in ValueTypes : Values(p, mem)[e][t] = << >>} |->
           ErrorAt(p, e, Values(p, mem), err, ty)]
  IN  err

\* The node after which nothing runs.
LastActing(p) == CHOOSE n \in p.root..LastIn[p.root] : Course(p)[n].ok /\ ~Course(p)[n + 1].ok

Outcome(p) ==
  LET n == LastActing(p)
  IN  CASE Meaning(p).ok -> "evaluated"
        [] ~Meaning(p).ok /\ Wanted(p, n) \notin ValueTypes -> "assertion failed"
        [] ~Meaning(p).ok /\ Wanted(p, n) \in ValueTypes ->
             Errors(p, Course(p)[n].mem)[Kids[n][1]][Wanted(p, n)]

-----------------------------------------------------------------------------
(***************************************************************************)
(* Every evaluation of a validated tree ends as the script means, whether  *)
(* it is the first or a later one: it throws if and only if an expression  *)
(* has no value, the names that have a value by then are those of the      *)
(* reference, in the same blocks, and they have the same values.  Runs     *)
(* that left the model's numbers are left out.  (Populate's scoping, the   *)
(* accessor's search, the evaluated flags, last_assign_ and the visitor    *)
(* swapping of the interpreter all come together here.)                    *)
(***************************************************************************)
EndsAsMeant ==
  phase = "ready" /\ runs > 0 =>
    LET end == Meaning(Program)
    IN  /\ (result = "evaluated") <=> end.ok
        /\ DOMAIN end.mem = {k \in DOMAIN table : table[k].evaluated}
        /\ \A k \in DOMAIN end.mem : table[k].ptr = end.mem[k]

(***************************************************************************)
(* ... and an evaluation that does not reach the end of the script stops   *)
(* for the reason that the text gives it, a later one for the same reason  *)
(* as the first.  A script that passed validate_tree and throws, as        *)
(* parser.hpp:177 allows, because a variable has no value yet, is told     *)
(* apart from one that throws at an == under double or string, that fails  *)
(* the assertion about a condition without a type, or that divides ints by *)
(* zero.                                                                   *)
(***************************************************************************)
EndsForTheReason ==
  runs > 0 /\ phase \in {"ready", "stopped"} => result = Outcome(Program)

\* The names that populate_symbol_table enters, and their blocks, are those the
\* scoping rule gives, and they are the same after every later pass.
EntersTheDeclared ==
  phase # "populate" /\ stk = << >> => DOMAIN table = Declarations(root)

=============================================================================
