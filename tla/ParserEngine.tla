-------------------------- MODULE ParserEngine --------------------------
(***************************************************************************)
(* parser_engine: recursive descent from tokens to a tree                  *)
(* (src/pcsh/parser/parser_engine.cpp).                                    *)
(*                                                                         *)
(* A member function is an operator on the tokens that are left.  It       *)
(* yields what it returns and the tokens it leaves, or that it threw.      *)
(* Trees are written as in Scripts.                                        *)
(***************************************************************************)
EXTENDS Scripts

CONSTANT NDEBUG    \* PCSH_ASSERT and PCSH_ASSERT_MSG are compiled out
ASSUME BuildAssumption == NDEBUG \in BOOLEAN

\* "x" and "y" are SYMBOLs; "1" stands for INTEGER, FLOATING and QUOTE, which
\* the engine treats alike; "." is DOT, which begins nothing; "bad" is FAIL.
Symbols   == {"x", "y"}
Operators == {"+", "-", "*", "/", "==", "="}
Token     == Symbols \cup Operators \cup {"1", "(", ")", "{", "}", ";", "if", ".", "bad"}

NullNode == <<"null", "x", 0, << >> >>

Returned(tree, rest) == [tree |-> tree, rest |-> rest, threw |-> "no"]
Threw(what)          == [tree |-> NullNode, rest |-> << >>, threw |-> what]

First(w) == IF w = << >> THEN "EOS" ELSE Head(w)
Rest(w)  == IF w = << >> THEN w ELSE Tail(w)

\* peek() after a call that yielded r: a FAIL token is thrown.
Peeked(r) == IF r.threw = "no" /\ First(r.rest) = "bad" THEN Threw("bad token") ELSE r

Atom(w) ==
  CASE First(w) \in Symbols -> Returned(V(First(w)), Rest(w))
    [] First(w) = "1"       -> Returned(I(1), Rest(w))
    [] OTHER -> IF NDEBUG THEN Returned(NullNode, Rest(w)) ELSE Threw("assertion failed")

\* Mutant: set_left and set_right the wrong way round.
OperationSwapped(op, a, b) ==
  CASE op = "+"  -> Add(b, a)
    [] op = "-"  -> Sub(b, a)
    [] op = "*"  -> Mul(b, a)
    [] op = "/"  -> Div(b, a)
    [] op = "==" -> Eq(b, a)
    [] op = "="  -> Let(a[2], b)

Operation(op, a, b) ==
  CASE op = "+"  -> Add(a, b)
    [] op = "-"  -> Sub(a, b)
    [] op = "*"  -> Mul(a, b)
    [] op = "/"  -> Div(a, b)
    [] op = "==" -> Eq(a, b)
    [] op = "="  -> Let(a[2], b)

\* ENSURE(peek().is_a(t)) and advance(), after a call that returned r.
Expect(t, r) ==
  IF r.threw # "no" THEN r
  ELSE IF First(r.rest) = t THEN Returned(r.tree, Rest(r.rest))
  ELSE Threw(IF First(r.rest) = "bad" THEN "bad token" ELSE "parser exception")

\* (this->*fn)(), for fn one of "expr", "arith", "term" and "unop"
RECURSIVE CallMemFn(_, _)

Factor(w) ==
  CASE First(w) = "bad" -> Threw("bad token")
    [] First(w) = "("   -> Expect(")", CallMemFn("expr", Rest(w)))
    [] OTHER            -> Atom(w)

\* The node for a sign, whose operand is what r returned.
SignOf(sign, r) ==
  IF r.threw # "no" THEN r
  ELSE Returned(IF sign = "-" THEN Neg(r.tree) ELSE Pos(r.tree), r.rest)

\* Mutant: the operand of a sign is the rest of the expression.
CreateUnaryOpOfExpr(w) == SignOf(First(w), CallMemFn("expr", Rest(w)))

\* create_unary_op, whose operand is a factor.
CreateUnaryOp(w) == SignOf(First(w), Factor(Rest(w)))

UnOp(w) == IF First(w) \in {"+", "-"} THEN CreateUnaryOp(w) ELSE Factor(w)

\* The node for op, with set_right of what r returned.
OperationOn(op, left, r) ==
  IF r.threw # "no" THEN r ELSE Returned(Operation(op, left, r.tree), r.rest)

\* create_binary_op, on what a call returned and the operator that follows.
\* The right side of an assignment is an expression, of others what rghtgen makes.
CreateBinaryOp(a, rghtgen) ==
  IF First(a.rest) = "=" /\ a.tree[1] # "variable" THEN Threw("parser exception")
  ELSE OperationOn(First(a.rest), a.tree,
                   CallMemFn(IF First(a.rest) = "=" THEN "expr" ELSE rghtgen, Rest(a.rest)))

\* One operator of ops may follow, or ...
UpToOne(a, ops, rghtgen) ==
  IF a.threw = "no" /\ First(a.rest) \in ops THEN CreateBinaryOp(a, rghtgen) ELSE a

\* ... any number of them.
RECURSIVE CreateBinaryOps(_, _, _)
CreateBinaryOps(a, ops, rghtgen) ==
  IF a.threw # "no" \/ First(a.rest) \notin ops THEN a
  ELSE CreateBinaryOps(Peeked(CreateBinaryOp(a, rghtgen)), ops, rghtgen)

Term(w) == UpToOne(Peeked(UnOp(w)), Operators, "unop")

\* Mutant: no loop, the one operator of the term is all.
ArithOfOneTerm(w) == Peeked(Term(w))

Arith(w) == CreateBinaryOps(Peeked(Term(w)), Operators, "term")
Expr(w)  == CreateBinaryOps(Peeked(Arith(w)), {"+", "-", "=="}, "arith")

CallMemFn(fn, w) ==
  CASE fn = "expr"  -> Expr(w)
    [] fn = "arith" -> Arith(w)
    [] fn = "term"  -> Term(w)
    [] fn = "unop"  -> UnOp(w)

-----------------------------------------------------------------------------
RECURSIVE Stmt(_), Statements(_, _, _)

\* Statements already read, and then what a call of stmt returned.
MoreStatements(stmts, r, braced) ==
  IF r.threw # "no" THEN r ELSE Statements(Append(stmts, r.tree), r.rest, braced)

\* The loop of block.
Statements(stmts, w, braced) ==
  CASE First(w) = "EOS" -> IF braced THEN Threw("parser exception") ELSE Returned(Block(stmts), w)
    [] First(w) = "}"   -> IF braced THEN Returned(Block(stmts), Rest(w)) ELSE Threw("parser exception")
    [] OTHER -> MoreStatements(stmts, Peeked(Stmt(w)), braced)

\* block: the token that decides about the end of the block is the one that was
\* peeked before a `{' was consumed, or else the one after the last statement.
BlockOf(w) ==
  CASE First(w) = "bad" -> Threw("bad token")
    [] First(w) = "{"   -> MoreStatements(<< >>, Peeked(Stmt(Rest(w))), TRUE)
    [] OTHER            -> Statements(<< >>, w, FALSE)

\* The if_stmt of a condition that was read, and of both its children.
IfOf(cond, r)  == IF r.threw # "no" THEN r ELSE Returned(If(cond, r.tree), r.rest)
WithBody(cond) == IF cond.threw # "no" THEN cond ELSE IfOf(cond.tree, Stmt(cond.rest))

Condition(r) == IF r.threw # "no" THEN r ELSE Expr(r.rest)
IfStmt(w)    == WithBody(Expect(")", Condition(Expect("(", Returned(NullNode, Rest(w))))))

Stmt(w) ==
  CASE First(w) = "bad" -> Threw("bad token")
    [] First(w) = "if"  -> IfStmt(w)
    [] First(w) = "{"   -> BlockOf(w)
    [] OTHER            -> Expect(";", Expr(w))

Parse(w) == BlockOf(w)

=============================================================================
