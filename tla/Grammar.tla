---------------------------- MODULE Grammar ----------------------------
(***************************************************************************)
(* What the parser engine is compared with: the grammar in the comment at  *)
(* src/pcsh/parser/parser.cpp:28-38, a part of it that every order of      *)
(* operators agrees on, and what a tree must keep of the text it is for.   *)
(*                                                                         *)
(* Every text over an alphabet is a state, so that texts the engine        *)
(* rejects half way are compared as well.                                  *)
(***************************************************************************)
EXTENDS ParserEngine

CONSTANTS Alphabets,    \* which tokens occur together in a text
          MaxTokens     \* bound on a text's length: a function of its alphabet
ASSUME Alphabets \subseteq SUBSET Token /\ MaxTokens \in [Alphabets -> Nat]

VARIABLES alphabet, text    \* text: the tokens that are parsed
vars == <<alphabet, text>>

Init == alphabet \in Alphabets /\ text = << >>

Extend(t) == /\ Len(text) < MaxTokens[alphabet]
             /\ text' = Append(text, t)
             /\ UNCHANGED alphabet

Next == \E t \in alphabet : Extend(t)
Spec == Init /\ [][Next]_vars

-----------------------------------------------------------------------------
(***************************************************************************)
(* Grammars.  A nonterminal is an operator that yields the trees it        *)
(* derives from w.                                                         *)
(***************************************************************************)
Before(w, k) == SubSeq(w, 1, k - 1)
After(w, k)  == SubSeq(w, k + 1, Len(w))
Enclosed(w, l, r) == Len(w) > 2 /\ Head(w) = l /\ w[Len(w)] = r
Inside(w) == SubSeq(w, 2, Len(w) - 1)

Places(w, ts) == {k \in DOMAIN w : w[k] \in ts}

NonTerminals == {"expr", "arith", "term", "unary", "one expr", "one operand", "one factor"}

\* The documented expressions, "expr"; and "one expr": those with at most one
\* operator between two parentheses, and assignments of them, which may cascade,
\* where grouping is not in question.
Derived[nt \in NonTerminals, w \in Seq(Token)] ==
  LET Infix(left, ops, right) ==
        UNION {{Operation(w[k], a, b) : a \in Derived[left, Before(w, k)], b \in Derived[right, After(w, k)]}
                 : k \in Places(w, ops)}
      Signed(operand) ==
        CASE First(w) = "-" -> {Neg(e) : e \in Derived[operand, Tail(w)]}
          [] First(w) = "+" -> {Pos(e) : e \in Derived[operand, Tail(w)]}
          [] OTHER -> {}
      Assignment(right) ==
        IF Len(w) > 2 /\ w[1] \in Symbols /\ w[2] = "="
          THEN {Let(w[1], b) : b \in Derived[right, After(w, 2)]} ELSE {}
      Primary(inner) ==
        CASE Enclosed(w, "(", ")")            -> Derived[inner, Inside(w)]
          [] Len(w) = 1 /\ w[1] \in Symbols   -> {V(w[1])}
          [] Len(w) = 1 /\ w[1] = "1"         -> {I(1)}
          [] OTHER -> {}
  IN  CASE nt = "expr"  -> Derived["arith", w] \cup Infix("expr", {"=="}, "arith") \cup Assignment("arith")
        [] nt = "arith" -> Derived["term", w] \cup Infix("arith", {"+", "-"}, "term")
        [] nt = "term"  -> Derived["unary", w] \cup Infix("term", {"*", "/"}, "unary")
        [] nt = "unary" -> Signed("unary") \cup Primary("expr")
        [] nt = "one expr"    -> Derived["one operand", w] \cup Assignment("one expr")
                                 \cup Infix("one operand", Operators \ {"="}, "one operand")
        [] nt = "one operand" -> Signed("one factor") \cup Derived["one factor", w]
        [] nt = "one factor"  -> Primary("one expr")

Expression(w, documented) == Derived[IF documented THEN "expr" ELSE "one expr", w]

RECURSIVE GStmt(_, _), GStmts(_, _)
GStmts(w, documented) ==
  {<<s>> : s \in GStmt(w, documented)} \cup
  UNION {{<<s>> \o ss : s \in GStmt(SubSeq(w, 1, k), documented), ss \in GStmts(After(w, k), documented)}
           : k \in Places(w, {";", "}"}) \ {Len(w)}}

GStmt(w, documented) ==
  CASE First(w) = "if" ->
         UNION {{If(c, s) : c \in Expression(SubSeq(w, 3, k - 1), documented), s \in GStmt(After(w, k), documented)}
                  : k \in {j \in Places(w, {")"}) : w[2] = "("}}
    [] Enclosed(w, "{", "}") -> {Block(ss) : ss \in GStmts(Inside(w), documented)}
    [] First(w) \notin {"if", "{"} /\ Places(w, {";"}) = {Len(w)} ->
         Expression(Before(w, Len(w)), documented)
    [] OTHER -> {}

\* The root block, with or without its own braces.
Texts(w, documented) ==
  {Block(ss) : ss \in GStmts(w, documented)} \cup
  (IF Enclosed(w, "{", "}") THEN {Block(ss) : ss \in GStmts(Inside(w), documented)} ELSE {})

(***************************************************************************)
(* Spells(t, w): w is the tree t written down, whatever its parentheses.   *)
(***************************************************************************)
OperatorOf(kind) ==
  CASE kind = "binary_plus" -> "+" [] kind = "binary_minus" -> "-" [] kind = "binary_mult" -> "*"
    [] kind = "binary_div" -> "/"  [] kind = "comp_equals" -> "=="

RECURSIVE Spells(_, _), SpellsAll(_, _)
Spells(t, w) ==
  \/ Enclosed(w, "(", ")") /\ Spells(t, Inside(w))
  \/ CASE t[1] = "variable"     -> w = <<t[2]>>
       [] t[1] = "int_constant" -> w = <<"1">>
       [] t[1] = "unary_minus"  -> First(w) = "-" /\ Spells(t[4][1], Tail(w))
       [] t[1] = "unary_plus"   -> First(w) = "+" /\ Spells(t[4][1], Tail(w))
       [] t[1] = "assign" -> \E k \in Places(w, {"="}) : Spells(V(t[2]), Before(w, k)) /\ Spells(t[4][1], After(w, k))
       [] t[1] = "if_stmt" -> /\ First(w) = "if"
                              /\ \E k \in Places(w, {")"}) :
                                   w[2] = "(" /\ Spells(t[4][1], SubSeq(w, 3, k - 1))
                                              /\ SpellsAll(<<t[4][2]>>, After(w, k))
       [] t[1] = "block" -> Enclosed(w, "{", "}") /\ SpellsAll(t[4], Inside(w))
       [] t[1] = "null"  -> FALSE
       [] OTHER -> \E k \in Places(w, {OperatorOf(t[1])}) :
                     Spells(t[4][1], Before(w, k)) /\ Spells(t[4][2], After(w, k))

\* Statements, an expression with its semicolon.
SpellsAll(ts, w) ==
  IF ts = << >> THEN w = << >>
  ELSE \E k \in DOMAIN w :
         /\ IF ts[1][1] \in {"block", "if_stmt"} THEN Spells(ts[1], SubSeq(w, 1, k))
            ELSE w[k] = ";" /\ Spells(ts[1], Before(w, k))
         /\ SpellsAll(Tail(ts), After(w, k))

-----------------------------------------------------------------------------
Outcome  == Parse(text)
Accepted == Outcome.threw = "no"

\* The tokens that Parse consumed.
Consumed == SubSeq(text, 1, Len(text) - Len(Outcome.rest))

(***************************************************************************)
(* An accepted tree has exactly the text that was consumed, in its order:  *)
(* the engine, which consumes tokens in seven functions and decides by one *)
(* that it has only peeked at, neither loses, repeats nor invents one,     *)
(* however it groups them (parser_engine.cpp:92-330).                      *)
(***************************************************************************)
KeepsTheText ==
  Accepted => \/ SpellsAll(Outcome.tree[4], Consumed)
              \/ Enclosed(Consumed, "{", "}") /\ SpellsAll(Outcome.tree[4], Inside(Consumed))

\* Where parentheses decide all grouping, the tree is the one that the text
\* means, and there is one: arith and expr, which both take `+', `-' and `=='
\* (parser_engine.cpp:193, 220), do not take an operator from each other.  A
\* root that begins with `{' is left to ParsesAsDocumented.
GroupsByParentheses ==
  First(text) # "{" /\ Texts(text, FALSE) # {} => Accepted /\ Texts(text, FALSE) = {Outcome.tree}

\* Two signs, the first of which has no left operand.  (A `)' before it may be
\* that of an if, and does not count as one.)
SignOfSign(k) ==
  /\ {text[k], text[k + 1]} \subseteq {"+", "-"}
  /\ k = 1 \/ text[k - 1] \notin Symbols \cup {"1"}

\* What the documented grammar (parser.cpp:28-38) derives is accepted to its
\* end, but for a sign of a sign and a root that begins with `{'.
AcceptsTheDocumented ==
  /\ \A k \in 1..(Len(text) - 1) : ~SignOfSign(k)
  /\ First(text) # "{"
  /\ Texts(text, TRUE) # {}
  => Accepted /\ Outcome.rest = << >>

\* The comment at parser.cpp:28-38, "Grammar": a text that it derives is parsed
\* to a tree that it derives.
ParsesAsDocumented ==
  Texts(text, TRUE) # {} => Accepted /\ Outcome.tree \in Texts(text, TRUE)

=============================================================================
