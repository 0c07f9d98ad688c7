---------------------------- MODULE Scripts ----------------------------
(***************************************************************************)
(* The scripts that the models run, written as nested tuples, and the      *)
(* forest that IR's constants take from them.                              *)
(***************************************************************************)
EXTENDS Integers, Sequences

V(x)       == <<"variable", x, 0, << >> >>
I(i)       == <<"int_constant", "x", i, << >> >>
F(f)       == <<"float_constant", "x", f, << >> >>     \* f halves
S(s)       == <<"string_constant", "x", s, << >> >>
Neg(e)     == <<"unary_minus", "x", 0, <<e>> >>
Pos(e)     == <<"unary_plus", "x", 0, <<e>> >>
Add(a, b)  == <<"binary_plus", "x", 0, <<a, b>> >>
Sub(a, b)  == <<"binary_minus", "x", 0, <<a, b>> >>
Mul(a, b)  == <<"binary_mult", "x", 0, <<a, b>> >>
Div(a, b)  == <<"binary_div", "x", 0, <<a, b>> >>
Eq(a, b)   == <<"comp_equals", "x", 0, <<a, b>> >>
Let(x, e)  == <<"assign", x, 0, <<e>> >>
If(c, s)   == <<"if_stmt", "x", 0, <<c, s>> >>
Block(ss)  == <<"block", "x", 0, ss>>

(***************************************************************************)
(* Flat(t, at): the nodes of t in depth-first order, numbered from at, as  *)
(* records.  FlatAll does so for a sequence of trees, half by half; ids    *)
(* are the numbers of their roots.                                         *)
(***************************************************************************)
RECURSIVE Flat(_, _), FlatAll(_, _)
FlatAll(ts, at) ==
  IF ts = << >> THEN [nodes |-> << >>, ids |-> << >>]
  ELSE IF Len(ts) = 1 THEN [nodes |-> Flat(ts[1], at), ids |-> <<at>>]
  ELSE LET half  == Len(ts) \div 2
           first == FlatAll(SubSeq(ts, 1, half), at)
           rest  == FlatAll(SubSeq(ts, half + 1, Len(ts)), at + Len(first.nodes))
       IN  [nodes |-> first.nodes \o rest.nodes, ids |-> first.ids \o rest.ids]
Flat(t, at) ==
  LET below == FlatAll(t[4], at + 1)
  IN  << [kind |-> t[1], var |-> t[2], lit |-> t[3], kids |-> below.ids,
         last |-> at + Len(below.nodes)] >> \o below.nodes

Fields(flat) ==
  [ node |-> DOMAIN flat.nodes,
    kind |-> [n \in DOMAIN flat.nodes |-> flat.nodes[n].kind],
    kids |-> [n \in DOMAIN flat.nodes |-> flat.nodes[n].kids],
    var  |-> [n \in DOMAIN flat.nodes |-> flat.nodes[n].var],
    lit  |-> [n \in DOMAIN flat.nodes |-> flat.nodes[n].lit],
    last |-> [n \in DOMAIN flat.nodes |-> flat.nodes[n].last],
    root |-> {flat.ids[p] : p \in DOMAIN flat.ids} ]

\* The forest of a sequence of scripts.  (Taken from the set of one forest, so
\* that TLC flattens the scripts once, not once per node.)
Forest(scripts) ==
  CHOOSE forest \in {Fields(flat) : flat \in
           {FlatAll([p \in DOMAIN scripts |-> Block(scripts[p])], 1)}} : TRUE

\* All sequences of 3 statements out of the sequence pool.
Lines(pool) ==
  LET b == Len(pool)
  IN  [p \in 1..(b * b * b) |-> << pool[((p - 1) \div (b * b)) + 1],
                                   pool[(((p - 1) \div b) % b) + 1],
                                   pool[((p - 1) % b) + 1] >>]

=============================================================================
