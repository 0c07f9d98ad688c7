---------------------------- MODULE MCPlain ----------------------------
(***************************************************************************)
(* All scripts of three lines out of a pool in which every assignment is a *)
(* statement, or the right side of one.                                    *)
(***************************************************************************)
EXTENDS Operations, ReferenceInv, TreeCloner, Scripts

Pool == <<
  Block(<<If(I(0), Let("x", I(3))), Let("y", V("x"))>>),
  Let("x", I(1)),
  Let("x", F(3)),
  Let("y", V("x")),
  Let("y", Add(V("x"), Eq(V("x"), I(1)))),
  Let("y", Let("x", I(2))),
  Let("x", Div(Neg(I(2)), V("x"))),
  If(V("x"), Let("x", I(0))),
  If(Eq(V("x"), V("y")), Block(<<V("y"), Let("y", I(3)), Let("x", V("y"))>>)),
  Block(<<If(V("y"), Let("x", I(3))), Let("y", V("x"))>>),
  If(Eq(S(1), S(1)), Block(<<Let("y", S(1)), If(V("y"), Let("x", S(0)))>>)) >>

MCForest == Forest(Lines(Pool))

MCNode == MCForest.node
MCKind == MCForest.kind
MCKids == MCForest.kids
MCVar  == MCForest.var
MCLit  == MCForest.lit
MCLastIn == MCForest.last
MCRoot == MCForest.root

=============================================================================
