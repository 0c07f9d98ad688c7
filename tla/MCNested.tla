---------------------------- MODULE MCNested ----------------------------
(***************************************************************************)
(* All scripts of three lines out of a pool with assignments everywhere an *)
(* expression may stand: under operators, in comparisons and conditions.   *)
(***************************************************************************)
EXTENDS PcshInv, Scripts

Pool == <<
  Let("x", I(1)),
  Let("y", Add(V("x"), Let("x", I(2)))),
  Let("y", Mul(F(3), Let("x", F(1)))),
  Let("x", Let("y", Sub(I(1), V("x")))),
  If(Let("x", I(1)), Block(<<Let("y", V("x")), Let("x", Eq(V("y"), I(1)))>>)),
  If(Eq(S(1), Let("y", S(1))), Let("x", Let("y", S(0)))),
  If(V("x"), Block(<<If(I(0), Let("y", S(0))), Let("x", I(0))>>)),
  Block(<<Let("y", Pos(F(4))), If(Let("y", F(0)), V("x")), Let("y", Div(I(1), V("y")))>>),
  Neg(S(0)) >>

MCForest == Forest(Lines(Pool))

MCNode == MCForest.node
MCKind == MCForest.kind
MCKids == MCForest.kids
MCVar  == MCForest.var
MCLit  == MCForest.lit
MCRoot == MCForest.root

=============================================================================
