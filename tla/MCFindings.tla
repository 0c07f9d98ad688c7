--------------------------- MODULE MCFindings ---------------------------
(***************************************************************************)
(* Scripts whose evaluation is not what the library's own text says.       *)
(***************************************************************************)
EXTENDS Pcsh, Scripts

\* y = 1.0 + (1 == 1);
\* y = 1 + (x = 2);
MCForest == Forest(<<
  <<Let("y", Add(F(2), Eq(I(1), I(1))))>>,
  <<Let("y", Add(I(1), Let("x", I(2))))>> >>)

MCNode == MCForest.node
MCKind == MCForest.kind
MCKids == MCForest.kids
MCVar  == MCForest.var
MCLit  == MCForest.lit
MCRoot == MCForest.root

=============================================================================
