CONSTANTS
  Node <- MCNode
  Kind <- MCKind
  Kids <- MCKids
  Var  <- MCVar
  Lit  <- MCLit
  Root <- MCRoot
  Name = {"x", "y"}
  MaxNum = 20
  NDEBUG = TRUE
  MaxRuns = 1
SPECIFICATION Spec
INVARIANTS
  ValidTreeEvaluates
CHECK_DEADLOCK FALSE
