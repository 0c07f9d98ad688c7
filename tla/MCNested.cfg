CONSTANTS
  Node <- MCNode
  Kind <- MCKind
  Kids <- MCKids
  Var  <- MCVar
  Lit  <- MCLit
  Root <- MCRoot
  Name = {"x", "y"}
  MaxNum = 20
  NDEBUG = TRUE
  MaxRuns = 2
SPECIFICATION FairSpec
INVARIANTS
  TypeOK
  IInv
  AssignmentIsTyped
  EvaluatedIsConstant
  StatementsRunUnderVoid
PROPERTIES
  TablesOnlyAdvance
  Terminates
CHECK_DEADLOCK FALSE
