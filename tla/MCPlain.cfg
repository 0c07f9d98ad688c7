CONSTANTS
  Node <- MCNode
  Kind <- MCKind
  Kids <- MCKids
  Var  <- MCVar
  Lit  <- MCLit
  LastIn <- MCLastIn
  Root <- MCRoot
  Name = {"x", "y"}
  MaxNum = 20
  NDEBUG = FALSE
  MaxRuns = 2
SPECIFICATION Spec
INVARIANTS
  PlainInv
  EndsAsMeant
  EntersTheDeclared
  ReadsTheChecked
  KindMatchesType
  EndsForTheReason
  QueryAsMeant
  ClonesStatements
PROPERTIES
  TypesNeverChange
CHECK_DEADLOCK FALSE
