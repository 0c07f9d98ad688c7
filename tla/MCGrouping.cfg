CONSTANTS
  NDEBUG = TRUE
  Alphabets <- Chains
  MaxTokens <- MaxChains
SPECIFICATION Spec
INVARIANTS
  ParsesAsDocumented
CHECK_DEADLOCK FALSE
