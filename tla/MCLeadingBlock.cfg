CONSTANTS
  NDEBUG = TRUE
  Alphabets <- Braces
  MaxTokens <- MaxBraces
SPECIFICATION Spec
INVARIANTS
  ParsesAsDocumented
CHECK_DEADLOCK FALSE
