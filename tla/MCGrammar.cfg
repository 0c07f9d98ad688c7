CONSTANTS
  NDEBUG = FALSE
  Alphabets <- MCAlphabets
  MaxTokens <- MCMaxTokens
SPECIFICATION Spec
INVARIANTS
  KeepsTheText
  GroupsByParentheses
  AcceptsTheDocumented
CHECK_DEADLOCK FALSE
