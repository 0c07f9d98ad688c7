CONSTANTS
  Alphabets = {{"i", "f", "a"}}
  MaxLength = 3
  INIT_SIZE = 2
SPECIFICATION Spec
INVARIANTS
  KeywordIsIf
CHECK_DEADLOCK FALSE
