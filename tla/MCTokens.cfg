CONSTANTS
  Alphabets <- MCAlphabets
  MaxLength = 5
  INIT_SIZE = 2
SPECIFICATION Spec
INVARIANTS
  TokenInv
  TokensAreLexemes
  TokenStaysReadable
  LinesOfTheText
  PrintedStringsReadBack
PROPERTIES
  StreamSpec
CHECK_DEADLOCK FALSE
