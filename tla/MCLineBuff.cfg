CONSTANTS
  Alphabet = {"a", "LF", "CR", "EOT"}
  MaxLength = 6
  CheckEOT = TRUE
SPECIFICATION Spec
INVARIANTS
  LineInv
  OneLineAhead
PROPERTIES
  SourceSpec
