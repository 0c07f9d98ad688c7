CONSTANTS
  Lengths = {0, 1, 3, 4, 7, 8}
  Reach = 4
  INIT_SIZE = 3
SPECIFICATION Spec
INVARIANTS
  StreamInv
  ReadsAhead
PROPERTIES
  CursorSpec
