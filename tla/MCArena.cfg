CONSTANTS
  Sizes = {0, 1, 8, 40, 57}
  MinSz = 16
  MaxObjects = 4
SPECIFICATION FairSpec
INVARIANTS
  ObjectsFit
  ArenaInv
PROPERTIES
  PoolSpec
  DestructionEnds
CHECK_DEADLOCK FALSE
