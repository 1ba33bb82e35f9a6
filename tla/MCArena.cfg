CONSTANTS
  ARENA_SIZE = 40
  POINTER = 4
  Bases <- MCBases
  Sizes <- MCSizes
  MaxAllocations = 6
SPECIFICATION Spec
CHECK_DEADLOCK FALSE
INVARIANTS
  Aligned
  Disjoint
