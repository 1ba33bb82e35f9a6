CONSTANTS
  ARENA_SIZE = 128
  POINTER = 8
  Bases <- MCBases
  Sizes <- MCSizes
  MaxAllocations = 6
SPECIFICATION Spec
CHECK_DEADLOCK FALSE
INVARIANTS
  InBlock
