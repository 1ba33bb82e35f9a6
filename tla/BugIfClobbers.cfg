CONSTANTS
  Byte <- MCByte
  Word <- MCWord
  FunctionCapacity = 10
  Realloc = {"in place"}
  Recycled = TRUE
  MaxNodes = 1
  Programs <- VariableBranches
  Expression <- VariableParts
SPECIFICATION Spec
CHECK_DEADLOCK FALSE
INVARIANTS
  ClosureInR0
