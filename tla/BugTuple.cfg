CONSTANTS
  Byte <- MCByte
  Word <- MCWord
  FunctionCapacity = 10
  Realloc = {"in place"}
  Recycled = TRUE
  MaxNodes = 1
  Programs <- MixedTuples
  Expression <- TupleParts
SPECIFICATION Spec
INVARIANTS
  ResultCorrect
