CONSTANTS
  Byte <- MCByte
  Word <- MCWord
  FunctionCapacity = 10
  Realloc = {"in place"}
  Recycled = TRUE
  MaxNodes = 7
  Programs <- GoodPrograms
  Expression <- GoodParts
SPECIFICATION Spec
INVARIANTS
  ResultCorrect
  ErrorsAreExact
  ClosuresAreFreeVariables
  ClosureInR0
  SlotsWrittenOnce
PROPERTY
  Finishes
