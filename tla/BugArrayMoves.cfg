CONSTANTS
  Byte <- MCByte
  Word <- MCWord
  FunctionCapacity = 2
  Realloc = {"moved"}
  Recycled = TRUE
  BindingSlots = 8
  ClosureSlots = 16
  Programs <- NestedFunctions
  Expression <- NestedParts
SPECIFICATION CompileSpec
CHECK_DEADLOCK FALSE
INVARIANTS
  ModuleComplete
