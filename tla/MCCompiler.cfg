CONSTANTS
  Byte <- MCByte
  Word <- MCWord
  FunctionCapacity = 1
  Realloc = {"in place"}
  Recycled = FALSE
  BindingSlots = 8
  ClosureSlots = 16
  Programs <- AnyPrograms
  Expression <- AnyParts
SPECIFICATION CompileSpec
CHECK_DEADLOCK FALSE
INVARIANTS
  TypeOK
  ContextsNest
  RegistersReserved
  ScopesMatch
  CodeWellFormed
  ModuleComplete
  OverrunsExact
PROPERTIES
  CompilationEnds
