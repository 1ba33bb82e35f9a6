CONSTANTS
  MaxSize = 4
  Programs <- MCPrograms
SPECIFICATION TypeSpec
INVARIANTS
  TypeTypeOK
  PrincipalType
  OnlySelfLoops
  TempsClean
  GenericsApart
PROPERTY
  TypingEnds
