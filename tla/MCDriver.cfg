CONSTANTS
  Byte <- MCByte
  Word <- MCWord
  FunctionCapacity = 10
  Realloc = {"in place"}
  Recycled = TRUE
  Texts <- MCTexts
SPECIFICATION DriverSpec
INVARIANTS
  ExitStatusRight
  PrintsMeaning
PROPERTY
  Exits
