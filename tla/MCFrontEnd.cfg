CONSTANTS
  Word = 256
  MaxLength = 4
  Buffers <- MCBuffers
SPECIFICATION FrontSpec
INVARIANTS
  FrontTypeOK
  ScansTheText
  ErrorsAreRuns
  PlacesRight
  ParsesTheGrammar
  OverflowReportsTrue
  ErrorsSpread
  SpansNest
PROPERTIES
  FrontEnds
