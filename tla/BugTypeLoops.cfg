CONSTANTS
  MaxSize = 2
  Programs <- MCPrograms
SPECIFICATION TypeSpec
PROPERTY
  TypingFinishes
