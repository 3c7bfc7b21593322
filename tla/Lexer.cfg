SPECIFICATION Spec
CONSTANTS
  IntBits = 7
  LongBits = 12
  MaxExponent = 8
  MaxErrors = 1
  CommentLength = 5
  SymbolLength = 4
  StringLength = 4
  NumberLength = 3
  LineLength = 4
  MixedLength = 3
  Texts <- MCTexts
INVARIANT TypeOK
PROPERTIES   TokensAdvance
CHECK_DEADLOCK FALSE
