CONSTANTS
  Variables <- MCVariables
  Pointers <- MCPointers
  Arrays <- MCArrays
  Functions <- MCFunctions
  Constants <- MCConstants
  Literals <- MCLiterals
  Labels <- MCLabels
  Bits = 12
  IntBits = 6
  Programs <- MCPrograms
  Tokens <- MCTokens
  MaxSlipped = 10
SPECIFICATION Spec
INVARIANT TypeOK
INVARIANT WhatIsWrittenIsRead
INVARIANT NothingIsLost
 
PROPERTY ParserAnswers
CHECK_DEADLOCK FALSE
