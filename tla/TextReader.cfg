SPECIFICATION FairSpec
CONSTANTS
  Alphabet = {10, 32, 45, 55}
  MaxLen = 4
  Contents <- MCContents
  Sources = {"file", "pipe", "tty"}
  RecSize = 2
  StrSize = 3
  MixGet = FALSE
PROPERTIES ImplementsPascalText ReadsReturn
