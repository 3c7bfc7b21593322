SPECIFICATION Spec
CONSTANTS
  Alphabet = {10, 55, 255}
  MaxLen = 5
  Contents <- MCContents
  Sources = {"file", "pipe", "tty"}
  RecSize = 2
  StrSize = 3
  MixGet = TRUE
INVARIANTS TypeOK BuffersCoherent EofIsTrue
