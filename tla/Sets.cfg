CONSTANTS
  SetBits = 2
  MaxSetWords = 4
  Variables = {s, t}
  Ranges <- MCRanges
  Elements <- MCElements
  ItemLists <- MCItemLists
  ListsFit = TRUE
  Junk = {0, 1}
SPECIFICATION Spec
INVARIANTS TypeOK 
 
SYMMETRY Symmetric
CHECK_DEADLOCK FALSE
