CONSTANTS
  Leaves <- MCLeaves
  Operands <- MCLeaves
  Ops <- MCOps
  Targets <- MCTargets
  Indexes <- MCIndexes
  MaxStringLen = 4
  MaxOps = 2
  MaxReal = 4
  MaxStored = 2
  Careful = TRUE
SPECIFICATION Spec
INVARIANTS TypeOK AcceptedCompiles TypesAreGenerated  CallsHappenOnce
CHECK_DEADLOCK FALSE
