CONSTANTS
  Width = 5
  MaxRangeInSwitch = 2
  SetBits = 2
  Arrays <- MCArrays
  Sets <- MCSets
  Programs <- MCPrograms
  MaxOutput = 64
  Fuel = 40
  Junk = {0}
SPECIFICATION Spec
INVARIANTS FunctionVerifies NoUndefinedValue RunsAsMeant
PROPERTY EndsIfMeant
CHECK_DEADLOCK FALSE
