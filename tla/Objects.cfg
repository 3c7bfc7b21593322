CONSTANTS
  Declarations <- MCDeclarations
  MaxClasses = 3
  MaxSize = 4
  Objects = {a, b}
  Values = {one}
  Zero = Zero
  Careful = TRUE
SPECIFICATION Spec
INVARIANTS TypeOK SlotsAreInherited  ReadsAndCallsAsWritten
PROPERTY ImplementsPascalObjects
CHECK_DEADLOCK FALSE
