SPECIFICATION Spec
CONSTANTS
  Input = Input
  Output = Output
  InputName = InputName
  OutputName = OutputName
  Absent = Absent
  Nobody = Nobody
  u = u
  v = v
  n1 = n1
  n2 = n2
  Vars = {u, v}
  Unnamed = {v, Input}
  Names = {n1}
  MaxPascalFiles = 4
  StdioSize = 2
  Values = {1}
  MaxRecords = 1
  Disciplined = FALSE
INVARIANTS TypeOK EntriesOwned
 
CHECK_DEADLOCK FALSE
