SPECIFICATION Spec
CONSTANTS
  Input = Input
  Output = Output
  InputName = InputName
  OutputName = OutputName
  Absent = Absent
  Nobody = Nobody
  u = u
  v = v
  n1 = n1
  n2 = n2
  Vars = {u, v}
  Unnamed = {v}
  Names = {n1}
  MaxPascalFiles = 5
  StdioSize = 2
  Values = {1, 2}
  MaxRecords = 3
  Disciplined = TRUE
INVARIANTS ReadsWhatWasWritten ClosedFilesAreComplete
CHECK_DEADLOCK FALSE
