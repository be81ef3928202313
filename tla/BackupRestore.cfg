\* Two tables, one row each: the smallest dump with a second DROP.
SPECIFICATION Spec
CONSTANTS
  Procs = {p1, p2}
  TableRows = {x}
  Keys = {x}
  Vectors = {x}
  NumTables = 2
  MaxTime = 1
  MaxDone = 3
  None = None
PROPERTIES
  RestoreOverwrites
CHECK_DEADLOCK FALSE
