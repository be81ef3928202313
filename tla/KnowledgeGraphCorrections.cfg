\* One extraction and one correction suffice.
SPECIFICATION Spec
CONSTANTS
  Docs = {1, 2}
  Own = {1}
  Facts = {"a", "b"}
  Says <- TheSays
  Means <- TheMeans
  Extractions = {x1}
  MaxExtracts = 2
  MaxEdits = 1
  MaxAsks = 1
  TopK = 1
  None = None
INVARIANTS
  CorrectionReachesGraph
CHECK_DEADLOCK FALSE
