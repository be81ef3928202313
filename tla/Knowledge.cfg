SPECIFICATION KnowledgeSpec
CONSTANTS
  Docs = {1, 2}
  Clauses <- TheClauses
  Patches <- ThePatches
  Scanners = {s1, s2}
  Reviewers = {p1, p2}
  Editors = {e1}
  Reviewed = {"conflict_negation"}
  Warning = 1
  MaxClock = 2
  MaxScans = 2
  MaxReviews = 1
  MaxEdits = 2
  Requests = {r1, r2}
  Objects = {o1, o2, o3}
  MaxOps = 5
  MaxChunkEdits = 1
  Wordings = {t1, t2}
  MaxDocs = 2
  MaxGapEdits = 2
  Drafts = {d1, d2}
  Quota = 1
  MaxWeeks = 1
  TableRows = {x}
  Keys = {k1, k2}
  Vectors = {x}
  NumTables = 1
  MaxTime = 1
  MaxDone = 3
  None = None
SYMMETRY Symmetric
INVARIANTS
  ReviewsSound
  DocumentsSound
  
  ReflowSound
  BackupsSound
CHECK_DEADLOCK FALSE
