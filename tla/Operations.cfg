\* Two requests, executions, dispatchers or workers at once, four requests
\* about a ticket.  Some of the services stop when their bounds are used up.
SPECIFICATION OperationsSpec
CONSTANTS
  Sessions = {s1, s2, s3, s4}
  Absent = Absent
  Executions = {s1, s2}
  Answers = {a1, a2}
  MaxGen = 2
  FewAnswers = {a1}
  FewGens = 1
  AlertTask = t1
  Kind <- TheKind
  Batches <- TheBatches
  Canonical = {"device"}
  MaxSends = 2
  MaxMaps = 2
  Keys = {"one", "other"}
  MaxCalls = 3
  Alerts = {a1}
  MaxUrges = 2
  MaxMoves = 2
  MaxSyncs = 3
  Logs = {1, 2}
  MaxTime = 2
  MaxArchives = 3
  t1 = t1
  t2 = t2
  q1 = q1
  None = None
  Nobody = Nobody
  Error = Error
  NoAnswer = NoAnswer
SYMMETRY Symmetric
INVARIANTS
  TicketsSound
  RunsSound
  DisposalSound
  DeliverySound
  NoOverlap
  IntakeSound
  RecordsSound
  LedgerSound
  ArchiveSound
  AuditSound
PROPERTIES
  DecisionFinal
CHECK_DEADLOCK FALSE
