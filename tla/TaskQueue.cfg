\* Two rows of one queue, two workers: every interleaving of claims, stalled
\* runs, recoveries, operator actions and one database error.  t2
\* may be retried by an operator once, which is what AttemptCap leaves room for.
SPECIFICATION FairSpec
CONSTANTS
  t1 = t1
  t2 = t2
  w1 = w1
  w2 = w2
  w3 = w3
  q1 = q1
  q2 = q2
  Tasks = {t1, t2}
  Workers = {w1, w2}
  NoWorker = NoWorker
  NoTask = NoTask
  QueueOf <- MCQueueOf
  ServedQueue <- MCServedQueue
  Priority <- MCPriority
  RequestedMax <- MCRequestedMax
  RequestedDelay <- MCRequestedDelay
  StaleAfter = 1
  HeartbeatEvery = 1
  BackoffCap = 1
  AttemptCap = 2
  MaxFaults = 1
INVARIANTS
  TypeOK
  NeverStranded
  LeasesHeld
  OutcomesEarned
PROPERTIES
  HistoryRespected
  KeepsContract
  Settles
CHECK_DEADLOCK TRUE
