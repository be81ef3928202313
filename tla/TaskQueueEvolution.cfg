\* The queues of the deployment: nobody serves the one the scan goes to.
SPECIFICATION FairSpec
CONSTANTS
  t1 = t1
  t2 = t2
  w1 = w1
  w2 = w2
  w3 = w3
  q1 = q1
  q2 = q2
  Tasks = {t1}
  Workers = {w1, w2, w3}
  NoWorker = NoWorker
  NoTask = NoTask
  QueueOf <- DeployedQueueOf
  ServedQueue <- DeployedServed
  Priority <- MCPriority
  RequestedMax <- DeployedMax
  RequestedDelay <- MCRequestedDelay
  StaleAfter = 1
  HeartbeatEvery = 1
  BackoffCap = 1
  AttemptCap = 2
  MaxFaults = 1
PROPERTIES
  EvolutionScanRuns
CHECK_DEADLOCK TRUE
