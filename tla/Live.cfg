\* Leases expire only once their holder is gone; two crashes or database
\* errors, three subscribers, no operator.  Of the loops of a process one that
\* is started before the workers and one after them; a start and a restart.
SPECIFICATION LiveSpec
CONSTANTS
  d1 = d1
  d2 = d2
  Dispatchers = {d1, d2}
  Nobody = Nobody
  NumSubs = 3
  EventMax = 3
  SubMax <- MCSubMax
  BackoffCap = 2
  Rounding = {0, 1}
  MaxRetries = 0
  MaxFaults = 2
  None = None
  MaxIter = 2
  MaxCalls = 2
  Experts = {e1, e2, e3}
  First = e1
  Causes = {c1, c2}
  Workers = {w1, w2}
  Tasks = {t1, t2}
  Followed = {"cleanup", "gaps"}
  MaxStarts = 2
INVARIANTS
  DispatchSound
  AgentSound
  DebateSound
  ProcessSound
PROPERTIES
  SucceededFinal
  Settles
  AllEnd
CHECK_DEADLOCK TRUE
