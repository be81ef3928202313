\* Two subscribers and an operator who tries the event again once.
SPECIFICATION LiveSpec
CONSTANTS
  d1 = d1
  d2 = d2
  Dispatchers = {d1, d2}
  Nobody = Nobody
  NumSubs = 2
  EventMax = 2
  SubMax <- MCSubMax
  BackoffCap = 2
  Rounding = {0, 1}
  MaxRetries = 1
  MaxFaults = 0
  None = None
  MaxIter = 2
  MaxCalls = 2
  Experts = {e1, e2, e3}
  First = e1
  Causes = {c1, c2}
  Workers = {w1, w2}
  Tasks = {t1, t2}
  Followed = {"backup", "gaps"}
  MaxStarts = 2
PROPERTIES
  SucceededFinal
CHECK_DEADLOCK TRUE
