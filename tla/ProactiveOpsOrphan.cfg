\* A run whose last attempt crashes.
SPECIFICATION TimelySpec
CONSTANTS
  Answers = {a1, a2}
  NoAnswer = NoAnswer
  Sessions = {s1, s2}
  Nobody = Nobody
  MaxGen = 1
INVARIANTS
  RunTakenOver
CHECK_DEADLOCK FALSE
