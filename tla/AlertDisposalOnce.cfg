\* No crash, no lost lease: the handler fails once, and is called again.
SPECIFICATION SmoothSpec
CONSTANTS
  Answers = {a1, a2}
  NoAnswer = NoAnswer
  Task = Task
  Sessions = {s1, s2}
  Nobody = Nobody
PROPERTIES
  DisposedOnce
CHECK_DEADLOCK FALSE
