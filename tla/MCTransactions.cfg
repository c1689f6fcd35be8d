SPECIFICATION MCSpec
CONSTANTS
  Records = {r1, r2}
  None = None
  Bodies = {b1, b2}
  RuntimeBody <- Unforced
  IgnoredFields = {i1}
  IgnoredPaths = {p1}
  Secrets = {}
  KeepsIgnored = TRUE
  MaxClock = 0
  Clients = {c1, c2}
  MaxAttempts = 2
  Busy = {r1}
VIEW View
INVARIANTS
  OnlyInsertsMakeTwins
PROPERTIES
  ApplyIsAtomic
  AnswerIsTrue
  CallsEnd

CHECK_DEADLOCK FALSE
