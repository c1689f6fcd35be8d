SPECIFICATION BulkSpec
CONSTANTS
  Records = {r1, r2}
  None = None
  Incomplete = b1
  Whole = b2
  Bodies = {b1, b2}
  RuntimeBody <- Completed
  IgnoredFields = {i1}
  IgnoredPaths = {i1}
  Secrets = {}
  KeepsIgnored = TRUE
  MaxClock = 1
  Operators = {o1}
  MaxPast = 2
  MaxMoves = 1
VIEW View
SYMMETRY Symmetry
INVARIANTS
  BlockedWritesNothing
  ReportAccounts
  SuccessIsThere
  TagIsHeads
PROPERTIES
  RerunSkipsApplied
  BulkActsOnPresent

CHECK_DEADLOCK FALSE
