SPECIFICATION Spec
CONSTANTS
  Records = {r1}
  None = None
  b1 = b1
  b2 = b2
  Bodies = {b1, b2}
  RuntimeBody <- Forced
  IgnoredFields = {i1}
  IgnoredPaths = {p1}
  Secrets = {}
  KeepsIgnored = TRUE
  MaxClock = 1
  Clients = {c1, c2}
  MaxVersions = 3
  MaxAttempts = 2
VIEW View
SYMMETRY Symmetry
INVARIANTS
  TypeOK
  HeadIsLastRow
  ParentChain
  IntervalsAbut
  SomeRowAtEveryInstant
PROPERTIES
  NeverClobbersDrift
  KeepsPromise
