SPECIFICATION FairSpec
CONSTANTS
  Records = {r1}
  None = None
  b1 = b1
  b2 = b2
  Bodies = {b1, b2}
  RuntimeBody <- Forced
  IgnoredFields = {i1, i2}
  IgnoredPaths = {p1}
  Secrets = {s1}
  KeepsIgnored = TRUE
  MaxClock = 0
  Clients = {c1}
  MaxVersions = 2
  MaxAttempts = 2
PROPERTIES
  KeepsSecrets
  LeavesIgnoredAlone
  OperationsReturn
  ActsOnPresent
