SPECIFICATION CommandsSpec
CONSTANTS
  Records = {r1}
  None = None
  Fields = {f1, f2}
  Values = {v1, v2}
  Bodies <- MCBodies
  RuntimeBody <- Unforced
  IgnoredFields = {i1}
  IgnoredPaths = {i1}
  Secrets = {}
  KeepsIgnored = TRUE
  MaxClock = 0
  Clients = {s1, s2}
  MaxVersions = 2
  MaxAttempts = 1
  Drafts = {d1}
  Main = main
  Env = prod
  OtherEnv = dev
  Policies <- OnePolicy
  Callers <- OneCaller
  MaxCalls = 2
SYMMETRY Symmetry
PROPERTIES
  NoLostUpdate
CHECK_DEADLOCK FALSE
