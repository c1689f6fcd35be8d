SPECIFICATION LastingSpec
CONSTANTS
  Records = {r1}
  None = None
  Bodies = {b1, b2}
  RuntimeBody <- Unforced
  IgnoredFields = {i1}
  IgnoredPaths = {i1}
  Secrets = {}
  KeepsIgnored = TRUE
  MaxClock = 0
  MaxVersions = 0
  Users = {u1, u2}
  BranchNames = {dev}
  Main = main
  MaxCommits = 2
  MaxPrs = 1
SYMMETRY Symmetry
PROPERTIES
  MergesWhatPrShows
