SPECIFICATION BranchesSpec
CONSTANTS
  Records = {r1}
  None = None
  Bodies = {b1, b2, b3}
  RuntimeBody <- Unforced
  IgnoredFields = {i1}
  IgnoredPaths = {i1}
  Secrets = {}
  KeepsIgnored = TRUE
  MaxClock = 0
  MaxVersions = 1
  Users = {u1, u2}
  BranchNames = {dev}
  Main = main
  MaxCommits = 1
  MaxPrs = 1
SYMMETRY Symmetry
INVARIANTS
  RefsTypeOK
  HeadIsOnBranch
  ReportsItsRow
PROPERTIES
  MergesOnBase
  MergeNeverClobbersDrift
