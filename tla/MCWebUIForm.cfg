SPECIFICATION UISpec
CONSTANTS
  Records = {r1, r2}
  Drafts = {d1}
  Main = main
  None = None
  MaxClicks = 2
  MaxFlight = 2
  MaxOthers = 1
INVARIANT FormMeansRecord 
CHECK_DEADLOCK FALSE
