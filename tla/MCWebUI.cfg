SPECIFICATION MCSpec
CONSTANTS
  Records = {r1, r2}
  Drafts = {d1}
  Main = main
  None = None
  MaxClicks = 2
  MaxFlight = 2
  MaxOthers = 1
INVARIANTS
  DraftStaysDraft
  FormMeansBranch
PROPERTIES
  PicksUpChanges
  HistoryFollows
CHECK_DEADLOCK FALSE
