SPECIFICATION UpdateSpec
CONSTANTS
  Procs = {p1, p2}
  None = None
  Interval = 2
  Snooze = 2
  MaxClock = 3
  MaxCalls = 3
SYMMETRY Symmetry
INVARIANTS
  SnoozeHolds
  ThrottleHolds
CHECK_DEADLOCK FALSE
