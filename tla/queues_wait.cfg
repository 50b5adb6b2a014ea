SPECIFICATION HistorySpec
CONSTANTS
  StallTime = 3
  GapTime = 2
  MarkerTime = 2
  None = None
  Gaps = {1, 2, 3}
  MaxReadings = 4
INVARIANTS
  WaitNotAnnounced
CHECK_DEADLOCK FALSE
