SPECIFICATION LoopSpec
CONSTANTS
  StallTime = 6
  GapTime = 6
  MarkerTime = 6
  None = None
  Active = 1
  Idle = 6
  Grace = 6
  Retry = 1
  MaxCollect = 2
  MaxCast = 0
  MaxFails = 0
  MaxVisits = 0
  MaxReads = 0
  Horizon = 40
INVARIANTS
  StallSeenIdle
CHECK_DEADLOCK FALSE
