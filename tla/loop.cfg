SPECIFICATION LoopSpec
CONSTANTS
  StallTime = 5
  GapTime = 4
  MarkerTime = 5
  None = None
  Active = 1
  Idle = 4
  Grace = 3
  Retry = 1
  MaxCollect = 1
  MaxCast = 0
  MaxFails = 1
  MaxVisits = 1
  MaxReads = 1
  Horizon = 20
INVARIANTS
  ReadingsStayFresh
  StallSeenWatched
CHECK_DEADLOCK FALSE
