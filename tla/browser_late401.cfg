SPECIFICATION BrowserSpec
CONSTANTS
  MaxSessions = 2
  MaxSurprises = 0
  MaxClicks = 1
INVARIANTS
  EndedMeansDead
CHECK_DEADLOCK FALSE
