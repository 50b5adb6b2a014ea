SPECIFICATION BrowserSpec
CONSTANTS
  MaxSessions = 2
  MaxSurprises = 1
  MaxClicks = 2
INVARIANTS
  BrowserTypeOK
  FeedFollowsPanel
  SignedOutStaysOut
  EndsForCause
  FeedNeverStranded
CHECK_DEADLOCK FALSE
