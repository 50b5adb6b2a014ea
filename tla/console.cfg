SPECIFICATION ConsoleSpec
CONSTANTS
  MaxSessions = 2
  TrendTime = 1
  GapTime = 1
  MinChange = 1
  LagLimits = {1, 3}
  Unknown = Unknown
  Gaps = {1}
  MaxReadings = 2
  MaxExtras = 1
  MaxHistory = 5
  MaxPolls = 2
  MaxPolled = 1
  MaxLog = 2
  Backlog = 2
  AuditPage = 1
  Stamps = {1, 2}
  MaxBatch = 2
  MaxTold = 3
  MaxLogged = 1
  Selections = {x, y}
  FirstSelection = x
  MaxLedger = 1
  Ranges = {day, week}
  FirstRange = day
  MaxPage = 2
  MaxClicks = 2
  MaxAnalysed = 3
  Versions = {v, w}
  Rules = {r, q}
CHECK_DEADLOCK FALSE
INVARIANTS
  ConsoleTypeOK
  NewestReadingShown
  BarAgreesWithMatrix
  OutlivesOnlyByLateAnswer
  RunViewIsCurrent
  LogKeepsNewest
  LedgerShowsChoice
  RetryIsOwed
  PanelsShowChosen
  AnalysisIsOfVersion
