SPECIFICATION DetectorSpec
CONSTANTS
  StallTime = 2
  GapTime = 1
  MarkerTime = 2
  None = None
  Gaps = {1, 2}
  MaxReadings = 5
  TrendTime = 2
  MinChange = 1
  LagLimits = {1}
  Unknown = Unknown
  Depths = {0, 1, 2}
  MaxTold = 5
  Requests = {r1}
  MaxAcks = 2
  MaxRateTime = 2
  Readers = {r2}
  JobTime = 2
  MaxLoads = 1
  MaxJobTime = 3
  MaxCollections = 3
  SnapshotTime = 3
  RefreshBudget = 1
  MaxStarts = 2
  MaxGaugeTime = 5
INVARIANTS
  DetectorTypeOK
  ConditionIsReal
  ProblemsAreAnnounced
  WindowIsHonest
  TransitionsAreTold
  RatesCountOnce
  JobsAreCurrent
  GaugesShareOneReading
CHECK_DEADLOCK FALSE
