SPECIFICATION FairSpec
CONSTANTS
  MaxTime = 7
  MaxSamples = 2
  MaxGaps = 1
  MaxMissed = 2
  MaxSlot = 7
  M = 2
  H = 4
  Steps = {1}
  Timeout = 1
  MaxLag = 1
  MaxWait = 2
  Sleep = 0
  RawRetention = 4
  RawFloor = 3
  MinuteRetention = 4
  Month = 3
  HourRetention = 4
  Quota = 2
  PruneBatch = 1
  OverviewWindow = 3
INVARIANTS
  WideSeriesIsExact
CHECK_DEADLOCK FALSE
