SPECIFICATION Spec
CONSTANTS
  MaxTime = 6
  MaxSamples = 3
  MaxTraffic = 1
  MaxLinks = 2
  MaxFaults = 1
  MaxPause = 1
  M = 2
  H = 4
  RawRetention = 3
  RawFloor = 3
INVARIANTS
  TypeOK
  GenerationsAreOrdered
  NoInventedTraffic
  DifferencesAreOwned
  SeriesIsExact
CHECK_DEADLOCK FALSE
