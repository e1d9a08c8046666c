SPECIFICATION Spec
CONSTANTS
  Targets = {a, b}
  NormalInterval = 2
  FastInterval = 1
  Timeout = 1
  Absolute = 1
  Percent = 0
  BaselineWindow = 2
  MinSamples = 1
  RecoverAfter = 1
  MaxTracked = 2
  Rtts = {0, 2}
  MaxTime = 2
  MaxDelay = 0
  MaxProbes = 2
  MaxGaps = 0
  MaxChanges = 1
  MayStop = FALSE
INVARIANTS
  WithinCapacity
  CadenceFollowsState
PROPERTIES
  DeadlinesAreEnforced
CHECK_DEADLOCK FALSE
