SPECIFICATION Spec
CONSTANTS
  Targets = {a}
  NormalInterval = 2
  FastInterval = 1
  Timeout = 2
  Absolute = 0
  Percent = 50
  BaselineWindow = 3
  MinSamples = 1
  RecoverAfter = 2
  MaxTracked = 20
  Rtts = {1, 2}
  MaxTime = 6
  MaxDelay = 1
  MaxProbes = 3
  MaxGaps = 1
  MaxChanges = 1
  MayStop = TRUE
INVARIANTS
  TypeOK
  DegradedNeverLearned
PROPERTIES
  RecoveryIsEarned
CHECK_DEADLOCK FALSE
