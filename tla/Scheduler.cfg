SPECIFICATION Spec
CONSTANTS
  a = a
  b = b
  Targets = {a, b}
  NormalInterval <- TwoTargets
  Cadences = {1, 2}
  GapFlushInterval = 2
  MaxTime = 3
  MaxUpdates = 2
INVARIANTS
  TypeOK
  SlotsAccounted
  NeverOversleeps
PROPERTIES
  ChangeKeepsDistance
  CadenceConverges
CHECK_DEADLOCK FALSE
