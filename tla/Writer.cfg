SPECIFICATION Spec
CHECK_DEADLOCK FALSE
CONSTANTS
  MaxProbes = 2
  MaxReplies = 2
  MaxStray = 1
  MaxTime = 2
  Strays = {1}
  Senders = 1
  BatchSize = 2
  MaxOrphans = 2
  Lifetime = 0
  Timeout = 0
  Retention = 1
  Floor = 1
  PruneBatch = 1
  MayFill = TRUE
  MayCancel = TRUE
INVARIANTS
  TypeOK
  EventOnce
  RepliesAccounted
PROPERTIES
  BatchIsStored
