SPECIFICATION Spec
CONSTANTS
  a4 = a4
  b4 = b4
  a6 = a6
  None = None
  Endpoints = {a4, b4, a6}
  Family <- FamilyOf
  SendQueue = 1
  Capacity = 1
  MaxSlots = 2
  MaxChanges = 1
  MaxReplies = 1
  SocketsMayFail = TRUE
  WriterMayFail = FALSE
  MayTimeOut = FALSE
INVARIANTS
  TypeOK
  RightFamily
  NothingLost
PROPERTIES
  ShutdownCompletes
CHECK_DEADLOCK FALSE
