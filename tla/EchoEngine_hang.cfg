SPECIFICATION Spec
CONSTANTS
  a4 = a4
  b4 = b4
  a6 = a6
  None = None
  Endpoints = {a6}
  Family <- FamilyOf
  SendQueue = 1
  Capacity = 1
  MaxSlots = 4
  MaxChanges = 0
  MaxReplies = 0
  SocketsMayFail = FALSE
  WriterMayFail = TRUE
  MayTimeOut = TRUE
PROPERTIES
  ShutdownCompletes
CHECK_DEADLOCK FALSE
