SPECIFICATION BusSpec
CONSTANTS
  Producers = {p1, p2}
  Capacity = 2
  MaxEvents = 3
INVARIANTS
  BusTypeOK
  SlotAccounting
  PublishNeverBlocks
PROPERTIES
  StreamSafe
  Progress
CHECK_DEADLOCK FALSE
