SPECIFICATION Spec
CONSTANTS
  Targets = {t1}
  Endpoints = {e1, e2}
  Routers = {a, b}
  a = a
  b = b
  Hears <- MCHears
  Reaches = {1, 2}
  Closed = {b}
  Unresolved = none
  Sources = {s1}
  Method = "auto"
  MaxHops = 2
  PipelineHops = 2
  ProbesPerHop = 1
  MaxTraces = 4
  MaxChanges = 1
  MaxLate = 1
  MaxDays = 1
  TraceRetention = 0
  ChangeRetention = 0
  TraceFloor = 0
  ChangeFloor = 0
INVARIANTS TypeOK HopsAreTrue ReferencedTracesAreKept
PROPERTIES ChangesAreConfirmed RepeatedRouteIsBaseline
CHECK_DEADLOCK FALSE
SYMMETRY Symmetry
