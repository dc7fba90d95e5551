SPECIFICATION Spec
CONSTANTS
  Conn = {k1, k2}
  PingEvery = 3
  PongWithin = 1
  Fresh = 5
  MaxFaults = 1
CHECK_DEADLOCK FALSE
INVARIANTS
  GoneGuardsAreHidden
  DeadSocketsEnd
PROPERTY
  ConnectedGuardsAreFound
