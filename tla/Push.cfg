SPECIFICATION Spec
CONSTANTS
  u1 = u1
  u2 = u2
  shared = shared
  own = own
  User <- People
  Device <- Phones
  UsedBy <- Habits
  Life = 3
  Buffer = 1
  Patience = 1
  MaxEvents = 2
  MaxCalls = 1
  Nobody = Nobody
INVARIANTS
  DeviceFollowsItsUser
  OneExchangeServesAll
PROPERTIES
  EveryPushEnds
CHECK_DEADLOCK FALSE
