SPECIFICATION Spec
CONSTANTS
  User = {u1, u2, adm}
  Callable = {u1, u2}
  Call = {k1, k2}
  BusyWindow = 1
  RingTimeout = 2
  MaxStall = 1
  NoUser = NoUser
INVARIANTS
  RowTellsStory
  ChatTellsOutcome
  OneOutcomeAnnounced
PROPERTIES
  CallsKeepPromise
