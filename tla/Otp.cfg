SPECIFICATION Spec
CONSTANTS
  Requester = {r1, r2}
  Verifier = {v1, v2}
  Burst = 2
  DailyLimit = 3
  MaxAttempts = 1
  MaxCodes = 3
  MaxDaily = 3
  MaxTries = 2
SYMMETRY Symmetry
INVARIANTS
  AttemptsAreLimited
  OneLiveCode
  MessagesAreLimited
CHECK_DEADLOCK FALSE
