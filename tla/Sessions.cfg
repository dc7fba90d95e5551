SPECIFICATION Spec
CONSTANTS
  Request = {q1, q2, q3}
  NoRequest = NoRequest
  MaxSessions = 1
  TokenLife = 2
  SessionLife = 3
  Leeway = 1
  MaxOverlap = 2
  MaxTime = 4
SYMMETRY Symmetry
INVARIANTS
  SessionsAreBounded
  RefreshTokenWorksOnce
  LogoutIsFinal
  SuspensionEndsAccess
CHECK_DEADLOCK FALSE
