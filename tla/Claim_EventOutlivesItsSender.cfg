SPECIFICATION SignalingSpec
CONSTANTS
  Caller = Caller
  Callee = Callee
  K1 = K1
  K2 = K2
  K3 = K3
  Server = Server
  Peer = {Caller, Callee}
  Conn <- Sockets
  Owner <- CalleeTwice
  Plans <- OnlyHangUp
INVARIANT
  EventOutlivesItsSender
CHECK_DEADLOCK FALSE
