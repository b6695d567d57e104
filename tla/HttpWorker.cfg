SPECIFICATION FairSpec
CONSTANTS
  Fds = {f1, f2}
  NoFd = NoFd
  MaxSockets = 2
  MaxChunks = 2
  Chunks <- MCChunks
  ResponseLen = 2
  MaxConnections = 1
  UseZeroCopySend = TRUE
  RegisteredSendBuffer = TRUE
  IdleTimeout = TRUE
INVARIANTS
  ConnectionsWhole
  OnlyRequestsAnswered
PROPERTIES
  RequestsEnd
CHECK_DEADLOCK FALSE
