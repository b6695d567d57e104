SPECIFICATION Spec
CONSTANTS
    Ids = {1, 2}
    MaxStarts = 2
    MaxEvents = 2
    MaxCalls = 4
INVARIANTS
  ServerWhole
  ConnectionProtocol
  NobodyForgotten
  ClosesTold
  StaysInItsRun
CHECK_DEADLOCK FALSE
