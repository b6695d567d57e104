SPECIFICATION Spec
CONSTANTS
    MaxStarts = 2
    MaxSockets = 2
    MaxCalls = 3
    HandshakeLimits = {1}
CHECK_DEADLOCK FALSE
INVARIANT
    ConnectionsServed
