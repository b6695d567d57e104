SPECIFICATION Spec
CONSTANTS
    MaxStarts = 2
    MaxSockets = 2
    MaxCalls = 3
    HandshakeLimits = {0, 1}
CHECK_DEADLOCK FALSE
INVARIANTS
    OneTcpServer
    SocketsTracked
    TimerGuardsHandshake
PROPERTIES
    HandshakesEnd
