SPECIFICATION LoaderSpec
CONSTANTS
    Hosts <- MCHosts
    MaxAttempts = 16
INVARIANTS
    RightBinding
    AttemptsReported
CHECK_DEADLOCK FALSE
