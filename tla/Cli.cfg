SPECIFICATION FairSpec
CONSTANTS
    ReportPaths = {"none", "good", "broken"}
    Interfaces = {"lo", "eth0"}
INVARIANTS
    PassedIsMeasured
    ReportedAreStopped
    ExitTells
PROPERTIES
    RunEnds
CHECK_DEADLOCK FALSE
