SPECIFICATION FairSpec
CONSTANTS
  MaxStarts = 2
  MaxCommands = 4
  Capacity = 2
INVARIANTS
  NoLostWakeup
  ServerWhole
PROPERTIES
  CallsTakeEffect
CHECK_DEADLOCK FALSE
