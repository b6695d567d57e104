SPECIFICATION Spec
CONSTANTS
  Fds = {f1, f2}
  NoFd = NoFd
  Slots = {s1}
  NoSlot = NoSlot
  IdMax = 2
  MaxSockets = 2
  MaxChunks = 1
  MaxCommands = 1
  Lens = {1}
  Shapes = {"sendBatchAndClose", "close"}
  CommandQueueCapacity = 2
  SendQueueCapacity = 1
  MaxConnections = 1
  SlotSize = 2
  UseZeroCopySend = FALSE
  UseFixedSendBuffer = TRUE
  IdleTimeout = TRUE
  GraceTicks = 1
  DrainTicks = 1
  SendsMayFail = TRUE
  MayStop = FALSE
  WorkerMayFail = FALSE
INVARIANTS
  DescriptorsOwned
  NoFdForgotten
  SendOnOwnSocket
  ArmedOnce
  ConnectionLife
SYMMETRY Symmetry
CHECK_DEADLOCK FALSE
