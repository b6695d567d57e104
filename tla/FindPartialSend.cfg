SPECIFICATION Spec
CONSTANTS
  Fds = {f1}
  NoFd = NoFd
  Slots = {s1}
  NoSlot = NoSlot
  IdMax = 1
  MaxSockets = 1
  MaxChunks = 1
  MaxCommands = 1
  Lens = {2}
  Shapes = {"sendAndClose"}
  CommandQueueCapacity = 2
  SendQueueCapacity = 1
  MaxConnections = 0
  SlotSize = 2
  UseZeroCopySend = TRUE
  UseFixedSendBuffer = TRUE
  IdleTimeout = FALSE
  GraceTicks = 1
  DrainTicks = 1
  SendsMayFail = FALSE
  MayStop = FALSE
  WorkerMayFail = FALSE
INVARIANTS
  AllSentBeforeClose
CHECK_DEADLOCK FALSE
