SPECIFICATION WorkerSpec
CONSTANTS
  Fds = {f1}
  NoFd = NoFd
  Slots = {s1}
  NoSlot = NoSlot
  IdMax = 1
  MaxSockets = 1
  MaxChunks = 0
  MaxCommands = 1
  Lens = {2}
  Shapes = {"sendBatch", "sendBatchAndClose"}
  CommandQueueCapacity = 2
  SendQueueCapacity = 1
  MaxConnections = 0
  SlotSize = 2
  UseZeroCopySend = TRUE
  UseFixedSendBuffer = TRUE
  IdleTimeout = FALSE
  GraceTicks = 1
  DrainTicks = 2
  SendsMayFail = TRUE
  MayStop = TRUE
  WorkerMayFail = TRUE
INVARIANTS
  BuffersSafe
  SomeoneFinishes
PROPERTIES
  ImplementsTcpStream
  StopReturns
  CloseCompletes
CHECK_DEADLOCK FALSE
