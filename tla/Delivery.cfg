SPECIFICATION DeliverySpec
CONSTANTS
  Records = {r1}
  NoRecord = NoRecord
  Streams = {s1}
  MaxCf = 4
  Tick = 1
  FlushSizeBytes = 1
  FlushSizeJitterBytes = 1
  MinSizeLimit = 1
  SyncWrites = TRUE
  EnableManualFlush = FALSE
  Malformed = {}
  ConcurrentCfFlushes = 1
  MaxAttempts = 1
  FaultKinds = {"compile", "commit", "ambiguous", "crash"}
  MaxFaults = 1
  FlushEmpty = FALSE
  RestartAfterExit = FALSE
PROPERTIES
  EventuallyCommitted
