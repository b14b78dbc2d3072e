SPECIFICATION ShutdownSpec
CONSTANTS
  Records = {r1}
  NoRecord = NoRecord
  Streams = {s1}
  MaxCf = 3
  Tick = 1
  FlushSizeBytes = 1
  FlushSizeJitterBytes = 0
  MinSizeLimit = 1
  SyncWrites = TRUE
  EnableManualFlush = TRUE
  Malformed = {}
  ConcurrentCfFlushes = 1
  MaxAttempts = 2
  FaultKinds = {"compile", "write", "catalog"}
  MaxFaults = 1
  FlushEmpty = TRUE
  RestartAfterExit = FALSE
INVARIANTS
  CleanExit
  SendNeverFails
PROPERTIES
  ShutdownCompletes
  NotifyFlushes
