SPECIFICATION Spec
CONSTANTS
  Records = {r1, r2}
  NoRecord = NoRecord
  Streams = {s1}
  MaxCf = 3
  Tick = 1
  FlushSizeBytes = 1
  FlushSizeJitterBytes = 0
  MinSizeLimit = 1
  SyncWrites = TRUE
  EnableManualFlush = FALSE
  Malformed = {}
  ConcurrentCfFlushes = 1
  MaxAttempts = 2
  FaultKinds = {"catalog"}
  MaxFaults = 1
  FlushEmpty = TRUE
  RestartAfterExit = FALSE
INVARIANTS
  NoCfForgotten
