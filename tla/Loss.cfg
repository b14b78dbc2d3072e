SPECIFICATION Spec
CONSTANTS
  Records = {r1, r2}
  NoRecord = NoRecord
  Streams = {s1}
  MaxCf = 3
  Tick = 1
  FlushSizeBytes = 3
  FlushSizeJitterBytes = 0
  MinSizeLimit = 1
  SyncWrites = TRUE
  EnableManualFlush = FALSE
  Malformed = {r2}
  ConcurrentCfFlushes = 1
  MaxAttempts = 2
  FaultKinds = {"commit", "ambiguous", "compile", "crash", "power"}
  MaxFaults = 2
  FlushEmpty = FALSE
  RestartAfterExit = FALSE
INVARIANTS
  AckedSafe
  Custody
  DuplicatesNeedFaults
  NoCfForgotten
PROPERTIES
  ImplementsBuffer
