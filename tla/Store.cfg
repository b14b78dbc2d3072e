SPECIFICATION Spec
CONSTANTS
  Records = {r1, r2}
  NoRecord = NoRecord
  Streams = {s1, s2}
  MaxCf = 4
  Tick = 2
  FlushSizeBytes = 1
  FlushSizeJitterBytes = 0
  MinSizeLimit = 1
  SyncWrites = TRUE
  EnableManualFlush = FALSE
  Malformed = {}
  ConcurrentCfFlushes = 1
  MaxAttempts = 1
  FaultKinds = {"clock", "rotate", "panic", "drop", "crash"}
  MaxFaults = 2
  FlushEmpty = TRUE
  RestartAfterExit = TRUE
SYMMETRY RecordSymmetry
INVARIANTS
  TypeOK
  BytesConserved
  PermitsConserved
  DuplicatesNeedFaults
PROPERTIES
  NeverOverwrites
