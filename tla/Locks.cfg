SPECIFICATION LocksSpec
CONSTANTS
  Streams = {s1, s2}
  Cfs = {c1, c2, c3}
  Permits = 2
  Workers = 3
INVARIANTS
  LocksTypeOK
PROPERTIES
  IngestGoesOn
  FlushGoesOn
