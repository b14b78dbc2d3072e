SPECIFICATION LocksSpec
CONSTANTS
  Streams = {s1, s2}
  Cfs = {c1, c2}
  Permits = 2
  Workers = 2
PROPERTIES
  IngestGoesOn
CHECK_DEADLOCK FALSE
