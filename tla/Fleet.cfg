SPECIFICATION Spec
CONSTANTS
  Engines = {e1, e2}
  MaxAttempts = 2
  MaxBatches = 1
  Deployments <- MCDeployments
  Clients <- MCClients
  FaultKinds = {"catalog", "ambiguous", "commit", "compile", "crash"}
  MaxFaults = 1
SYMMETRY EngineSymmetry
INVARIANTS
  FleetTypeOK
  CacheSound
  CommitterOnlyLoads
  RacesBounded
  RetriesAreOwed
PROPERTIES
  AcceptedSurvives
  StartSucceeds
