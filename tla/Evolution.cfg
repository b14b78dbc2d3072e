SPECIFICATION Spec
CONSTANTS
  Engines = {e1}
  MaxAttempts = 2
  MaxBatches = 1
  Deployments <- EvolutionDeployments
  Clients <- EvolutionClients
  FaultKinds = {}
  MaxFaults = 0
PROPERTY AcceptedNeverDropped
