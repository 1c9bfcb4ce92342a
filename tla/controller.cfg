SPECIFICATION FabricSpec
CONSTANTS
  Targets <- LoneTargets
  Resources = {1}
  Domains = {1}
  Scopes = {"all"}
  ResourceOf <- LoneIdentity
  DomainOf <- LoneIdentity
  ValidRemoval <- LoneRemoval
  Policy <- ServedPolicy
  Bounds <- ServedBounds
  Inputs <- NoInputs
  EvidenceKeys <- StreamKeys
  MaxRecords = 3
  Sessions = {"agent", "client"}
  Agents = {"agent"}
  Threads = {1}
  Threaded = TRUE
  MaxConnections = 2
  Validity = 0
  Modes = {"release", "fail"}
  Held = 1
  Requests <- ServedRequests
  Leavers = {"agent"}
  Rude = {"client"}
  MaySignal = TRUE
PROPERTIES
  EvacuationSettles
  CallsReturn
  SignalStops
