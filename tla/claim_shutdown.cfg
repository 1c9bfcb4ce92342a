SPECIFICATION FabricSpec
CONSTANTS
  Targets <- LoneTargets
  Resources = {1}
  Domains = {1}
  Scopes = {"all"}
  ResourceOf <- LoneIdentity
  DomainOf <- LoneIdentity
  ValidRemoval <- LoneRemoval
  Policy <- ServedPolicy
  Bounds <- ServedBounds
  Inputs <- NoInputs
  EvidenceKeys <- StreamKeys
  MaxRecords = 3
  Sessions = {"client"}
  Agents = {}
  Threads = {1}
  Threaded = FALSE
  MaxConnections = 3
  Validity = 0
  Modes = {"release"}
  Held = 1
  Requests <- ShutdownOnly
  Leavers = {}
  Rude = {}
  MaySignal = FALSE
PROPERTY
  ShutdownStops
