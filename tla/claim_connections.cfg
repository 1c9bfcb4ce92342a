SPECIFICATION FabricSpec
CONSTANTS
  Targets <- LoneTargets
  Resources = {1}
  Domains = {1}
  Scopes = {"all"}
  ResourceOf <- LoneIdentity
  DomainOf <- LoneIdentity
  ValidRemoval <- LoneRemoval
  Policy <- ServedPolicy
  Bounds <- ServedBounds
  Inputs <- NoInputs
  EvidenceKeys <- StreamKeys
  MaxRecords = 3
  Sessions = {agent, client}
  Agents = {agent}
  Threads = {w1, w2}
  Threaded = TRUE
  MaxConnections = 1
  Validity = 0
  Modes = {"release", "ignore"}
  Held = 1
  Requests <- RepeatedRequests
  Leavers = {}
  Rude = {}
  MaySignal = FALSE
INVARIANT
  ConnectionsAreLimited
