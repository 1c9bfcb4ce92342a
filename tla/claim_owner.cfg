SPECIFICATION FabricSpec
CONSTANTS
  Targets <- LoneTargets
  Resources = {1}
  Domains = {1}
  Scopes = {"all"}
  ResourceOf <- LoneIdentity
  DomainOf <- LoneIdentity
  ValidRemoval <- LoneRemoval
  Policy <- ServedPolicy
  Bounds <- TwoAgentBounds
  Inputs <- NoInputs
  EvidenceKeys <- StreamKeys
  MaxRecords = 3
  Sessions = {"a", "b", "client"}
  Agents = {"a", "b"}
  Threads = {1}
  Threaded = FALSE
  MaxConnections = 3
  Validity = 0
  Modes = {"release"}
  Held = 1
  Requests <- DrainOnly
  Leavers = {}
  Rude = {}
  MaySignal = FALSE
INVARIANT
  OwnersAreAsked
