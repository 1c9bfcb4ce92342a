SPECIFICATION FairSpec
CONSTANTS
  Targets <- LoneTargets
  Resources = {1}
  Domains = {1}
  Scopes = {"all"}
  ResourceOf <- LoneIdentity
  DomainOf <- SharedDomain
  ValidRemoval <- LoneRemoval
  Policy <- BasePolicy
  Bounds <- RedrainBounds
  Inputs <- RedrainInputs
  EvidenceKeys <- StreamKeys
  MaxRecords = 3
INVARIANTS
  TypeOK
  OneOwner
  FenceHeld
  ClosedFenceHasOwner
  NoAdmissionBehindFence
PROPERTIES
  GenerationsAdvance
  RestorationSettles
  ImplementsContract
