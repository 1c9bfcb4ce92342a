SPECIFICATION Spec
CONSTANTS
  Targets <- LoneTargets
  Resources = {1}
  Domains = {1}
  Scopes = {"all"}
  ResourceOf <- LoneIdentity
  DomainOf <- SharedDomain
  ValidRemoval <- LoneRemoval
  Policy <- BasePolicy
  Bounds <- ClaimBounds
  Inputs <- ClaimInputs
  EvidenceKeys <- StreamKeys
  MaxRecords = 3
PROPERTY
  RestoredIsInService
