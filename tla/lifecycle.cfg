SPECIFICATION Spec
CONSTANTS
  Targets <- LoneTargets
  Resources = {1}
  Domains = {1}
  Scopes = {"all"}
  ResourceOf <- LoneIdentity
  DomainOf <- SharedDomain
  ValidRemoval <- LoneRemoval
  Policy <- LifecyclePolicy
  Bounds <- LifecycleBounds
  Inputs <- LifecycleInputs
  EvidenceKeys <- StreamKeys
  MaxRecords = 3
INVARIANTS
  FenceSettledFirst
  RetriesAreBounded
PROPERTIES
  CompletionIsProven
  RetirementIsProven
