SPECIFICATION FairSpec
CONSTANTS
  Targets <- TripleTargets
  Resources = {1, 2, 3, 4, 5, 6}
  Domains = {1}
  Scopes = {"all"}
  ResourceOf <- TripleIdentity
  DomainOf <- SharedDomain
  ValidRemoval <- FanRemoval
  Policy <- CorrelatedPolicy
  Bounds <- CorrelatedBounds
  Inputs <- CorrelatedInputs
  EvidenceKeys <- StreamKeys
  MaxRecords = 1
INVARIANTS
  DomainLimit
  SerializedWithinSet
PROPERTIES
  RemovalKeepsCommitments
  BlockedIsStable
  AdmissionIsDeadlockFree
  ImplementsContract
