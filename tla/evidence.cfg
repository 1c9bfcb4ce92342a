SPECIFICATION LedgerSpec
CONSTANTS
  EvidenceKeys <- TwoStreams
  MaxRecords = 2
  Scopes = {"a"}
  Skew = 1
  RequireLive = TRUE
  Lines = {1, 2}
  Validities = {0, 1}
  MaxTime = 3
  MaxSeq = 2
  MaxTokens = 1
  MaxScopeGeneration = 1
INVARIANTS
  AttestedIsLive
  NewestIsKept
PROPERTIES
  SequencesAreFresh
  RejectionIsFinal
