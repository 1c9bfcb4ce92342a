SPECIFICATION RecoverySpec
CONSTANTS
  None = None
  Torn = Torn
  BootIds = {0, 1}
  MaxLine = 3
  MaxContents = 2
INVARIANTS
  LinesAdvance
  SaveIsAllOrNothing
  RefusalHasCause
