SPECIFICATION FairSpec
CONSTANTS
  MaxBatches = 2
INVARIANTS
  TypeOK
  PanicsExplained
  FatalsExplained
  StoresUntilStopped
PROPERTIES
  StopEnds
CHECK_DEADLOCK FALSE
