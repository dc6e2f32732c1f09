SPECIFICATION FairSpec
CONSTANTS
  k1 = k1
  k2 = k2
  v1 = v1
  v2 = v2
  Keys = {k1, k2}
  Values = {v1, v2}
  Batches <- MCBatches
  MaxBatches = 3
  MaxTime = 3
  Missing = Missing
INVARIANTS
  TypeOK
  UpToDate
PROPERTIES
  ChangesAreApplied
