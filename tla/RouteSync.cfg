SPECIFICATION FairSpec
CONSTANTS
  out = out
  in = in
  Missing = Missing
  LowerCase <- MCLowerCase
  Mesh <- MCMesh
  InitialMeshes = {1}
  Queries <- MCQueries
  MaxChanges = 2
  MaxMessages = 3
  MaxBatches = 2
INVARIANTS TypeOK RoutesStored RequestsFollowMesh RoutesOfListeners
PROPERTIES EventsAreTheDifference RoutesConverge
CHECK_DEADLOCK FALSE
