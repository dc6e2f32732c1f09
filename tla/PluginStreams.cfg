SPECIFICATION FairSpec
CONSTANTS
  p1 = p1
  p2 = p2
  Pods = {p1, p2}
  Streams = {1, 2, 3}
  PodOf <- MCPodOf
  MaxVersion <- MCMaxVersion
  None = None
CHECK_DEADLOCK FALSE
INVARIANTS
  TypeOK
  NoLostUpdate
  ManagedInstancesCounted
PROPERTIES
  ImplementsFeed
