SPECIFICATION Spec
CONSTANTS
  k1 = k1
  k2 = k2
  pod1 = pod1
  la = la
  lb = lb
  Keys = {k1, k2}
  Pods = {pod1}
  Labels = {la, lb}
  PluginNames = {"a", "b"}
  Configs = {1, 2}
  Plugins <- MCPlugins
  Specs <- MCSpecs
  NoSelector = NoSelector
  BadSelector = BadSelector
  FirstVersions = {5}
  MaxChanges = 3
CHECK_DEADLOCK FALSE
INVARIANTS
  TypeOK
  CachesFollowObjects
  StatusWritesSettle
  PodsUpToDate
