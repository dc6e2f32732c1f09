SPECIFICATION Spec
CONSTANTS
  r1 = r1
  r2 = r2
  Routes = {r1, r2}
  ConfigNames = {"a", "b"}
  PluginNames <- MCPluginNames
  Versions <- MCVersions
  Responses <- MCOnlyA
  MeshRoutes <- MCMeshRoutes
  Unparsable = {"bad"}
  NoRoute = NoRoute
  MaxPending = 2
INVARIANTS
  NoCircularWait
