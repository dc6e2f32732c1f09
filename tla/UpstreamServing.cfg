SPECIFICATION Spec
CONSTANTS
  c1 = c1
  c2 = c2
  e1 = e1
  e2 = e2
  ex = ex
  f1 = f1
  f2 = f2
  Clusters = {c1, c2}
  Endpoints = {e1, e2, ex}
  Unusable = {ex}
  Ignored = {c2}
  Confs = {f1, f2}
  Meshes <- MCServing
  MaxResponses = 2
  MaxBatches = 2
  Missing = Missing
PROPERTIES
  NoServiceGap
