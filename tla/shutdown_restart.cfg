SPECIFICATION Spec
CONSTANTS
  Deployments = {d1, d2}
  Workers = {w1, w2}
  d1 = d1
  d2 = d2
  w1 = w1
  w2 = w2
  NoDeployment = none
  MaxDeliver = 2
  MaxSignals = 2
  Restarts = TRUE
  Patient = FALSE
  ClusterFails = TRUE
INVARIANTS
  TypeOK
  NoneStranded
SYMMETRY Symmetry
CHECK_DEADLOCK FALSE
