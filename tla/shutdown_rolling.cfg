SPECIFICATION Spec
CONSTANTS
  Deployments = {d1}
  Workers = {w1, w2}
  d1 = d1
  w1 = w1
  w2 = w2
  NoDeployment = none
  MaxDeliver = 2
  MaxSignals = 1
  Restarts = FALSE
  Patient = TRUE
  ClusterFails = FALSE
INVARIANTS
  SweepResumes
SYMMETRY Symmetry
CHECK_DEADLOCK FALSE
