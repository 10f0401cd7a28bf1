SPECIFICATION Spec
CONSTANTS
  Names = {f}
  Handlers = {h1}
  Workers = {w1, w2}
  f = f
  h1 = h1
  w1 = w1
  w2 = w2
  MaxVersion = 2
  MaxDeliver = 2
  MaxCrashes = 1
  Started = FALSE
  Operations = {"create", "update"}
  Faults = {"publish", "cluster", "settle"}
INVARIANTS
  NoLostDeployment
SYMMETRY Symmetry
CHECK_DEADLOCK FALSE
