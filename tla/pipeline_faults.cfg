SPECIFICATION Spec
CONSTANTS
  Names = {f, g}
  Handlers = {h1, h2}
  Workers = {w1, w2}
  f = f
  g = g
  h1 = h1
  h2 = h2
  w1 = w1
  w2 = w2
  MaxVersion = 2
  MaxDeliver = 3
  MaxCrashes = 0
  Started = TRUE
  Operations = {"create", "update", "delete"}
  Faults = {"abort", "database", "cluster", "undeploy"}
INVARIANTS
  TypeOK
  FailedMeansExhausted
  CleanDelete
  RunningIsServed
PROPERTIES
  SettlesOnce
SYMMETRY Symmetry
CHECK_DEADLOCK FALSE
