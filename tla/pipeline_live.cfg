SPECIFICATION FairSpec
CONSTANTS
  Names = {f}
  Handlers = {h1}
  Workers = {w1}
  f = f
  h1 = h1
  w1 = w1
  MaxVersion = 2
  MaxDeliver = 2
  MaxCrashes = 1
  Started = TRUE
  Operations = {"create", "update", "delete"}
  Faults = {"publish", "cluster", "undeploy", "earlyExpiry"}
INVARIANTS
  LatestWins
PROPERTIES
  EverySettles
CHECK_DEADLOCK FALSE
