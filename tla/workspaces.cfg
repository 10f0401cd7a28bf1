SPECIFICATION Spec
CONSTANTS
  Slugs = {"a"}
  Requests = {q1, q2}
  Workers = {w1, w2}
  q1 = q1
  q2 = q2
  w1 = w1
  w2 = w2
  MaxWorkspaces = 2
  MaxDeployments = 2
  MaxDeliver = 2
INVARIANTS
  TypeOK
  CleanRemoval
  StillServed
SYMMETRY Symmetry
CHECK_DEADLOCK FALSE
