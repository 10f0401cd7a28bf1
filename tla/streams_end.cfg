SPECIFICATION FairSpec
CONSTANTS
  u1 = u1
  d1 = d1
  d2 = d2
  c1 = c1
  Users = {u1}
  Conns = {c1}
  Deployments = {d1, d2}
  Owner <- MCOwner
  Limit = 1
  MaxEvents = 3
PROPERTIES
  EndsWhenSettled
CHECK_DEADLOCK FALSE
