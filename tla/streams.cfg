SPECIFICATION FairSpec
CONSTANTS
  u1 = u1
  d1 = d1
  d2 = d2
  c1 = c1
  c2 = c2
  Users = {u1}
  Conns = {c1, c2}
  Deployments = {d1, d2}
  Owner <- MCOwner
  Limit = 1
  MaxEvents = 2
INVARIANTS
  TypeOK
  ConnectionCap
  SlotsExact
  OwnEventsOnly
PROPERTIES
  ToldWhenSettled
CHECK_DEADLOCK FALSE
