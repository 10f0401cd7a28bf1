SPECIFICATION SessionsSpec
CONSTANTS
  Users = {u1, u2}
  u1 = u1
  u2 = u2
  Capacity = 1
  Window = 2
  MaxTime = 4
  Slugs = {s1, s2}
  s1 = s1
  s2 = s2
  NoSlug = none
  Scoped = {calls}
  Unscoped = {nodes}
  calls = calls
  nodes = nodes
  Queries <- SomeQueries
  TTL = 2
  MaxTokens = 2
  MaxChanges = 4
  MaxStreams = 1
INVARIANTS
  SessionsTypeOK
  RateBound
  RefusedOverLimit
  AccessExpires
  QueriesScoped
SYMMETRY Symmetry
CHECK_DEADLOCK FALSE
