SPECIFICATION FairShutdown
CONSTANTS
  Lines = {l1}
  l1 = l1
  Tails = {t1}
  t1 = t1
  Prime = 1
  MaxTime = 4
  Requests = {r1}
  r1 = r1
  Timeout = 2
  NewGrace = 1
INVARIANTS
  ShutdownTypeOK
  ShownOnce
  PromptShown
  DrainSpares
  RowsAccounted
PROPERTIES
  CleanExit
  Exits
CHECK_DEADLOCK FALSE
