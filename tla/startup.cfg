SPECIFICATION FairSpec
CONSTANTS
  Replicas = {"r1", "r2", "r3"}
  Requests = {"q1"}
  Users = {"alice"}
  Passwords = {"p1"}
  MaxTokens = 2
  MaxFaults = 2
INVARIANTS
  TypeOK
  TokensAccepted
  PasswordKept
  AdminStays
PROPERTIES
  EventuallyServes
CHECK_DEADLOCK FALSE
