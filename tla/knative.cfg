SPECIFICATION Spec
CONSTANTS
  Script <- TwoFunctions
  MaxAttempts = 4
  MaxFaults = 2
  MaxReconciles = 1
INVARIANTS
  TypeOK
  WithinBudget
  LastOperationShows
PROPERTIES
  ShowsWhatWasAsked
CHECK_DEADLOCK FALSE
