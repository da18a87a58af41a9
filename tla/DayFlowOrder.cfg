SPECIFICATION FairSpec
CONSTANTS
  Days = {1, 4, 5}
  Grouped = TRUE
  Offset <- MCOffset
  Workers = {w1}
  Requests = {r1}
  None = None
  Horizon = 6
  MaxAttempts = 2
  MaxEdits <- MCEdits
  MaxHead = 1
  MaxFaults = 1
  MaxResets = 1
INVARIANTS
  InOrder
  CompletedHasAll
  DaysSettled
PROPERTIES
  DaysClose
  KeepsContract
CHECK_DEADLOCK FALSE
