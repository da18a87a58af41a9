SPECIFICATION Spec
CONSTANTS
  Days = {2, 3}
  Grouped = FALSE
  Offset <- MCOffset
  Workers = {w1}
  Requests = {r1}
  None = None
  Horizon = 3
  MaxAttempts = 2
  MaxEdits <- MCEdits
  MaxHead = 1
  MaxFaults = 0
  MaxResets = 0
INVARIANT
  WorkContinues
CHECK_DEADLOCK FALSE
