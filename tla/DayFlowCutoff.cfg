SPECIFICATION FairSpec
CONSTANTS
  Days = {2, 3}
  Grouped = FALSE
  Offset <- MCOffset
  Workers = {w1, w2}
  Requests = {r1}
  None = None
  Horizon = 3
  MaxAttempts = 2
  MaxEdits <- MCEdits
  MaxHead = 1
  MaxFaults = 1
  MaxResets = 0
INVARIANTS
  EvidenceFrozen
PROPERTIES
  RecordsStay
  DaysClose
CHECK_DEADLOCK FALSE
