SPECIFICATION Spec
CONSTANTS
  Recs = {r1, s1}
  Supplemental = {s1}
  Workers = {w1}
  None = None
  MaxAttempts = 3
  MaxFaults = 1
INVARIANTS
  BatchRuns
CHECK_DEADLOCK FALSE
