\* One worker and the termination of the trial.
SPECIFICATION Spec
CONSTANTS
  w1 = w1
  r1 = r1
  k1 = k1
  None = None
  Workers = {w1}
  Requests = {r1}
  Keys = {k1}
  MaxRetry = 0
  MaxAttempts = 2
  Lease = 1
  AdminStale = 2
  Backoff <- MCBackoff
  Horizon = 2
  Delays = {0, 1}
  MaxFaults = 1
  MaxVersion = 0
PROPERTIES
  CancelledStays
