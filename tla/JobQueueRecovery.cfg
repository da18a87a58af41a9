\* A job and its dead-letter retry, two workers, two requests: nothing is lost.
SPECIFICATION FairSpec
CONSTANTS
  w1 = w1
  w2 = w2
  r1 = r1
  r2 = r2
  k1 = k1
  None = None
  Workers = {w1, w2}
  Requests = {r1, r2}
  Keys = {k1}
  MaxRetry = 1
  MaxAttempts = 1
  Lease = 1
  AdminStale = 2
  Backoff <- MCBackoff
  Horizon = 2
  Delays = {0, 1}
  MaxFaults = 1
  MaxVersion = 0
INVARIANTS
  DeadLetterCopied
PROPERTIES
  AttemptsGrow
  Settles
