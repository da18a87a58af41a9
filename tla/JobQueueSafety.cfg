\* Two workers and one request on one job, any two crashes or interventions.
SPECIFICATION Spec
CONSTANTS
  w1 = w1
  w2 = w2
  r1 = r1
  k1 = k1
  None = None
  Workers = {w1, w2}
  Requests = {r1}
  Keys = {k1}
  MaxRetry = 0
  MaxAttempts = 2
  Lease = 1
  AdminStale = 2
  Backoff <- MCBackoff
  Horizon = 2
  Delays = {0, 1}
  MaxFaults = 2
  MaxVersion = 1
SYMMETRY WorkerSymmetry
INVARIANTS
  TypeOK
  ClaimUnique
  Exclusive
  AttemptsBounded
PROPERTIES
  LeaseProtects
  FinishedStays
  ImplementsContract
