\* One session, two states of its evidence, two workers, any one mishap.
SPECIFICATION FairSpec
CONSTANTS
  Workers = {w1, w2}
  None = None
  MaxEvidence = 2
  Ready = {2}
  MaxRetries = 0
  MaxAttempts = 2
  MaxFaults = 1
  MaxPasses = 2
CHECK_DEADLOCK FALSE
INVARIANTS
  TypeOK
  OutcomeTogether
  SucceededHasReport
PROPERTIES
  RunsStay
  RequestSettles
