\* One repository, the company's run and the trial's job on two workers, and one
\* crash, overrun lease, failed cutoff, reset or revival of the trial.
SPECIFICATION FairSpec
CONSTANTS
  Sessions = {s1}
  RunKeys = {r1}
  TrialCleanup = trial_cleanup
  Workers = {w1, w2}
  None = None
  Closed = "archived"
  Retention = 0
  Horizon = 1
  MaxAttempts = 1
  MaxFaults = 1
CHECK_DEADLOCK FALSE
INVARIANTS
  TypeOK
  RecordTruthful
PROPERTIES
  RetentionKept
  TerminatedSettled
