\* One trial with up to two versions, two candidates, one generation run again.
SPECIFICATION Spec
CONSTANTS
  t1 = t1
  c1 = c1
  c2 = c2
  Trials = {t1}
  Extends <- MCOwn
  Candidates = {c1, c2}
  MaxVersion = 2
  MaxFaults = 1
SYMMETRY CandidateSymmetry
INVARIANTS
  TypeOK
  InvitedLocked
  InvitedApproved
  PendingOpen
  GenerationOwed
  TerminatedRevoked
PROPERTIES
  InvitedFrozen
