\* One trial whose approval and termination overlap.
SPECIFICATION Spec
CONSTANTS
  t1 = t1
  c1 = c1
  Trials = {t1}
  Extends <- MCOwn
  Candidates = {c1}
  MaxVersion = 1
  MaxFaults = 0
PROPERTIES
  TerminatedStays
