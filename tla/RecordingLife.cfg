SPECIFICATION FairSpec
CONSTANTS
  Recs = {r1}
  Supplemental = {}
  Workers = {w1, w2}
  None = None
  MaxAttempts = 3
  MaxFaults = 2
INVARIANTS
  TypeOK
  ErasedText
  ReadyTogether
  PurgedErased
PROPERTIES
  ReadyKept
  TranscriptionSettles
CHECK_DEADLOCK FALSE
