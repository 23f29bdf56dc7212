SPECIFICATION FairSpec
CONSTANTS
  Capacity = 1
  XgsEvidence = FALSE
  MaxFrames = 2
  MaxResets = 1
  Records <- OneSession
PROPERTIES ExhaustionTerminates
CHECK_DEADLOCK FALSE
