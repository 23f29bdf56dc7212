SPECIFICATION Spec
CONSTANTS
  AbortFails = FALSE
  MaxMibResets = 1
  MaxCrashes = 0
INVARIANTS RejectsSelectedTargets
CHECK_DEADLOCK FALSE
