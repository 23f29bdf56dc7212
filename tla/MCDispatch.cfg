SPECIFICATION ServeSpec
CONSTANTS
  Capacity = 2
  XgsEvidence = TRUE
  MaxFrames = 3
  MaxResets = 1
  Records <- TwoInstances
INVARIANTS TypeOK SessionFresh NoSilentLoss KernelSessionOrder
PROPERTIES QueueSpec FrameServed ResetReturns
CHECK_DEADLOCK FALSE
