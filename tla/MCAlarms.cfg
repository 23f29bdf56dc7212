SPECIFICATION FairSpec
CONSTANTS
  uni = uni
  pm = pm
  onu = onu
  NoPoint = NoPoint
  Points = {uni}
  Equipment = {onu}
  Lockable = {onu}
  PMOrder <- MCPMOrder
  ArcOwner <- MCArcOwner
  Codes <- MCCodes
  LocksOver <- MCLocksOver
  Intervals = {0, 1, 255}
  Never = 255
  MaxSeq = 2
  Restarts = TRUE
INVARIANTS TypeOK InStep NoFalseGap TimerMeansQuiet AlertIsAudited
PROPERTIES ArcEnds
CHECK_DEADLOCK FALSE
