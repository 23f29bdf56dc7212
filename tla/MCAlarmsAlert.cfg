SPECIFICATION BoundarySpec
CONSTANTS
  uni = uni
  pm = pm
  onu = onu
  NoPoint = NoPoint
  Points = {uni}
  Equipment = {onu}
  Lockable = {onu}
  PMOrder <- MCPMOrder
  ArcOwner <- MCArcOwner
  Codes <- MCOneCode
  LocksOver <- MCLocksOver
  Intervals = {0, 255}
  Never = 255
  MaxSeq = 2
  Restarts = FALSE
PROPERTIES AlertClears
CHECK_DEADLOCK FALSE
