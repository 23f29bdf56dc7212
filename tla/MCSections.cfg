SPECIFICATION FairSpec
CONSTANTS
  Image <- MCImage
  WindowSize = 3
  Tcis = 2
  MaxFaults = 3
INVARIANTS TypeOK SinkIsPrefix
PROPERTIES DownloadCompletes
CHECK_DEADLOCK FALSE
