SPECIFICATION FairSpec
CONSTANTS
  AbortFails = TRUE
  MaxMibResets = 1
  MaxCrashes = 4
INVARIANTS TypeOK DownloadTargetsSpare SelectedIsValid MibIsHonest OneImageSelected
PROPERTIES FinalizationEnds
CHECK_DEADLOCK FALSE
