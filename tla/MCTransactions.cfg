SPECIFICATION FairSpec
CONSTANTS
  Channels = {"low", "high"}
  Kinds = {"mib"}
  Tids = 2
  Repeats = 2
  MaxRequests = 3
  HighRequests = 1
  MaxVersion = 2
INVARIANTS TypeOK AtMostOnce AnswerIsOwn UploadConsistent
PROPERTIES EveryRequestAnswered
