SPECIFICATION FairSpec
CONSTANTS
  InitialAlloc = 5
  Increment = 1
  Setups <- SplitKeyAndCompression
  PipeSize = 2
  MaxData <- TwoFromServer
CHECK_DEADLOCK FALSE
INVARIANTS
  TypeOK
  Understood
PROPERTIES
  PipeSpec
  NothingHangs
