SPECIFICATION FairSpec
CONSTANTS
  Sessions <- TypesAhead
  StdinLimit = 1
  Small = 2
  HighOutput = 1
  HighBuffer = 1
  PipeCap = 1
  NetCap = 1
PROPERTY SessionEnds
CHECK_DEADLOCK FALSE
