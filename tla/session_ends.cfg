SPECIFICATION FairSpec
CONSTANTS
  Sessions <- EndingKinds
  StdinLimit = 1
  Small = 2
  HighOutput = 1
  HighBuffer = 1
  PipeCap = 1
  NetCap = 1
PROPERTY OutputFlows
PROPERTY InputFlows
PROPERTY SessionEnds
CHECK_DEADLOCK FALSE
