SPECIFICATION Spec
CONSTANTS
  Sessions <- AllKinds
  StdinLimit = 2
  Small = 2
  HighOutput = 1
  HighBuffer = 1
  PipeCap = 1
  NetCap = 2
INVARIANT TypeOK
INVARIANT OutputBeforeStatus
INVARIANT EofAfterInput
INVARIANT StatusIsTheChilds
CHECK_DEADLOCK FALSE
