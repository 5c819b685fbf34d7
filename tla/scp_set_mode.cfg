SPECIFICATION FairSpec
CONSTANTS
  Setups <- TwoFiles
  Nodes <- Everything
  Failures = {"mode"}
  MaxFailures = 1
CHECK_DEADLOCK FALSE
INVARIANT InStep
