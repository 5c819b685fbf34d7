SPECIFICATION FairSpec
CONSTANTS
  Setups <- EveryCopy
  Nodes <- Everything
  Failures = {"open", "opendir", "read", "target", "mkdir", "create", "write", "truncate", "times", "close",
              "connection"}
  MaxFailures = 4
CHECK_DEADLOCK FALSE
INVARIANT InStep
PROPERTY StatusTells
