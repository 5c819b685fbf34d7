SPECIFICATION FairSpec
CONSTANTS
  Listeners <- ListenServer
  Targets = {"host", "other"}
  Permitted = {"host"}
  Spoof = TRUE
  InitAlloc = 2
  AllocStep = 1
  HighWater = 1
  Chunk = 1
  SetupLen = 1
  MaxOpens = 1
  Writes <- BothWrite
PROPERTY OpenIsAnswered
PROPERTY ClosingCompletes
