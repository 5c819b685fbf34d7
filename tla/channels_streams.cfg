SPECIFICATION Spec
CONSTANTS
  Listeners <- ListenServer
  Targets = {"host", "other"}
  Permitted = {"host"}
  Spoof = TRUE
  InitAlloc = 2
  AllocStep = 1
  HighWater = 2
  Chunk = 1
  SetupLen = 1
  MaxOpens = 1
  Writes <- BothWrite2
INVARIANT NoFault
INVARIANT StreamIntegrity
INVARIANT EofMeansEverything
PROPERTY FollowsForwarding
