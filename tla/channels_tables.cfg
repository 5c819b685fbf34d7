SPECIFICATION Spec
CONSTANTS
  Listeners <- ListenBoth
  Targets = {"host"}
  Permitted = {"host"}
  Spoof = TRUE
  InitAlloc = 3
  AllocStep = 1
  HighWater = 1
  Chunk = 1
  SetupLen = 1
  MaxOpens = 2
  Writes <- ServerWrites
CONSTRAINT OneWriter
INVARIANT TypeOK
INVARIANT TableConsistent
INVARIANT PacketsFindTheirChannel
INVARIANT CloseAgreement
INVARIANT SelectSetsCurrent
