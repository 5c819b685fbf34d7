SPECIFICATION FairSpec
CONSTANTS
  Setups <- AllSetups
  MaxConns = 2
  MaxHups = 2
  QueueSize = 2
INVARIANT TypeOK
INVARIANT KeyTurnsOver
INVARIANT FreshPools
INVARIANT NoZombieForgotten
PROPERTY HangupHeard
CHECK_DEADLOCK FALSE
