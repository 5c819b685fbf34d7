SPECIFICATION FairSpec
CONSTANTS
  Identities = {"k1", "k2"}
  Configs <- AllLogins
  MaxAttempts = 2
INVARIANT TypeOK
INVARIANT InStep
INVARIANT Understood
INVARIANT OnlyTheEntitled
INVARIANT LineRestricts
INVARIANT SessionAgreed
INVARIANT NothingLeft
PROPERTY GraceBounds
PROPERTY ClientSettles
CHECK_DEADLOCK FALSE
