SPECIFICATION FairSpec
CONSTANTS
  Protocols = {"http", "stream"}
  MaxTurns = 3
  MaxTokens = 1
INVARIANTS
  TypeOK
  StatusTruthful
  TimeoutIsItsOwn
  SameThread
PROPERTIES
  NewestEnds
\* Every question may have been asked and answered.
CHECK_DEADLOCK FALSE
