SPECIFICATION FairSpec
CONSTANTS
  MaxTurns = 3
  MaxTokens = 1
  MaxReconnectAttempts = 1
  MaxDrops = 1
INVARIANTS
  TypeOK
  AnswerInItsBubble
  AskedOnceInOrder
  StatusTruthful
  AnswerContinues
PROPERTIES
  NoReconnectWhenOver
  QueueDrains
CHECK_DEADLOCK FALSE
