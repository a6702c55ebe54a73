SPECIFICATION FairSpec
CONSTANTS
  t1 = t1
  t2 = t2
  None = None
  Turns <- MCTurns
  Deliveries <- AllDeliveries
  MaxTokens = 2
  HistoryLimit = 1
  MaxFailures = 2
  MaxDrops = 2
PROPERTIES
  EveryQuestionEnds
\* Every turn may be over.
CHECK_DEADLOCK FALSE
