SPECIFICATION Spec
CONSTANTS
  t1 = t1
  t2 = t2
  None = None
  Turns <- MCTurns
  Deliveries = {"sse"}
  MaxTokens = 1
  HistoryLimit = 1
  MaxFailures = 1
  MaxDrops = 1
INVARIANTS
  DonePersisted
CHECK_DEADLOCK FALSE
