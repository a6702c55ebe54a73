SPECIFICATION Spec
SYMMETRY TurnSymmetry
CONSTANTS
  t1 = t1
  t2 = t2
  t3 = t3
  None = None
  Turns <- MCTurns
  Deliveries <- AllDeliveries
  MaxTokens = 1
  HistoryLimit = 1
  MaxFailures = 1
  MaxDrops = 1
INVARIANTS
  TypeOK NoPartialAnswer ReplyIsDurable ThreadKept HistoryComplete
PROPERTIES
  ImplementsLedger
\* Every turn may be over.
CHECK_DEADLOCK FALSE
