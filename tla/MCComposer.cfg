CONSTANTS
  Shells = {"authenticated", "element"}
  MaxWords = 3
  MaxBars = 2
  MaxRecordings = 2
  MaxTurns = 2
  MaxConfigs = 1
  ReplyWords = 2
SPECIFICATION Spec
INVARIANTS TypeOK MicAsShown WordsKept StopTruthful
CHECK_DEADLOCK FALSE
