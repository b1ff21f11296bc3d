SPECIFICATION FairEvaluatorSpec
CONSTANTS
  MaxRetries = 1
  Deadline = 3
  Delays <- MCDelays
PROPERTIES
  NothingAfterStop
  InterruptionIsTheOperators
  SettlesInTime
CHECK_DEADLOCK FALSE
