SPECIFICATION FairSpec
CONSTANTS
  IterationLimit = 3
  CallLimit = 1
  EventLimit = 18
  AllowedWorkers = {"CALL_CODEX"}
  Saved = TRUE
  Scripts = {"test"}
INVARIANTS
  WorkerBudget
  ExecutionIsOnRecord
  FreshFinish
  LoopFollowsLedgerRules
  ResultMatchesRecord
  StopIsContinuable
PROPERTIES
  UncertainIsFinal
  TraceBeforeTerminalEvent
  NoWorkAfterSignal
  ProcessEnds
CHECK_DEADLOCK FALSE
