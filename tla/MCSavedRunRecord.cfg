SPECIFICATION Spec
CONSTANTS
  IterationLimit = 3
  CallLimit = 1
  EventLimit = 9
  AllowedWorkers = {"CALL_CODEX"}
  Attempts <- MCAttempts
INVARIANTS
  EveryDispatchApproved
  FinishNeedsFreshApproval
  BudgetsSpanSegments
  ReviewMatchesRecord
CHECK_DEADLOCK FALSE
