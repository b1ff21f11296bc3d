SPECIFICATION Spec
CONSTANTS
  IterationLimit = 3
  CallLimit = 1
  EventLimit = 1
  AllowedWorkers = {"CALL_CODEX", "CALL_CLAUDE"}
  Saved = FALSE
  Scripts = {"test", "lint"}
INVARIANTS
  FreshFinish
CHECK_DEADLOCK FALSE
