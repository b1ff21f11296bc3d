SPECIFICATION Spec
CONSTANTS
  IterationLimit = 3
  CallLimit = 1
  EventLimit = 20
  AllowedWorkers = {"CALL_CODEX"}
  Saved = TRUE
  Scripts = {"test"}
INVARIANTS
  StateFitsContract
CHECK_DEADLOCK FALSE
