SPECIFICATION Spec
CONSTANTS
  IssueScripts = {"test"}
  TaskScripts = {}
  Instructions <- MCNone
  OtherFiles <- MCOther
  Unsafe = {}
  Scripts <- MCScripts
  BaseNames = {"verify", "test", "lint"}
  Calls <- MCCalls
  Texts = {"use_test"}
  TextScripts <- MCTextScripts
  AllowedWorkers = {"CALL_CLAUDE"}
  CallLimit = 2
  Repositories <- MCShrinking
  IterationLimit = 4
  MaxStops = 1
INVARIANTS
  OriginalChecksDecide
CHECK_DEADLOCK FALSE
