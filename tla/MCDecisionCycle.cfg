SPECIFICATION Spec
CONSTANTS
  IssueScripts = {"test"}
  TaskScripts = {}
  Instructions <- MCInstructions
  OtherFiles <- MCOther
  Unsafe = {}
  Scripts <- MCScripts
  BaseNames = {"verify", "test", "lint"}
  Calls <- MCCalls
  Texts = {"use_test"}
  TextScripts <- MCTextScripts
  AllowedWorkers = {"CALL_CLAUDE"}
  CallLimit = 2
  Repositories <- MCRepositories
  IterationLimit = 4
  MaxStops = 1
INVARIANTS
  FinalChecksAgree
  FinishVerified
  RepairIsGrounded
  NoBlindRetry
CHECK_DEADLOCK FALSE
