SPECIFICATION Spec
CONSTANTS
  IterationLimit = 1
  CallLimit = 1
  EventLimit = 4
  AllowedWorkers = {}
  Writers = {p, q}
  Attempts = {1}
  Inputs <- MCInputs
  Inspected = TRUE
  PowerLoss = TRUE
SYMMETRY WriterSymmetry
INVARIANTS
  AcknowledgedSurvives
  StopHasItsSnapshot
  InspectionShowsCommitted
PROPERTIES
  RecordSpec
CHECK_DEADLOCK FALSE
