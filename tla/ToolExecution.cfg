SPECIFICATION FairToolSpec
CONSTANTS
  Descendants = {d1}
  Messages <- MCMessages
  MaxEvent = 1
  MaxContext = 24
  MaxExcerpt = 4
  MaxIssueBody = 7
  MaxSummary = 2
  MaxItems = 2
  MaxIteration = 2
  Evidence <- MCEvidence
  Outputs <- MCOutputs
INVARIANTS
  NoSurvivors
  QuietAfterResult
  OutputMatchesStream
  PacketServesTheCall
  StopIsReported
PROPERTIES
  Returns
CHECK_DEADLOCK FALSE
