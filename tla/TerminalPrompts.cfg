SPECIFICATION FairSpec
CONSTANTS
  MaxQuestions = 3
PROPERTIES
  DecisionsAreAnswers
  FirstReasonReported
  QuestionsEnd
CHECK_DEADLOCK FALSE
