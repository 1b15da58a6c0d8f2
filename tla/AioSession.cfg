SPECIFICATION Spec
CONSTANTS
  Msgs = 2
  MaxParts = 2
  MaxReplyParts = 2
INVARIANTS
  StreamsConserved
  AnswerMatches
PROPERTIES
  EveryMessageAnswered
  OperationsEnd
CHECK_DEADLOCK FALSE
