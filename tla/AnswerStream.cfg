\* A queue smaller than the answer. The task and the client both stop.
SPECIFICATION Spec
CONSTANTS
  MaxTokens = 4
  Capacity = 3
INVARIANTS
  TypeOK
  AnswerShown
  EndMatchesRow
PROPERTIES
  StreamEndsUnlessLost
CHECK_DEADLOCK FALSE
