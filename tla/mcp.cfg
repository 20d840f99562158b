SPECIFICATION FairSpec
CONSTANTS
  N = 2
  MaxCalls = 2
INVARIANTS AnsweredIsReceived StoppedWhenOver
PROPERTIES ClosedNeverAnswers TurnEnds
CHECK_DEADLOCK FALSE
