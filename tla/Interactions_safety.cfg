SPECIFICATION InteractionsSpec
CONSTANTS
  Members = {r, s}
  MaxRepeats = 1
  MaxRows = 4
  MaxCalls = 3
  MaxFaults = 1
CHECK_DEADLOCK FALSE
INVARIANTS AnswersAgree
PROPERTIES AnswerIsHeard
