SPECIFICATION SessionSpec
CONSTANTS
  Requests = {1, 2}
  Quiet = {1}
  Cancellable = {1, 2}
  AckedLimit = 20
  SeenLimit = 2
  MaxTrouble = 1
INVARIANTS
  NothingIsForgotten
  ExecutedOnce
  AnswerIsItsOwn
CHECK_DEADLOCK FALSE
