SPECIFICATION Spec
CONSTANTS
  w1 = w1
  Caller = caller
  Workers = {w1, w2}
  UseCaller = FALSE
  Jobs = {j1}
  AnyThread = anyThread
  None = none
  Pins <- NoPins
INVARIANTS OnlyReadyIsTaken
CHECK_DEADLOCK FALSE
