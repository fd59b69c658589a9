SPECIFICATION IOSpec
CONSTANTS
  w1 = w1
  Caller = caller
  Workers = {w1}
  UseCaller = TRUE
  Jobs = {j1, j2, j3}
  AnyThread = anyThread
  None = none
  Pipe = pipe
  OwnerOps = {"task"}
  Pins <- NoPins
INVARIANTS StopWaitsForEvents
CHECK_DEADLOCK FALSE
