SPECIFICATION IOFairSpec
CONSTANTS
  w1 = w1
  Caller = caller
  Workers = {w1}
  UseCaller = TRUE
  Jobs = {j1, j2}
  AnyThread = anyThread
  None = none
  Pipe = pipe
  OwnerOps = {"task", "timer", "event"}
  Pins <- PinToWorker
INVARIANTS IOTypeOK StopRunsTasks SecondStopFindsLeft
PROPERTIES JobRuns IOStopReturns IOImplementsPool
CHECK_DEADLOCK FALSE
