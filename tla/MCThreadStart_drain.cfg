SPECIFICATION StartFairSpec
CONSTANTS
  w1 = w1
  Caller = caller
  Workers = {w1}
  UseCaller = TRUE
  Jobs = {j1, j2}
  AnyThread = anyThread
  None = none
  NoId = noId
  Pins <- PinToWorker
INVARIANTS TypeOK ActiveExact NothingLost QueueIsServed StopDrains Handshake IdsAreKnown
PROPERTIES StopReturns StartEnds ImplementsPool StartsAtOnce
CHECK_DEADLOCK FALSE
