SPECIFICATION FairSpec
CONSTANTS
  Fibers = {reader, writer}
  Connecting = {writer}
  Limited = {writer}
  PoolSize = 2
  Directions = {reader}
  MaxOpens = 2
INVARIANTS TypeOK WaitsForOne NoTimerLeft
PROPERTIES TimeoutIsReported KeepsThreads CallsReturn
CHECK_DEADLOCK FALSE
