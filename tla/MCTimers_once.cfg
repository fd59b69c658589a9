SPECIFICATION Spec
CONSTANTS
  TimerIds = {t1}
  Idlers = {i1, i2}
  Periods = {1, 2}
  Epoch = 2
  Horizon = 3
  MaxTimeout = 1
  IntSpan = 64
  Hour = 1
  Jumps = {2}
  MaxRuns = 2
INVARIANTS TypeOK Registered FiresOnce
PROPERTIES ImplementsPromises NotEarly
CHECK_DEADLOCK FALSE
