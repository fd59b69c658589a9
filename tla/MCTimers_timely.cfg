SPECIFICATION TimelySpec
CONSTANTS
  TimerIds = {t1, t2}
  Idlers = {i1}
  Periods = {0, 3}
  Epoch = 1
  Horizon = 4
  MaxTimeout = 2
  IntSpan = 64
  Hour = 1
  Jumps <- NoJumps
  MaxRuns = 0
INVARIANTS OnTime
CHECK_DEADLOCK FALSE
