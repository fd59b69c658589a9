SPECIFICATION Spec
CONSTANTS
  Fds = {0}
  Kinds = {"READ"}
  Users = {u1}
  Idlers = {i1}
  Waiters = {w1, w2}
  None = none
  CounterSpan = 3
  FirstSize = 1
  MaxGen = 1
  Ops = {"add"}
INVARIANTS ContextIsFree
CHECK_DEADLOCK FALSE
