SPECIFICATION Spec
CONSTANTS
  Fds = {0}
  Kinds = {"READ", "WRITE"}
  Users = {u1}
  Idlers = {i1}
  Waiters = {w1, w2}
  None = none
  CounterSpan = 3
  FirstSize = 1
  MaxGen = 1
  Ops = {"add", "cancel"}
INVARIANTS OnlyRegisteredIsTriggered
CHECK_DEADLOCK FALSE
