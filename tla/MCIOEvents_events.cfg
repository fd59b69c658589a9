SPECIFICATION FairSpec
CONSTANTS
  Fds = {2}
  Kinds = {"READ", "WRITE"}
  Users = {u1}
  Idlers = {i1, i2}
  Waiters = {w1, w2}
  None = none
  CounterSpan = 3
  FirstSize = 2
  MaxGen = 1
  Ops = {"add", "del", "cancel", "cancelAll"}
INVARIANTS TypeOK InterestExact OneWakeup
PROPERTIES EdgeIsDelivered ImplementsPromises
CHECK_DEADLOCK FALSE
