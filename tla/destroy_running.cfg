SPECIFICATION PoolSpec
CONSTANTS
  Pushers = {s1}
  Poppers = {w1}
  Capacity = 1
  Managers = {m1}
  Main = m1
  MaxSubmit = 1
INVARIANT
  QueueOutlivesUsers
CHECK_DEADLOCK FALSE
