SPECIFICATION ClientSpec
CONSTANTS
  Threads = {p1, c1, c2}
  Producers = {p1}
  Consumers = {c1, c2}
  TryPoppers = {c2}
  Closers = {p1}
  MaxPush = 2
  MaxSeq = 4
  MaxAny = 3
INVARIANTS
  SynchTypeOK
  MutualExclusion
  LockWakesSleepers
  NotifySeesWaiters
  FifoDelivery
  NobodyStranded
  ClosedIsDrained
PROPERTIES
  ImplementsConqueue
  ConsumersReleased
  ValuesConsumed
CHECK_DEADLOCK FALSE
