SPECIFICATION HistorySpec
CONSTANTS
  Producers = {p1, p2}
  Consumers = {c1}
  TryPoppers = {}
  TryPushers = {}
  Closers = {x1}
  SlotKind = "futex"
  Size = 2
  Unit = 2
  CountMod = 16
  MayThrow = FALSE
  MaxTail = 3
  MaxHead = 16
PROPERTIES
  ImplementsConqueue
  ConsumersReleased
  PushCompletes
CHECK_DEADLOCK FALSE
