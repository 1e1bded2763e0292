SPECIFICATION SpecTryPush
CONSTANTS
  Producers = {p1}
  Consumers = {c1}
  TryPoppers = {}
  TryPushers = {y1}
  Closers = {}
  SlotKind = "futex"
  Size = 2
  Unit = 2
  CountMod = 16
  MayThrow = FALSE
  MaxTail = 4
  MaxHead = 16
INVARIANTS
  NoOverwrite
CHECK_DEADLOCK FALSE
