SPECIFICATION Spec
CONSTANTS
  Producers = {p1, p2}
  Consumers = {c1}
  TryPoppers = {c1, y1}
  TryPushers = {}
  Closers = {x1}
  SlotKind = "spin"
  Size = 2
  Unit = 1
  CountMod = 16
  MayThrow = TRUE
  MaxTail = 3
  MaxHead = 16
INVARIANTS
  SlotExclusive
  Delivery
  NoOverwrite
  ObserversExact
CHECK_DEADLOCK FALSE
