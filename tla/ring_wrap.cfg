SPECIFICATION Spec
CONSTANTS
  Producers = {p1}
  Consumers = {c1, c2}
  TryPoppers = {}
  TryPushers = {}
  Closers = {x1}
  SlotKind = "synch"
  Size = 2
  Unit = 2
  CountMod = 8
  MayThrow = FALSE
  MaxTail = 10
  MaxHead = 64
SYMMETRY Symmetry
INVARIANTS
  SlotExclusive
  Delivery
  NoLostWakeup
  NothingLeftBehind
CHECK_DEADLOCK FALSE
