SPECIFICATION Spec
CONSTANTS
  Producers = {p1, p2}
  Consumers = {c1, c2}
  TryPoppers = {}
  TryPushers = {}
  Closers = {x1}
  SlotKind = "futex"
  Size = 2
  Unit = 2
  CountMod = 16
  MayThrow = FALSE
  MaxTail = 3
  MaxHead = 16
SYMMETRY Symmetry
INVARIANTS
  TypeOK
  SlotExclusive
  Delivery
  ClosedRejects
  NoLostWakeup
  NothingLeftBehind
CHECK_DEADLOCK FALSE
