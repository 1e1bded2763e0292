SPECIFICATION Spec
CONSTANTS
  Producers = {p1}
  Consumers = {c1}
  TryPoppers = {}
  TryPushers = {}
  Closers = {x1, x2}
  SlotKind = "futex"
  Size = 2
  Unit = 2
  CountMod = 16
  MayThrow = FALSE
  MaxTail = 4
  MaxHead = 16
INVARIANTS
  OnlyOneCloser
CHECK_DEADLOCK FALSE
