SPECIFICATION Spec
CONSTANTS
  Pushers = {s1, s2}
  Poppers = {w1, w2}
  Capacity = 1
  Managers = {m1, m2}
  Main = m1
  MaxSubmit = 2
  MaxWrite = 3
  Names = {x, y}
  Temps = {t1, t2, t3, t4, t5}
  Allocs = {default, other}
  Default = default
  MaxMake = 2
INVARIANTS
  TornDownOnce
  WaitMeansFinished
  SafeAfterWait
  LoopsShareValues
  OneOwner
  BlocksFreedOnce
PROPERTIES
  WaitReturns
  SubmitReturns
  LoopsEnd
CHECK_DEADLOCK FALSE
