SPECIFICATION TaskSpec
CONSTANTS
  Names = {x, y}
  Temps = {t1, t2, t3, t4, t5}
  Allocs = {default, other}
  Default = default
  MaxMake = 2
INVARIANT
  BlocksReturned
CHECK_DEADLOCK FALSE
