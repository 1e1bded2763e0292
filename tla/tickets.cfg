SPECIFICATION FairSpec
CONSTANTS
  Threads = {t1, t2, t3}
  Half = 4
  MaxStale = 1
INVARIANTS
  WriterAlone
  TicketsReturned
PROPERTIES
  WritersServed
  ReadersServed
CHECK_DEADLOCK FALSE
