\* Five events take one thread through a deletion, its id created again and a
\* second life with usage or turns of its own.
CONSTANTS
  Threads = {t1}
  Log = Log
  MaxEvents = 5
  MaxBatch = 1
  PageSize = 1
SPECIFICATION Spec
INVARIANTS NothingNeededIsGone ReplayHasNoGap UsageCountedOnce
