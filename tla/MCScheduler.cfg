\* One processor among others, stores in the order of the source.
SPECIFICATION FairSpec
CONSTANTS
  Tasks = {t1, t2}
  InitTask = t1
  Kernel = Kernel
  Null = Null
  Elsewhere = Elsewhere
  Mutexes = {tm, mx}
  TasksMutex = tm
  HandlerLocks = {mx}
  OtherCPUs = TRUE
  SourceOrder = TRUE
  MaxTicks = 3
INVARIANTS
  IInv
PROPERTIES
  WedgedForGood
  ReturnsWhenDue
  Dispatched
  SleepEnds
CHECK_DEADLOCK TRUE
