\* Three threads and three descriptors, of which two collide.
SPECIFICATION Spec
CONSTANTS
  Threads = {main, t1, t2}
  Main = main
  Fds = {3, 4, 6}
  Masks <- Some
  MaxLen = 3
  None = None
INVARIANTS
  InOneList
  Watched
  TableExact
PROPERTIES
  QueuedRuns
CHECK_DEADLOCK FALSE
