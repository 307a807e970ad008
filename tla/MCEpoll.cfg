\* An epoll shared after fork, of which one process takes every event.
SPECIFICATION FairSpec
CONSTANTS
  Procs = {p1, p2}
  First = p1
  Callers = {p1}
  Fds = {a, b}
  Events = {"in"}
  Batches = {2}
  MaxEntries = 2
  None = None
INVARIANTS
  EntriesAccounted
PROPERTIES
  InterestSet
  ForeverReturnsEvents
  EventWakes
CHECK_DEADLOCK FALSE
