\* Waits that have room for fewer events than there are.
SPECIFICATION Spec
CONSTANTS
  Procs = {p1}
  First = p1
  Callers = {p1}
  Fds = {a, b}
  Events = {"in"}
  Batches = {1, 2}
  MaxEntries = 2
  None = None
INVARIANTS
  ReadyEmptyAtPoll
CHECK_DEADLOCK FALSE
