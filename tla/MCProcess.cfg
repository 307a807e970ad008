\* Safety: /init and up to three more tasks, three objects, two child entries each.
SPECIFICATION Spec
CONSTANTS
  Tasks = {t1, t2, t3, t4}
  InitTask = t1
  Objs = {o1, o2, o3}
  InitObj = o1
  NPids = 3
  NChildren = 2
  Null = Null
SYMMETRY ProcessSymmetry
INVARIANTS
  IInv
PROPERTIES
  ReportsToParent
  WakesWaiter
  WaitReturnsOwnChild
  ExecPanicExplained
CHECK_DEADLOCK FALSE
