SPECIFICATION Spec
CONSTANTS
  Slabs = {s1, s2, s3}
  NObjs = 2
  Full = Full
  Partial = Partial
  Free = Free
INVARIANTS
  EverySlabListed
CHECK_DEADLOCK FALSE
