\* Three slabs of two objects: a slab can be full, partial, free or off-list
\* while two others are in use.
SPECIFICATION Spec
CONSTANTS
  Slabs = {s1, s2, s3}
  NObjs = 2
  Full = Full
  Partial = Partial
  Free = Free
SYMMETRY SlabSymmetry
INVARIANTS
  IInv
  NoDoubleAllocation
PROPERTIES
  LostStaysLost
CHECK_DEADLOCK FALSE
