\* Four threads; no symmetry, for the sake of liveness.
SPECIFICATION FairSpec
CONSTANT Threads = {t1, t2, t3, t4}
INVARIANTS
  WriterExcludesAll
  IInv
PROPERTIES
  LockProgress
  ImplementsAbstract
CHECK_DEADLOCK TRUE
