CONSTANTS
  Thread = {t1, t2}
  NULL = NULL
  MaxDepth = 4
  Faults = TRUE
SPECIFICATION Spec
INVARIANTS
  OneInKernel
  OwnKernelStack
  TrapsFindLockFree
  MaskedInTopHalf
PROPERTY ImplementsHandoff
CHECK_DEADLOCK FALSE
