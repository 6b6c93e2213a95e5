CONSTANTS
  idle = idle
  init = init
  t1 = t1
  t2 = t2
  t3 = t3
  NULL = NULL
  Thread = {idle, init, t1, t2, t3}
  IdleThread = idle
  InitThread = init
  Program <- BlockingProgram
  SleepArgs = {0, 1}
  Victims = {}
SPECIFICATION Spec
SYMMETRY ForkedSymmetry
INVARIANTS
  StateMatchesQueue
  CurrentIsRunnable
  RefCountsExact
  NoDanglingThread
  NoLostWakeup
  WaitFindsZombie
PROPERTY
  NoEarlyWakeup
