CONSTANTS
  idle = idle
  init = init
  t1 = t1
  t2 = t2
  t3 = t3
  NULL = NULL
  Thread = {idle, init, t1, t2}
  IdleThread = idle
  InitThread = init
  Program <- KillSleepersProgram
  SleepArgs = {1}
  Victims = {t1, t2}
SPECIFICATION Spec
INVARIANT WaitersListed
