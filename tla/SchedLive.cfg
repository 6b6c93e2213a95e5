CONSTANTS
  idle = idle
  init = init
  t1 = t1
  t2 = t2
  t3 = t3
  NULL = NULL
  Thread = {idle, init, t1, t2}
  IdleThread = idle
  InitThread = init
  Program <- LiveProgram
  SleepArgs = {0, 1}
  Victims = {}
SPECIFICATION FairSpec
PROPERTIES
  RunnableRuns
  SleepersWake
  WaitReturns
