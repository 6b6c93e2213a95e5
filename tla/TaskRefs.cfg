CONSTANTS
  NULL = NULL
  init = init
  Task = {init, t1, t2, t3}
  File = {f1, f2, f3}
  ForkFailure = {"text", "stack", "kstack", "malloc_text", "malloc_stack", "malloc_kstack"}
  ExecFailure = {"file", "text", "malloc_text"}
  Orphans = FALSE
SPECIFICATION Spec
INVARIANTS
  CountsExact
  ZombiesKeepStack
  NoTaskOutlivesItsThread
CHECK_DEADLOCK FALSE
