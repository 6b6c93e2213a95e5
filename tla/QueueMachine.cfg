CONSTANTS
  Elem = {e1, e2, e3, e4, e5}
  QHead = {runq, doneq}
  Link = {runnable_link}
  link = runnable_link
  NULL = NULL
SPECIFICATION Spec
INVARIANTS
  QueueInv
PROPERTY
  ImplementsSequences
