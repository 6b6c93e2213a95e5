CONSTANTS
  LowFrame = {1,2,3,4,5,6,7,8,9,10,11,12}
  HighFrame = {101,102,103}
  CellsPerPage = 2
  PagesPerTable = 2
  FirstTable = 1
  LastTable = 3
  QueueSize = 3
  Junk = Junk
  idle = idle
  init = init
  t1 = t1
  Task = {idle, init, t1}
  Sections <- MCSections
  UserStack <- MCUserStack
  NewAreas <- MCNewAreas
  Writable = {7}
  Zero = "zero"
  Value = {"written"}
  FileByte <- MCFileByte
  OutOfStacks = FALSE
SPECIFICATION Spec
VIEW View
INVARIANTS
  NoFrameTwice
  ReadOnlyTables
  RunsOnOwnDirectory
PROPERTIES
  OnlyForkLosesFrames
  ImplementsTaskMemory
CHECK_DEADLOCK FALSE
