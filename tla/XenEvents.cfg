CONSTANTS
  Thread = {t1, t2}
  Port = {2, 3}
  timer = 2
  PortsPerWord = 3
  MaxDepth = 2
SPECIFICATION FairSpec
INVARIANTS
  NoEventStranded
  MarksAreTaken
PROPERTIES
  EventsTaken
CHECK_DEADLOCK FALSE
