CONSTANTS
  Char = {"a", "nl", "cr", "bs", "ff"}
  InSize = 2
  OutSize = 2
  InModulus = 4
  OutModulus = 4
  KeySize = 2
  Size = 3
SPECIFICATION FairSpec
VIEW View
PROPERTIES
  ImplementsLineInput
  LinesReturn
CHECK_DEADLOCK FALSE
