CONSTANTS
  Zone = {lomem}
  StartPage <- MCStartPage
  NumPages <- MCNumPages
  Field = {tsc_timestamp, system_time}
  MaxUpdates = 2
SPECIFICATION ServicesSpec
INVARIANTS
  EveryPageOnce
  HeapIsWhole
  RequestsAreMet
  UserHeapIsWhole
  TimeIsWhole
  SectionsAreInMemory
  ArgumentsArrive
  NumbersReadBack
PROPERTY ImplementsPool
CHECK_DEADLOCK FALSE
