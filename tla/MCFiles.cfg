CONSTANTS
  MaxResolves = 3
  DirNames = {"d"}
  EntrySize = 3
  MaxDepth = 1
  MaxStates = 3
  DriveWorks = TRUE
  Procs = {1, 2}
  MaxFiles = 1
  Callers = {1}
  Paths <- MCPaths
SPECIFICATION Spec
INVARIANTS
  RefsHeld
  OpensWhatItNames
  TracesBack
  ListedOnce
PROPERTIES
  NothingLeaks
CHECK_DEADLOCK FALSE
