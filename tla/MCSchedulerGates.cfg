CONSTANTS
  InitialSize = 2
  MaxFiles = 3
  MaxCreated = 4
  MaxOpened = 3
  ZeroBytes = {1}
  NULL = NULL
SPECIFICATION Spec
INVARIANTS
  GatesKept
