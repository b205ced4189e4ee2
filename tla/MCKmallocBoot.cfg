CONSTANTS
  Word = 256
  BlockSize = 8
  Kernel = 5
  Maps <- Small
  Levels = 8
  Power <- Powers
SPECIFICATION BSpec
INVARIANTS
  KeptOut
  TreeExact
CHECK_DEADLOCK FALSE
