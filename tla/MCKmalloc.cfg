CONSTANTS
  MaxLevel = 3
  Width <- MCWidth
  Requests = {0, 1, 2, 3}
  ReservedSets <- MCReserved
  NULL = NULL
SPECIFICATION Spec
INVARIANTS
  IInv
  NoOverlap
  FailsOnlyWhenFull
  StaysInTree
  MoveInBounds
PROPERTIES
  ClimbFindsBlock
  CallsReturn
  ImplementsHeap
