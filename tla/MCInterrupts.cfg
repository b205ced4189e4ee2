CONSTANTS
  Lines = {0, 1, 6, 14}
  Service <- MCService
  Boot = boot
  Contexts = {boot, p, q}
  UserMasks <- MCUserMasks
  Glitches = FALSE
SPECIFICATION Spec
INVARIANTS
  FrameIntact
  NothingLeftInService
  TailInv
PROPERTIES
  EndsItsOwn
  WaitsForIt
  WaitEnds
CHECK_DEADLOCK FALSE
