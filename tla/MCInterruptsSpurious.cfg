CONSTANTS
  Lines = {0, 1, 6, 14}
  Service <- MCService
  Boot = boot
  Contexts = {boot, p, q}
  UserMasks <- MCUserMasks
  Glitches = TRUE
SPECIFICATION Spec
INVARIANTS
  FrameIntact
CHECK_DEADLOCK FALSE
