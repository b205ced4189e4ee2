CONSTANTS
  Lines = {0, 1, 7, 15}
  Service <- MCService
  Boot = boot
  Contexts = {boot, p}
  UserMasks <- MCUserMasks
  Glitches = TRUE
SPECIFICATION Spec
INVARIANTS
  HandlesServedOnly
CHECK_DEADLOCK FALSE
