CONSTANTS
  Addresses = {2, 4}
  Sizes = {0, 1, 2}
  Modulus = 16
  MaxHeaders = 2
SPECIFICATION Spec
INVARIANT SegmentsLoaded
CHECK_DEADLOCK FALSE
