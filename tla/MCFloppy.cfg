CONSTANTS
  SectorSize = 3
  PerTrack = 1
  Sectors = 4
  MaxTries = 3
  CylinderMod = 3
  MaxRequests = 1
SPECIFICATION Spec
INVARIANTS
  Preserved
  ReadExact
  WriteExact
PROPERTIES
  RequestEnds
CHECK_DEADLOCK FALSE
