CONSTANTS
  Width = 2
  Height = 2
  TabDistance = 2
  MaxSequence = 4
  IntMax = 27
  Bytes = {"BS", "CR", "LF", "ESC", "TAB", "CSI", "OSC", "[", "]", "ST", "7", "8", "<", ">", ";", "2", "A", "B", "C", "D", "E", "H", "J", "K", "S", "T", "s", "u", "m"}
SPECIFICATION Spec
INVARIANTS
  CursorShown
PROPERTIES
  InBounds
  TextKept
  SequenceEnds
