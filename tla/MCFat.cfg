CONSTANTS
  PerCluster = 4
  PerSector = 7
  SecPerClus = 2
  RsvdSecCnt = 1
  FATSz = 1
  TotSec = 13
  LongNames = {"LongOne"}
  Extended = {"LongOne"}
  ShortNames = {"b", "c"}
  DirNames = {"d"}
  Handles = {h1}
  None = None
  Values = {1}
  Lengths = {3, 6}
  MaxSize = 9
  MaxMade = 3
SPECIFICATION MCSpec
INVARIANTS
  ChainsApart
  HandlesAgree
  ReadsBack
PROPERTIES
  NothingLost
  StoreSpec
