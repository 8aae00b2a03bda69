SPECIFICATION FairSpec
CONSTANTS
  None = None
  Lengths = {1, 2, 5}
  ChunkLen = 2
  MaxProgs = 2
  RingCap = 4
  MaxFilters = 3
  MayFail = TRUE
INVARIANTS
  TypeOK
  CopyFits
  PrintedWhole
  NothingMissing
PROPERTY
  CaptureEnds
