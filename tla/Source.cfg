SPECIFICATION Spec
CONSTANTS
  Chunks <- MCChunks
  GROW_LEN = 2
  MAX_LINE_LEN = 5
  MAX_FILE_LEN = 6
  BPF_MAXINSNS = 1
  UnknownMax = 1
INVARIANTS
  InMap
  AcceptedAsWritten
  ColoursDiscarded
  LinesCounted
