SPECIFICATION Spec
CONSTANTS
  WordBits = 2
  DataLen = 1
  NoRnd = NoRnd
  BitXor <- MCXor
  BitAnd <- MCAnd
  Filters <- MCFilters
  FileFilters <- MCFileFilters
  Rnds = {2}
  U32BITS = 8
  UINT8_MAX = 1
  INSN_SIZE = 2
  BLK_SIZE = 16
  PAGE = 16
INVARIANTS
  SameVerdicts
  NeverRefused
  InBounds
