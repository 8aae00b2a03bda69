SPECIFICATION Spec
CONSTANTS
  Filters <- NameFilters
  BPF_MAXINSNS = 6
  BPF_MEMWORDS = 1
  FatalMax = 1
  Word <- MCWord
  Arches = {5, 6}
  SysNrs = {0, 1}
  SysName <- MCSysName
  scmp_arch = 5
  None = None
  ActionNr <- MCActionNr
  DataBits = 1
  TopAction = 2
INVARIANTS
  TypeOK
  RenderInBounds
  DecodeKeepsBranches
  NamesRight
  NumbersReassemble
  AsmKeepsMeaning
  CMacroSame
