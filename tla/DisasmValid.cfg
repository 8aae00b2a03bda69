SPECIFICATION Spec
CONSTANTS
  Filters <- MemFilters
  BPF_MAXINSNS = 4
  BPF_MEMWORDS = 1
  FatalMax = 1
  Word <- MCWord
  Arches = {5, 6}
  SysNrs = {0, 1}
  SysName <- MCSysName
  scmp_arch = 5
  None = None
  ActionNr <- MCActionNr
  DataBits = 1
  TopAction = 2
INVARIANT
  CheckedIsValid
