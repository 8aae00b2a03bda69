SPECIFICATION FairSpec
CONSTANTS
  t1 = t1
  t2 = t2
  native = native
  compat = compat
  None = None
  Tasks = {t1, t2}
  Calls <- AllCalls
  Arches = {native, compat}
  DefaultArch = native
  ArchKnown = TRUE
  MapSize = 1
  RingCap = 2
  MayFail = TRUE
  MaxCalls = 3
INVARIANTS
  TypeOK
  CapturedExact
  NoEntryLeft
PROPERTIES
  LoadsReported
