SPECIFICATION FairSpec
CONSTANTS
  x64 = x64
  x86 = x86
  odd = odd
  Root = 1
  Tasks = {1, 2}
  Nr <- MCNr
  Calls <- TwoArchCalls
  Leftover <- AnyInfo
  MaxCalls = 3
  MaxSignals = 1
  MaxFilters = 2
  None = None
INVARIANTS
  TypeOK
  LoadsPrinted
PROPERTIES
  GroupStopKept
  StopsEnd
  TracerEnds
