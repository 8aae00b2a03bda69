SPECIFICATION Spec
CONSTANTS
  x64 = x64
  x86 = x86
  odd = odd
  Root = 1
  Tasks = {1, 2}
  Nr <- MCNr
  Calls <- NumberedCalls
  Leftover <- NoLeftover
  MaxCalls = 3
  MaxSignals = 0
  MaxFilters = 2
  None = None
INVARIANT
  ExitFollowsEntry
