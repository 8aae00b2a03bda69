SPECIFICATION FairSpec
CONSTANTS
  L1 = L1
  L2 = L2
  Labels = {L1, L2}
  NoLabel = NoLabel
  Lines <- LabelLines
  MaxLines = 4
  BPF_MAXINSNS = 4
  Uint16 = 16
  BPF_MEMWORDS = 2
  ARGS = 1
  WordBits = 4
  UINT8_MAX = 1
  RetDataMax = 3
  Word <- MCWord
  Inputs <- MCInputs
  MaxRuns = 2
  Undef = Undef
  NoVerdict = NoVerdict
  AttrOf <- MCAttrOf
  AluResult <- MCAluResult
  CompareResult <- DoCompare
  DecodeReturnK <- MCDecodeReturnK
INVARIANTS
  TypeOK
  AssertsHold
PROPERTIES
  KernelAgrees
  RunTerminates
