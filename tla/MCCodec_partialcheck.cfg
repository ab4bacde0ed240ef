CONSTANTS
  Funcs <- FuncsButChainedMdl
  Lens <- TransferLens
  BufSizes <- ReadSizes
  IsoOffsets <- Offsets
  MaxPackets = 2
SPECIFICATION Spec
INVARIANT PartialCheckReadsHeader
CHECK_DEADLOCK FALSE
