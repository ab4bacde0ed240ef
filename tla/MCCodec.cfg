CONSTANTS
  Funcs <- FuncsButChainedMdl
  Lens <- TransferLens
  BufSizes <- ReadSizes
  IsoOffsets <- Offsets
  MaxPackets = 2
SPECIFICATION Spec
INVARIANT TypeOK
INVARIANT SplitMatchesSingle
INVARIANT SetupMatchesDirection
CHECK_DEADLOCK FALSE
