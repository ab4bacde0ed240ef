CONSTANTS
  Funcs <- AllFuncs
  Lens <- TransferLens
  BufSizes <- ReadSizes
  IsoOffsets <- Offsets
  MaxPackets = 2
SPECIFICATION Spec
INVARIANT SplitMatchesSingle
CHECK_DEADLOCK FALSE
