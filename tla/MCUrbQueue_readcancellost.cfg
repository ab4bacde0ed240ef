CONSTANTS
  Urbs = {u1, u2}
  Readers = {r1}
  NULL = NULL
  SeqStart <- SeqFresh
  Cancellable <- Readers
  StoreResults <- StoreNoError
SPECIFICATION SilentPeerSpec
PROPERTY CancelledIrpCompletes
CHECK_DEADLOCK FALSE
