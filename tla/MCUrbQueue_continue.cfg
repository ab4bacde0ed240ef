CONSTANTS
  Urbs = {u1, u2}
  Readers = {r1}
  NULL = NULL
  SeqStart <- SeqFresh
  Cancellable <- Irps
  StoreResults <- StoreAny
SPECIFICATION Spec
PROPERTY ContinueAfterHeader
