CONSTANTS
  Urbs = {u1, u2}
  Readers = {r1}
  NULL = NULL
  SeqStart <- SeqFresh
  Cancellable <- Irps
  StoreResults <- StoreAny
SPECIFICATION Spec
SYMMETRY UrbSymmetry
INVARIANT TypeOK
INVARIANT NoDoubleCompletion
INVARIANT NoOrphanIrp
INVARIANT UnlinkNamesCommand
CHECK_DEADLOCK FALSE
VIEW UnlinkView
