\* urbqueue_safety started one numbering before vpdo->seq_num wraps:
\* TLC finds UnlinkNamesCommand violated (see the README).
CONSTANTS
  Urbs = {u1, u2}
  Readers = {r1}
  NULL = NULL
  SeqStart <- SeqWrap
  Cancellable <- Irps
  StoreResults <- StoreAny
SPECIFICATION Spec
SYMMETRY UrbSymmetry
INVARIANT UnlinkNamesCommand
CHECK_DEADLOCK FALSE
VIEW UnlinkView
