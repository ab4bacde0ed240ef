CONSTANTS
  Urbs = {u1}
  Readers = {r1, r2}
  NULL = NULL
  SeqStart <- SeqFresh
  Cancellable <- Irps
  StoreResults <- StoreNoError
SPECIFICATION FairSpec
VIEW QueueView
INVARIANT ReadNotLost
PROPERTY UrbCompletes
CHECK_DEADLOCK FALSE
