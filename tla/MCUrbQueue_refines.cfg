CONSTANTS
  Urbs = {u1, u2, u3}
  Readers = {r1}
  NULL = NULL
  SeqStart <- SeqFresh
  Cancellable <- NoCancel
  StoreResults <- StoreNoError
SPECIFICATION FairSpec
PROPERTY RefinesRequestQueue
CHECK_DEADLOCK FALSE
