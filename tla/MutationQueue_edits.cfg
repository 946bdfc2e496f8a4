\* Two changes of one message, edited, cancelled, undone and retried while the account changes.
SPECIFICATION Spec
CONSTANTS
  m1 = m1
  m2 = m2
  w1 = w1
  unread = unread
  read = read
  Messages <- OneMessage
  Values <- Flags
  Workers <- OneWorker
  RetryLimit = 2
  Window = 1
  MaxOps = 2
  MaxEpoch = 2
INVARIANTS
  ProjectionIsFresh
  RunsInOrder
  UndoIsGrounded
  LiveMutationsAreClaimable
PROPERTIES
  ReceiptsAreFinal
SYMMETRY Interchangeable
CHECK_DEADLOCK FALSE
