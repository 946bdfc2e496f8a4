\* A change of two messages under FairSpec: a result per message, some saved, some lost; no symmetry.
SPECIFICATION FairSpec
CONSTANTS
  m1 = m1
  m2 = m2
  w1 = w1
  unread = unread
  read = read
  Messages <- MessagePair
  Values <- OneFlag
  Workers <- OneWorker
  RetryLimit = 2
  Window = 1
  MaxOps = 1
  MaxEpoch = 2
INVARIANTS
  SuccessIsReal
PROPERTIES
  MutationsSettle
CHECK_DEADLOCK FALSE
