\* Two callers, two keys, two executions of one draft's sends; the account changes once.
SPECIFICATION Spec
CONSTANTS
  d1 = d1
  c1 = c1
  c2 = c2
  k1 = k1
  k2 = k2
  w1 = w1
  w2 = w2
  Drafts <- OneDraft
  Bound <- OneDraft
  Callers <- CallerPair
  Keys <- KeyPair
  Workers <- WorkerPair
  RetryLimit = 2
  MaxOps = 2
  MaxEpoch = 2
  MaxRev = 2
INVARIANTS
  AtMostOneDelivery
  OutcomeIsHonest
  ResubmittingIsSafe
  SubmittedDraftHasOneSend
  LiveSendsAreClaimable
  HoldIsHonoured
  KeysAreIdempotent
PROPERTIES
  SettledIsFinal
SYMMETRY Interchangeable
CHECK_DEADLOCK FALSE
