\* Progress under FairSpec: one draft, one caller, two executions; no symmetry.
SPECIFICATION FairSpec
CONSTANTS
  d1 = d1
  c1 = c1
  c2 = c2
  k1 = k1
  k2 = k2
  w1 = w1
  w2 = w2
  Drafts <- OneDraft
  Bound <- OneDraft
  Callers <- OneCaller
  Keys <- KeyPair
  Workers <- WorkerPair
  RetryLimit = 2
  MaxOps = 1
  MaxEpoch = 2
  MaxRev = 1
PROPERTIES
  SendsSettle
CHECK_DEADLOCK FALSE
