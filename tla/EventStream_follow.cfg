\* Bursts larger than the page, retention short enough to expire a follower that was away; liveness.
SPECIFICATION FairSpec
CONSTANTS
  Retention = 3
  PageSize = 2
  Burst = 3
  MaxSeq = 6
  MaxDrops = 2
INVARIANTS
  NothingIsMissed
PROPERTIES
  ImplementsFeed
  EveryEventArrives
CHECK_DEADLOCK FALSE
