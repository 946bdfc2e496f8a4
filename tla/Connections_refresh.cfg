SPECIFICATION Spec
CONSTANTS
  Processes = {p1, p2}
  Requests = {r1, r2}
  Authorizations = {a1}
  MaxVersion = 4
SYMMETRY Interchangeable
INVARIANTS OneRefreshAtATime NoUseAfterDisconnect RetiredInstancesAreInUse
PROPERTIES AuthorityNeverGoesBack RevokedForCause
CHECK_DEADLOCK FALSE
