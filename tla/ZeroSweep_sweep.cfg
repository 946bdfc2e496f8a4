\* Three conversations in two calls; other clients act on one of the four messages before, between and after.
SPECIFICATION SweepSpec
CONSTANTS
  m1 = m1
  m2 = m2
  m3 = m3
  m4 = m4
  z1 = z1
  a1 = a1
  Order <- Inbox
  Members <- InboxMembers
  Shared <- Contested
  Asked <- Requests
  Sweeps <- OneSweep
  Actions <- BothActions
  Batch = 3
  Horizon = 1
  MaxRevision = 3
  MaxMail = 2
INVARIANTS
  RunsAreTrue
PROPERTIES
  SweepForcesNothing
  UndoOverwritesNothing
CHECK_DEADLOCK FALSE
