\* Two actions on one message: applied, undone and applied again from older views, with a reminder; no symmetry, liveness.
SPECIFICATION FairSpec
CONSTANTS
  m1 = m1
  a1 = a1
  a2 = a2
  Members <- OneMember
  Actions <- ActionPair
  Horizon = 1
  MaxRevision = 4
  MaxMail = 2
PROPERTIES
  WritesSeeTheLatest
  UndoShowsTheOriginal
  RemindersReturn
CHECK_DEADLOCK FALSE
