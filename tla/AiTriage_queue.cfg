SPECIFICATION Spec
CONSTANTS
  Threads = {t1}
  Jobs = {j1, j2}
  NoJob = none
  SliceYields = FALSE
  MaxVersion = 2
  MaxInterventions = 2
SYMMETRY Interchangeable
INVARIANTS AssessmentsFollowTheMail RequestsAreBounded PendingItemsAreQueued ProcessingHasAWorker
CHECK_DEADLOCK FALSE
