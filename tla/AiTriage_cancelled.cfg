SPECIFICATION Spec
CONSTANTS
  Threads = {t1, t2}
  Jobs = {j1}
  NoJob = none
  SliceYields = TRUE
  MaxVersion = 1
  MaxInterventions = 1
PROPERTY CancelledJobsStayCancelled
CHECK_DEADLOCK FALSE
