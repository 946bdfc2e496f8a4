SPECIFICATION Spec
CONSTANTS
  Messages = {1, 2}
  Imported = {1}
  MaxHistory = 2
  PageSize = 1
  Changed = {2}
  MaxCalls = 2
INVARIANTS LaneIsReflected ReceiptsAreNotOverwritten
CHECK_DEADLOCK FALSE
