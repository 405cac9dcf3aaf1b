SPECIFICATION Spec
CONSTANTS
  Characters = {0, 3, 5, 6}
  MaxChars = 3
  MaxRuns = 2
  Limits = {0, 1, 4}
  HelperPossible = TRUE
INVARIANTS
  TypeOK
  SuccessIsReal
  TruncationIsExact
  OnlyTimeoutsLeaveProcesses
PROPERTIES
  RunReturns
CHECK_DEADLOCK FALSE
