SPECIFICATION Spec
CONSTANTS
  Services <- ThreeServices
  MessageLimit = 2
  MaxLength = 5
  MaxAttempts = 2
INVARIANTS
  FailuresAreIsolated
CHECK_DEADLOCK FALSE
