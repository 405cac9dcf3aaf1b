SPECIFICATION Spec
CONSTANTS
  StaleAfter = 2
  StartRetries = 1
  MaxCrashes = 2
INVARIANTS
  TypeOK
  HeartbeatIsWhole
  TempsAreRemoved
PROPERTIES
  DeathIsNoticed
  RepairIsNoticed
CHECK_DEADLOCK FALSE
