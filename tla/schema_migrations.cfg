SPECIFICATION Spec
CONSTANTS
  Migrators = {"container", "operator"}
  MaxRuns = 4
  MaxDowngrades = 2
INVARIANTS
  TypeOK
  RevisionIsTrue
PROPERTIES
  RowsPersist
  UpgradeReachesHead
CHECK_DEADLOCK FALSE
