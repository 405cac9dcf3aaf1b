SPECIFICATION Spec
CONSTANTS
  r1 = r1
  r2 = r2
  r3 = r3
  Runs <- ThreeRuns
  JobNames = {"a", "b"}
  Watched = {"a"}
  Outcomes = {"success"}
  MaxTime = 2
  MaxLimit = 2
  Queries <- MixedQueries
SYMMETRY RunSymmetry
INVARIANTS
  TypeOK
  NothingIsSkipped
PROPERTIES
  LatestAdvances
CHECK_DEADLOCK FALSE
