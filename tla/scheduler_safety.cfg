SPECIFICATION Spec
CONSTANTS
  j1 = j1
  j2 = j2
  t1 = t1
  t2 = t2
  Jobs <- TwoJobs
  Tasks <- TwoTasks
  Files <- TwoFiles
  Outcomes = {"success", "failed"}
  PoolSize = 2
  MaxMinute = 1
  MaxIncarnation = 2
  Signals = {"SIGTERM"}
  ReloadTimer = {TRUE, FALSE}
  SubmitMayFail = TRUE
  ClockMayStepBack = FALSE
  PickupIsPrompt = TRUE
  None = None
  MaxUnrecorded = 1
SYMMETRY TaskSymmetry
INVARIANTS
  TypeOK
  AtMostOncePerMinute
  DedupeBounded
  RegistryGhostFree
  PlainJobsDoNotOverlap
  HistoryComplete
  StoppedIsDrained
PROPERTIES
  HistoryIsALog
CHECK_DEADLOCK FALSE
