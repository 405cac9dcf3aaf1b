SPECIFICATION Spec
CONSTANTS
  j1 = j1
  j2 = j2
  t1 = t1
  t2 = t2
  Jobs <- OneJob
  Tasks <- TwoTasks
  Files <- RetryFile
  Outcomes = {"success", "failed"}
  PoolSize = 2
  MaxMinute = 1
  MaxIncarnation = 1
  Signals = {"SIGHUP", "SIGTERM"}
  ReloadTimer = {FALSE}
  SubmitMayFail = FALSE
  ClockMayStepBack = FALSE
  PickupIsPrompt = TRUE
  None = None
  MaxUnrecorded = 0
SYMMETRY TaskSymmetry
INVARIANTS
  NoOverlap
CHECK_DEADLOCK FALSE
