SPECIFICATION FairSpec
CONSTANTS
  j1 = j1
  j2 = j2
  t1 = t1
  t2 = t2
  Jobs <- TwoJobs
  Tasks <- TwoTasks
  Files <- ReloadFiles
  Outcomes = {"success", "failed"}
  PoolSize = 1
  MaxMinute = 1
  MaxIncarnation = 1
  Signals = {"SIGHUP", "SIGTERM"}
  ReloadTimer = {FALSE}
  SubmitMayFail = FALSE
  ClockMayStepBack = FALSE
  PickupIsPrompt = FALSE
  None = None
  MaxUnrecorded = 0
PROPERTIES
  TasksFinish
  RegistryClears
  StopTakesEffect
  ReloadTakesEffect
  LoopKeepsPolling
CHECK_DEADLOCK FALSE
