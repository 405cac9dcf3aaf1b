SPECIFICATION FiringSpec
CONSTANTS
  MinuteLength = 7
  PollInterval = 2
  MaxWork = 1
  MaxFailures = 1
  MaxMinute = 288
  MinutesPerHour = 2
  FirstWeekday = 4
  Zones <- TheZones
  Schedule <- TheSchedule
  Calendars <- TheCalendars
INVARIANTS
  TypeOK
  LiveLoopIsFresh
  DailyJobsFireDaily
PROPERTIES
  EveryMinuteIsSeen
  CronIsKept
CHECK_DEADLOCK FALSE
