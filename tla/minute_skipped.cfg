SPECIFICATION Spec
CONSTANTS
  MinuteLength = 11
  PollInterval = 11
  MaxWork = 1
  MaxFailures = 0
  MaxMinute = 8
PROPERTIES
  EveryMinuteIsSeen
CHECK_DEADLOCK FALSE
