CONSTANTS
  Registry <- MCRegistry
  Loop = Loop
  MaxFaults = 1
SPECIFICATION SchedulerSpec
PROPERTY RunNeverCrashesScheduler
CHECK_DEADLOCK FALSE
