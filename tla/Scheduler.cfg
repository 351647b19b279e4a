CONSTANTS
  Registry <- MCRegistry
  Loop = Loop
  MaxFaults = 6
SPECIFICATION SchedulerFairSpec
PROPERTY StartupSweepsAll
CHECK_DEADLOCK FALSE
