CONSTANTS
  Registry <- MCRegistry
  Loop = Loop
  MaxFaults = 0
SPECIFICATION SchedulerFairSpec
PROPERTY KeepsSweeping
CHECK_DEADLOCK FALSE
