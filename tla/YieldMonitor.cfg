SPECIFICATION YieldSpec
CONSTANTS
  Window = 2
  Yields <- HealthyCollapsedNone
  MaxRuns = 4
  MaxOpen = 2
INVARIANT NoFalseAlarm
PROPERTY CollapseIsFlagged
CHECK_DEADLOCK FALSE
