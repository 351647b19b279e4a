SPECIFICATION YieldSpec
CONSTANTS
  Window = 2
  Yields <- HealthyCollapsedNone
  MaxRuns = 4
  MaxOpen = 2
INVARIANT NoVerdictWithoutHistory
CHECK_DEADLOCK FALSE
