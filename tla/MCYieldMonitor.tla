--------------------------- MODULE MCYieldMonitor ---------------------------
\* A healthy yield, one below a quarter of it, and none.
EXTENDS YieldMonitor
HealthyCollapsedNone == {0, 1, 5}
=============================================================================
