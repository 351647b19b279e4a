CONSTANTS
  NULL = NULL
  Runs = {r1, r2}
  Tenders = {"t1", "t2"}
  Pages = {"p1", "p2", "expired"}
  Content <- MCContent
  MaxFetches = 2
  MaxFaults = 1
SPECIFICATION FairSpec
INVARIANTS ArchivedBeforeStored NoLostUpdate RawAccountedFor NewIsNew
PROPERTIES PagesAreAtomic EveryRunEnds
CHECK_DEADLOCK FALSE
