CONSTANTS
  Notices <- MCNotices
  PageSize = 2
  MaxAttempts = 2
  Limits = {1, None}
  None = None
  Expired = Expired
  Other = Other
SPECIFICATION FairSpec
INVARIANT SkippedBounded
PROPERTY SweepEnds
