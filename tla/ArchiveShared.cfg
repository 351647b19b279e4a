CONSTANTS
  Writers = {w1, w2}
  Paths = {p1}
  MaxInodes = 2
  MaxCrashes = 1
SPECIFICATION Spec
INVARIANT NoTruncatedBlob
CHECK_DEADLOCK FALSE
