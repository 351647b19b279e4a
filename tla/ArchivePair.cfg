CONSTANTS
  Writers = {w1, w2}
  Paths = {p1, p2}
  MaxInodes = 4
  MaxCrashes = 0
SPECIFICATION Spec
INVARIANTS ArchiveTypeOK NoTruncatedBlob
