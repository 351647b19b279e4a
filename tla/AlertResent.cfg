CONSTANTS
  Tenders = {t1, t2}
  Senders = {d1}
  DigestSize = 1
  MaxRefusals = 0
  MaxCrashes = 1
SPECIFICATION Spec
INVARIANT NeverMailedTwice
CHECK_DEADLOCK FALSE
