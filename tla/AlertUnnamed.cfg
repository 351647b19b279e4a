CONSTANTS
  Tenders = {t1, t2}
  Senders = {d1}
  DigestSize = 2
  MaxRefusals = 0
  MaxCrashes = 0
SPECIFICATION Spec
INVARIANT EveryAlertedIsNamed
CHECK_DEADLOCK FALSE
