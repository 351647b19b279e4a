CONSTANTS
  Tenders = {t1, t2}
  Senders = {d1, d2}
  DigestSize = 1
  MaxRefusals = 0
  MaxCrashes = 1
SPECIFICATION Spec
SYMMETRY Alike
INVARIANTS AlertTypeOK NoMailWithoutAlert SentWasReceived OwnAlert
CHECK_DEADLOCK FALSE
