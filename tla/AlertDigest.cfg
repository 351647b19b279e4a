CONSTANTS
  Tenders = {t1, t2}
  Senders = {d1}
  DigestSize = 1
  MaxRefusals = 1
  MaxCrashes = 1
SPECIFICATION FairSpec
INVARIANTS NoMailWithoutAlert SentWasReceived MailedOnce PushedOnce
PROPERTY EveryMatchAlerted
CHECK_DEADLOCK FALSE
