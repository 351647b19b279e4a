CONSTANTS
  Phones = {p1, p2}
  Addresses = {a}
  Browsers = {b}
  Descriptions = {short, long}
  Adequate = {long}
  MaxFailures = 2
  FailureBound = 2
  None = None
  Off = Off
SPECIFICATION Spec
INVARIANTS VerdictIsAPersons OnlyVerifiedActs SilentAfterUnsubscribing RetiredForCause
CHECK_DEADLOCK FALSE
