CONSTANTS
  Phones = {p1}
  Addresses = {a1, a2}
  Browsers = {b}
  Descriptions = {long}
  Adequate = {long}
  MaxFailures = 2
  FailureBound = 0
  None = None
  Off = Off
SPECIFICATION Spec
PROPERTIES DigestToConfirmedAddress
CHECK_DEADLOCK FALSE
