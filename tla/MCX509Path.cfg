SPECIFICATION Spec
CONSTANTS
  none = none
  naive = naive
  Cert <- MCCert
  Calls <- MCCalls
  MaxPathDepth = 2
  None = none
  Naive = naive
INVARIANTS PathFound NoPathMissed AcceptedIsValid
PROPERTIES Terminates
CHECK_DEADLOCK FALSE
