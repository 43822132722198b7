SPECIFICATION Spec
CONSTANTS
  none = none
  naive = naive
  Cert <- MCCert
  Calls <- MCCalls
  MaxPathDepth = 2
  None = none
  Naive = naive
INVARIANT RaisesWithoutPath
CHECK_DEADLOCK FALSE
