SPECIFICATION Spec
CONSTANTS
  none = none
  naive = naive
  Cert <- MCDepthCert
  Calls <- MCDepthCalls
  MaxPathDepth = 8
  Links = 10
  None = none
  Naive = naive
INVARIANT DepthCapped
CHECK_DEADLOCK FALSE
