CONSTANTS
  cert = cert
  key = key
  lower = lower
  one = one
  two = two
  pad = pad
  junk = junk
  Texts <- MCTexts
  Labels <- MCLabels
  CERTIFICATE = cert
  Padded = {pad}
  Certificates <- MCCertificates
SPECIFICATION PemSpec
CHECK_DEADLOCK FALSE
INVARIANT OtherBlocksIgnored
