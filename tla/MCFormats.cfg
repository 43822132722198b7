CONSTANTS
  cert = cert
  key = key
  lower = lower
  one = one
  two = two
  pad = pad
  junk = junk
  Texts <- MCTexts
  Labels <- MCLabels
  CERTIFICATE = cert
  Padded = {pad}
  Certificates <- MCCertificates
  MaxLenOctets = 2
  MaxNesting = 3
  Inputs <- MCInputs
  Numbers <- MCNumbers
  Oids <- MCOids
  BitStrings <- MCBitStrings
SPECIFICATION FormatsSpec
CHECK_DEADLOCK FALSE
INVARIANTS
  SlicesNest
  AcceptsExactlyDer
  RoundTrip
  LoadsEveryBlock
  RejectsOnlyMalformed
  DecodesFirstBlock
