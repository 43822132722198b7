CONSTANTS
  EcdsaCalls <- MCEcdsaCalls
  MaxCandidates = 3
  MlDsaParams <- MCMlDsaParams
  MlDsaSecrets <- MCMlDsaSecrets
  MlDsaMasks <- MCMlDsaMasks
  MlDsaBalls <- MCMlDsaBalls
  MlDsaHints <- MCMlDsaHints
  MaxAttempts = 3
  XofStreams <- MCXofStreams
  XofSamplers <- MCXofSamplers
  XofStep = 4
  SampleSize = 3
  SmallPrimes = {2, 3}
  MinKeyBits = 5
  RsaRequests <- MCRsaRequests
  RsaFiles <- MCRsaFiles
  RsaBlindings = {2, 13, 27}
  OctetBits = 2
  MinPad = 2
  Hash <- MCHash
  KemRing <- MCKemRing
  K = 2
  Du = 6
  Dv = 4
  Noise <- MCNoise
SPECIFICATION Spec
CHECK_DEADLOCK FALSE
INVARIANT
  SignaturesInRange
