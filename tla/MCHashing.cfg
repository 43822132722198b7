SPECIFICATION HashingSpec
CONSTANTS
  BlockLen = 2
  ChunkLen = 4
  Handle = {h1, h2}
  Origin = h1
  h1 = h1
  h2 = h2
  IV = IV
  UserKey = UserKey
  ContextString = ContextString
  MaxUpdate = 9
  MaxInput = 25
  MaxOutput = 5
  Parallelism = 3
  MemoryCost = 26
  TimeCost = 2
  Word = 4
  Block <- MCBlock
  ZeroBlock = 0
  Seeds = {0, 1}
  HPrime <- MCHPrime
  G <- MCG
  Xor <- MCXor
  J1 <- MCJ1
  J2 <- MCJ2
  AddressJ1 <- MCAddressJ1
  AddressJ2 <- MCAddressJ2
  Octet <- MCOctet
  XorOctet <- MCXorOctet
  BlockSize = 3
  EncryptBlock <- MCEncryptBlock
  DecryptBlock <- MCDecryptBlock
  Pbkdf2 <- MCPbkdf2
  IsPrivateKeyInfo <- MCIsPrivateKeyInfo
  Keys = {0, 1, 2, 3}
  Passwords = {0, 1}
  Salts = {0, 1}
  IVs <- MCIVs
  Infos <- MCInfos
  MaxIterations = 2
  Iterations = {0, 1, 2, 3}
  Envelopes <- MCEnvelopes
INVARIANTS
  IncrementalIsOneShot
  DigestIsStream
  StackIsBinaryCounter
  OrderIrrelevant
  ReferenceSettled
  ReturnsOnlyWhatIsHeld
  FailsOnlyWhenNothingIsHeld
  RoundTrip
CHECK_DEADLOCK FALSE
